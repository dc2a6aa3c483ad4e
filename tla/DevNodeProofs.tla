--------------------------- MODULE DevNodeProofs ---------------------------
(***************************************************************************)
(* Proofs about the development node: the pool of one account hands its    *)
(* transactions to the chain once each and in nonce order, and never loses *)
(* track of one it accepted.                                               *)
(*                                                                         *)
(* The inductive invariant NodeInv says of the three places a transaction  *)
(* can be in (the chain, the ready queue, the parked ones) which nonces    *)
(* they hold, and that the transactions held there, known by their ids,    *)
(* are the ones whose submitters were told "accepted".  The lemmas about   *)
(* steps take any transaction with a natural nonce, so that they serve the *)
(* clients of the node as well as its own NodeNext.                        *)
(***************************************************************************)
EXTENDS DevNode, TLAPS

\* Every transaction the node holds.
HeldTxs == ToSet(chain) \cup ToSet(ready) \cup future

\* The chain carries the first nonces, the queue the next ones, and what is
\* parked is ahead of both.
NonceOrder ==
  /\ \A i \in 1..Len(chain) : chain[i].nonce = i - 1
  /\ \A i \in 1..Len(ready) : ready[i].nonce = Len(chain) + (i - 1)
  /\ \A t \in future : t.nonce > Len(chain) + Len(ready)

\* A set of transactions and a record of what was told of each id agree.
Agree(held, told) ==
  /\ \A t, u \in held : t.id = u.id => t = u
  /\ \A id \in TxIds : told[id] = "accepted" <=> \E t \in held : t.id = id

\* What is told once t is accepted and those in gone have made way for it.
Told(told, t, gone) ==
  [i \in TxIds |-> IF i = t.id THEN "accepted"
                   ELSE IF \E g \in gone : g.id = i THEN "error" ELSE told[i]]

\* A block never has fewer transactions under it than an older one.
BlocksGrow ==
  \A i, j \in 1..Len(blocks) : i <= j => blocks[i] <= blocks[j]

NodeInv == NodeTypeOK /\ NonceOrder /\ Agree(HeldTxs, watched) /\ BlocksGrow

-----------------------------------------------------------------------------
(* What comes and goes in a set of held transactions *)

\* The submission of t, which may displace some of the transactions held: t
\* was never seen before, so its id is new.
LEMMA Admit ==
  ASSUME NEW held \in SUBSET Txs, NEW told \in [TxIds -> Watch], Agree(held, told),
         NEW t \in Txs, told[t.id] = "unsent", NEW gone \in SUBSET held
  PROVE  Agree((held \ gone) \cup {t}, Told(told, t, gone))
<1> DEFINE now == (held \ gone) \cup {t}
           tells == [i \in TxIds |-> IF i = t.id THEN "accepted"
                                     ELSE IF \E g \in gone : g.id = i THEN "error" ELSE told[i]]
<1>1. t.id \in TxIds /\ \A u \in held : u.id \in TxIds
  BY DEF Txs
<1>2. \A u \in held : u.id # t.id
  BY <1>1 DEF Agree
<1>3. ASSUME NEW u \in now, NEW v \in now, u.id = v.id PROVE u = v
  BY <1>2, <1>3 DEF Agree
<1>4. ASSUME NEW id \in TxIds
      PROVE  tells[id] = "accepted" <=> \E u \in now : u.id = id
  <2>1. CASE id = t.id
    BY <2>1
  <2>2. CASE id # t.id /\ \E g \in gone : g.id = id
    <3>1. tells[id] = "error"
      BY <2>2
    <3>2. PICK g \in gone : g.id = id
      BY <2>2
    <3>3. ~ \E u \in now : u.id = id
      BY <2>2, <3>2 DEF Agree
    <3> QED
      BY <3>1, <3>3
  <2>3. CASE id # t.id /\ ~ \E g \in gone : g.id = id
    <3>1. tells[id] = told[id]
      BY <2>3
    <3>2. (\E u \in now : u.id = id) <=> \E u \in held : u.id = id
      BY <2>3
    <3> QED
      BY <3>1, <3>2 DEF Agree
  <2> QED
    BY <2>1, <2>2, <2>3
<1> QED
  BY <1>3, <1>4 DEF Agree, Told

\* One transaction leaves the pool for good.
LEMMA Evict ==
  ASSUME NEW held \in SUBSET Txs, NEW told \in [TxIds -> Watch], Agree(held, told),
         NEW t \in held
  PROVE  Agree(held \ {t}, [told EXCEPT ![t.id] = "error"])
<1>1. \A u \in held : u.id \in TxIds
  BY DEF Txs
<1> QED
  BY <1>1 DEF Agree

\* A rejection changes what is told of a transaction nobody holds.
LEMMA Refuse ==
  ASSUME NEW held \in SUBSET Txs, NEW told \in [TxIds -> Watch], Agree(held, told),
         NEW t \in Txs, told[t.id] = "unsent"
  PROVE  Agree(held, [told EXCEPT ![t.id] = "rejected"])
<1>1. t.id \in TxIds
  BY DEF Txs
<1> QED
  BY <1>1 DEF Agree

\* Elements of a sequence, by index.
LEMMA ToSetByIndex ==
  ASSUME NEW S, NEW s \in Seq(S)
  PROVE  /\ ToSet(s) = {s[i] : i \in 1..Len(s)}
         /\ ToSet(s) \subseteq S
         /\ \A i \in 1..Len(s) : s[i] \in ToSet(s)
BY DEF ToSet

\* Elements of two sequences one after the other.
LEMMA ToSetOfConcat ==
  ASSUME NEW S, NEW s \in Seq(S), NEW u \in Seq(S)
  PROVE  ToSet(s \o u) = ToSet(s) \cup ToSet(u)
<1>1. s \o u \in Seq(S) /\ Len(s \o u) = Len(s) + Len(u)
  OBVIOUS
<1>2. ASSUME NEW x \in ToSet(s \o u) PROVE x \in ToSet(s) \cup ToSet(u)
  <2>1. PICK i \in 1..Len(s \o u) : x = (s \o u)[i]
    BY <1>1 DEF ToSet
  <2>2. CASE i <= Len(s)
    <3>1. x = s[i] /\ i \in 1..Len(s)
      BY <1>1, <2>1, <2>2
    <3> QED
      BY <3>1, ToSetByIndex
  <2>3. CASE i > Len(s)
    <3>1. x = u[i - Len(s)] /\ i - Len(s) \in 1..Len(u)
      BY <1>1, <2>1, <2>3
    <3> QED
      BY <3>1, ToSetByIndex
  <2> QED
    BY <1>1, <2>1, <2>2, <2>3
<1>3. ASSUME NEW x \in ToSet(s) PROVE x \in ToSet(s \o u)
  <2>1. PICK i \in 1..Len(s) : x = s[i]
    BY ToSetByIndex
  <2>2. x = (s \o u)[i] /\ i \in 1..Len(s \o u)
    BY <1>1, <2>1
  <2> QED
    BY <1>1, <2>2, ToSetByIndex
<1>4. ASSUME NEW x \in ToSet(u) PROVE x \in ToSet(s \o u)
  <2>1. PICK i \in 1..Len(u) : x = u[i]
    BY ToSetByIndex
  <2>2. x = (s \o u)[Len(s) + i] /\ Len(s) + i \in 1..Len(s \o u)
    BY <1>1, <2>1
  <2> QED
    BY <1>1, <2>2, ToSetByIndex
<1> QED
  BY <1>2, <1>3, <1>4

LEMMA ToSetOfTxs ==
  \A s, u \in Seq(Txs) : ToSet(s \o u) = ToSet(s) \cup ToSet(u)
BY ToSetOfConcat

LEMMA HeldAreTxs ==
  ASSUME NodeTypeOK PROVE HeldTxs \in SUBSET Txs
BY ToSetByIndex DEF NodeTypeOK, HeldTxs

-----------------------------------------------------------------------------
(* Submission *)

\* What a submission changes besides the nonces: the account's transactions on
\* chain stay, and either t is refused, for a nonce already held or used, or t
\* is held from now on and those that make way for it either have its nonce or
\* share theirs with one that stays.
Accepts(t, gone) ==
  /\ HeldTxs' = (HeldTxs \ gone) \cup {t}
  /\ watched' = Told(watched, t, gone)
  /\ \A g \in gone : g.nonce = t.nonce \/ \E u \in HeldTxs \ gone : u.nonce = g.nonce

Refuses(t) ==
  /\ HeldTxs' = HeldTxs
  /\ watched' = [watched EXCEPT ![t.id] = "rejected"]
  /\ t.nonce < Len(chain) + Len(ready)

SubmitEffect(t) ==
  /\ UNCHANGED <<chain, blocks, finalized>>
  /\ watched[t.id] = "unsent"
  /\ Refuses(t) \/ \E gone \in SUBSET HeldTxs : Accepts(t, gone)

LEMMA RejectedStep ==
  ASSUME NodeInv, NEW t \in Txs, SubmitRejected(t)
  PROVE  SubmitEffect(t) /\ NodeTypeOK' /\ NonceOrder'
<1>1. t.id \in TxIds
  BY DEF Txs
<1>2. UNCHANGED <<ready, future, notifications, chain, blocks, finalized>>
  BY DEF SubmitRejected, pool, ledger
<1>3. /\ watched' = [watched EXCEPT ![t.id] = "rejected"] /\ watched[t.id] = "unsent"
      /\ t.nonce < Len(chain) + Len(ready)
  BY DEF SubmitRejected, NextNonce, AccountNonce
<1>4. NodeTypeOK'
  BY <1>1, <1>2, <1>3 DEF NodeInv, NodeTypeOK, AccountNonce, Watch
<1>5. HeldTxs' = HeldTxs
  BY <1>2 DEF HeldTxs
<1> QED
  BY <1>2, <1>3, <1>4, <1>5 DEF NodeInv, NonceOrder, SubmitEffect, Refuses

\* The newcomer takes the place of the transaction with its nonce, and only
\* that one is displaced: no other transaction held has this nonce.
LEMMA UsurpingStep ==
  ASSUME NodeInv, NEW t \in Txs, SubmitUsurping(t)
  PROVE  SubmitEffect(t) /\ NodeTypeOK' /\ NonceOrder'
<1> DEFINE k == t.nonce - AccountNonce + 1
<1>1. t.id \in TxIds /\ t.nonce \in Nat
  BY DEF Txs
<1>2. /\ ready \in Seq(Txs) /\ chain \in Seq(Txs) /\ future \subseteq Txs
      /\ notifications \in Nat /\ watched \in [TxIds -> Watch]
  BY DEF NodeInv, NodeTypeOK
<1>3. k \in 1..Len(ready) /\ t.nonce = Len(chain) + (k - 1)
  BY <1>1, <1>2 DEF SubmitUsurping, AccountNonce, NextNonce
<1>4. /\ UNCHANGED <<future, chain, blocks, finalized>>
      /\ ready' = [ready EXCEPT ![k] = t]
      /\ notifications' = notifications + 1
      /\ watched' = [watched EXCEPT ![t.id] = "accepted", ![ready[k].id] = "error"]
      /\ watched[t.id] = "unsent"
  BY DEF SubmitUsurping, ledger
<1>5. ready' \in Seq(Txs) /\ Len(ready') = Len(ready)
  BY <1>2, <1>3, <1>4
<1>6. ready[k] \in HeldTxs /\ ready[k] \in Txs
  BY <1>2, <1>3, ToSetByIndex DEF HeldTxs
<1>7. NodeTypeOK'
  <2>1. watched' \in [TxIds -> Watch]
    BY <1>1, <1>2, <1>4, <1>6 DEF Txs, Watch
  <2>2. notifications' \in Nat
    BY <1>2, <1>4
  <2>3. UNCHANGED <<future, chain, blocks, finalized>>
    BY <1>4
  <2> QED
    BY <1>5, <2>1, <2>2, <2>3 DEF NodeInv, NodeTypeOK, AccountNonce
<1>8. NonceOrder'
  BY <1>2, <1>3, <1>4, <1>5 DEF NodeInv, NonceOrder
<1>9. Accepts(t, {ready[k]})
  <2>1. HeldTxs' = (HeldTxs \ {ready[k]}) \cup {t}
    <3>1. ready[k] \notin ToSet(chain)
      <4>1. \A i \in 1..Len(chain) : chain[i].nonce # ready[k].nonce
        BY <1>2, <1>3 DEF NodeInv, NonceOrder
      <4>2. ToSet(chain) = {chain[i] : i \in 1..Len(chain)}
        BY <1>2, ToSetByIndex
      <4> QED
        BY <4>1, <4>2
    <3>2. ready[k] \notin future
      <4>1. /\ ready[k].nonce = Len(chain) + (k - 1) /\ k <= Len(ready)
            /\ Len(chain) \in Nat /\ Len(ready) \in Nat
        BY <1>2, <1>3 DEF NodeInv, NonceOrder
      <4>2. \A f \in future : f.nonce > Len(chain) + Len(ready)
        BY DEF NodeInv, NonceOrder
      <4> HIDE DEF k
      <4> QED
        BY <1>3, <4>1, <4>2
    <3>3. ToSet(ready') = (ToSet(ready) \ {ready[k]}) \cup {t}
      <4>1. ASSUME NEW i \in 1..Len(ready), i # k PROVE ready[i] # ready[k]
        <5>1. ready[i].nonce = Len(chain) + (i - 1) /\ ready[k].nonce = Len(chain) + (k - 1)
          BY <1>3 DEF NodeInv, NonceOrder
        <5>2. i \in Nat /\ k \in Nat /\ Len(chain) \in Nat
          BY <1>2, <1>3
        <5> HIDE DEF k
        <5> QED
          BY <4>1, <5>1, <5>2
      <4>2. ToSet(ready') = {ready'[i] : i \in 1..Len(ready)}
        BY <1>5, ToSetByIndex
      <4>3. ToSet(ready) = {ready[i] : i \in 1..Len(ready)}
        BY <1>2, ToSetByIndex
      <4>4. \A i \in 1..Len(ready) : ready'[i] = IF i = k THEN t ELSE ready[i]
        BY <1>2, <1>3, <1>4
      <4> QED
        BY <1>3, <4>1, <4>2, <4>3, <4>4
    <3> QED
      BY <1>4, <3>1, <3>2, <3>3 DEF HeldTxs
  <2>2. ready[k].id # t.id
    BY <1>1, <1>4, <1>6 DEF NodeInv, Agree
  <2>3. watched' = Told(watched, t, {ready[k]})
    BY <1>1, <1>2, <1>4, <1>6, <2>2 DEF Txs, Told
  <2>4. ready[k].nonce = t.nonce
    BY <1>3 DEF NodeInv, NonceOrder
  <2> QED
    BY <2>1, <2>3, <2>4 DEF Accepts
<1> HIDE DEF k
<1>10. {ready[k]} \in SUBSET HeldTxs
  BY <1>6
<1> QED
  BY <1>4, <1>7, <1>8, <1>9, <1>10 DEF SubmitEffect

\* What is promoted continues the queue, and no parked transaction left behind
\* has the nonce after it.
LEMMA PromotionsContinue ==
  ASSUME NEW n \in Nat, future \subseteq Txs, NEW promoted \in Promotions(n)
  PROVE  /\ promoted \in Seq(future) /\ Len(promoted) \in Nat
         /\ \A i \in 1..Len(promoted) : promoted[i].nonce = n + i
         /\ \A f \in future : f.nonce # n + Len(promoted) + 1
<1>1. PICK k \in Run(n) :
        promoted \in {s \in [1..k -> future] : \A i \in 1..k : s[i].nonce = n + i}
  BY DEF Promotions
<1>2. k \in Nat /\ n + k + 1 \notin {t.nonce : t \in future}
  BY <1>1 DEF Run
<1>3. promoted \in [1..k -> future] /\ \A i \in 1..k : promoted[i].nonce = n + i
  BY <1>1
<1>4. promoted \in Seq(future) /\ Len(promoted) = k
  BY <1>2, <1>3
<1> QED
  BY <1>2, <1>3, <1>4

LEMMA ReadyStep ==
  ASSUME NodeInv, NEW t \in Txs, SubmitReady(t)
  PROVE  SubmitEffect(t) /\ NodeTypeOK' /\ NonceOrder'
<1>1. t.id \in TxIds /\ t.nonce \in Nat
  BY DEF Txs
<1>2. /\ ready \in Seq(Txs) /\ chain \in Seq(Txs) /\ future \subseteq Txs
      /\ notifications \in Nat /\ watched \in [TxIds -> Watch]
  BY DEF NodeInv, NodeTypeOK
<1>3. /\ watched[t.id] = "unsent"
      /\ t.nonce = Len(chain) + Len(ready)
      /\ UNCHANGED <<chain, blocks, finalized>>
      /\ notifications' = notifications + 1
  BY DEF SubmitReady, AccountNonce, NextNonce, ledger
<1>4. PICK promoted \in Promotions(t.nonce) :
        LET passed == {f \in future : f.nonce <= t.nonce + Len(promoted)} IN
          /\ ready' = ready \o <<t>> \o promoted
          /\ future' = future \ passed
          /\ watched' = [i \in TxIds |->
                           IF i = t.id THEN "accepted"
                           ELSE IF \E f \in passed \ ToSet(promoted) : f.id = i THEN "error"
                           ELSE watched[i]]
  BY DEF SubmitReady
<1> DEFINE passed == {f \in future : f.nonce <= t.nonce + Len(promoted)}
           gone   == passed \ ToSet(promoted)
<1>5. /\ promoted \in Seq(future) /\ promoted \in Seq(Txs) /\ Len(promoted) \in Nat
      /\ \A i \in 1..Len(promoted) : promoted[i].nonce = t.nonce + i
      /\ \A f \in future : f.nonce # t.nonce + Len(promoted) + 1
  BY <1>1, <1>2, PromotionsContinue
<1>6. /\ ready' \in Seq(Txs)
      /\ Len(ready') = Len(ready) + 1 + Len(promoted)
      /\ \A i \in 1..Len(ready) : ready'[i] = ready[i]
      /\ ready'[Len(ready) + 1] = t
      /\ \A i \in 1..Len(promoted) : ready'[Len(ready) + 1 + i] = promoted[i]
  BY <1>2, <1>4, <1>5
<1>7. NodeTypeOK'
  <2>1. watched' \in [TxIds -> Watch]
    BY <1>2, <1>4 DEF Watch
  <2> QED
    BY <1>2, <1>3, <1>4, <1>6, <2>1 DEF NodeInv, NodeTypeOK, AccountNonce
<1>8. NonceOrder'
  <2>1. ASSUME NEW i \in 1..Len(ready') PROVE ready'[i].nonce = Len(chain) + (i - 1)
    <3>1. CASE i <= Len(ready)
      BY <1>2, <1>6, <2>1, <3>1 DEF NodeInv, NonceOrder
    <3>2. CASE i = Len(ready) + 1
      BY <1>2, <1>3, <1>6, <3>2
    <3>3. CASE i > Len(ready) + 1
      <4>1. PICK j \in 1..Len(promoted) : i = Len(ready) + 1 + j
        <5>1. /\ i - (Len(ready) + 1) \in 1..Len(promoted)
              /\ i = Len(ready) + 1 + (i - (Len(ready) + 1))
          BY <1>2, <1>5, <1>6, <2>1, <3>3
        <5> QED
          BY <5>1
      <4>2. ready'[i] = promoted[j] /\ promoted[j].nonce = t.nonce + j
        BY <1>5, <1>6, <4>1
      <4>3. Len(chain) \in Nat /\ Len(ready) \in Nat /\ j \in Nat
        BY <1>2
      <4> QED
        BY <1>3, <4>1, <4>2, <4>3
    <3> QED
      BY <1>2, <2>1, <3>1, <3>2, <3>3
  <2>2. ASSUME NEW f \in future' PROVE f.nonce > Len(chain) + Len(ready')
    <3>1. f \in future /\ f.nonce \in Nat /\ ~(f.nonce <= t.nonce + Len(promoted))
      BY <1>2, <1>4 DEF Txs
    <3>2. f.nonce # t.nonce + Len(promoted) + 1
      BY <1>5, <3>1
    <3>3. f.nonce > t.nonce + Len(promoted) + 1
      BY <1>1, <1>5, <3>1, <3>2
    <3>4. Len(ready') = Len(ready) + 1 + Len(promoted) /\ Len(chain) \in Nat /\ Len(ready) \in Nat
      BY <1>2, <1>6
    <3> QED
      BY <1>3, <1>5, <3>1, <3>3, <3>4
  <2> QED
    BY <1>3, <2>1, <2>2 DEF NodeInv, NonceOrder
<1>9. Accepts(t, gone) /\ gone \in SUBSET HeldTxs
  <2>1. gone \subseteq future
    OBVIOUS
  <2>2. \A f \in gone : f.nonce > Len(chain) + Len(ready) /\ f.nonce \in Nat
    BY <1>2, <2>1 DEF NodeInv, NonceOrder, Txs
  <2>3. ToSet(ready') = ToSet(ready) \cup {t} \cup ToSet(promoted)
    <3>1. <<t>> \in Seq(Txs) /\ ready \o <<t>> \in Seq(Txs)
      BY <1>2
    <3>2. ToSet(<<t>>) = {t}
      BY DEF ToSet
    <3>3. ToSet(ready \o <<t>>) = ToSet(ready) \cup {t}
      <4>1. ToSet(ready \o <<t>>) = ToSet(ready) \cup ToSet(<<t>>)
        BY <1>2, <3>1, ToSetOfTxs, Zenon
      <4> QED
        BY <3>2, <4>1
    <3>4. ToSet((ready \o <<t>>) \o promoted) = ToSet(ready \o <<t>>) \cup ToSet(promoted)
      BY <1>5, <3>1, ToSetOfTxs, Zenon
    <3> QED
      BY <1>4, <3>3, <3>4
  <2>4. ToSet(promoted) \subseteq passed
    <3>1. \A i \in 1..Len(promoted) : promoted[i] \in passed
      BY <1>1, <1>5
    <3> QED
      BY <1>5, <3>1, ToSetByIndex
  <2>5. gone \cap (ToSet(chain) \cup ToSet(ready)) = {}
    <3>1. \A i \in 1..Len(chain) : ~(chain[i].nonce > Len(chain) + Len(ready))
      BY <1>2 DEF NodeInv, NonceOrder
    <3>2. \A i \in 1..Len(ready) : ~(ready[i].nonce > Len(chain) + Len(ready))
      BY <1>2 DEF NodeInv, NonceOrder
    <3>3. /\ ToSet(chain) = {chain[i] : i \in 1..Len(chain)}
          /\ ToSet(ready) = {ready[i] : i \in 1..Len(ready)}
      BY <1>2, ToSetByIndex
    <3> HIDE DEF gone
    <3> QED
      BY <2>2, <3>1, <3>2, <3>3
  <2>6. HeldTxs' = (HeldTxs \ gone) \cup {t}
    BY <1>3, <1>4, <2>3, <2>4, <2>5 DEF HeldTxs
  <2>7. watched' = Told(watched, t, gone)
    BY <1>4 DEF Told
  <2>8. ASSUME NEW g \in gone PROVE \E u \in HeldTxs \ gone : u.nonce = g.nonce
    <3>1. g.nonce \in Nat /\ g.nonce > t.nonce /\ g.nonce <= t.nonce + Len(promoted)
      BY <1>3, <2>2
    <3>2. g.nonce - t.nonce \in 1..Len(promoted) /\ t.nonce + (g.nonce - t.nonce) = g.nonce
      BY <1>1, <1>5, <3>1
    <3>3. promoted[g.nonce - t.nonce].nonce = g.nonce
      BY <1>5, <3>2
    <3>4. promoted[g.nonce - t.nonce] \in ToSet(promoted) /\ promoted[g.nonce - t.nonce] \in future
      BY <1>5, <3>2 DEF ToSet
    <3> QED
      BY <3>3, <3>4 DEF HeldTxs
  <2>9. gone \in SUBSET HeldTxs
    BY <2>1 DEF HeldTxs
  <2> HIDE DEF gone
  <2> QED
    BY <2>6, <2>7, <2>8, <2>9 DEF Accepts
<1> HIDE DEF gone
<1> QED
  BY <1>3, <1>7, <1>8, <1>9 DEF SubmitEffect

LEMMA FutureStep ==
  ASSUME NodeInv, NEW t \in Txs, SubmitFuture(t)
  PROVE  SubmitEffect(t) /\ NodeTypeOK' /\ NonceOrder'
<1>1. t.id \in TxIds /\ t.nonce \in Nat
  BY DEF Txs
<1>2. /\ watched[t.id] = "unsent"
      /\ t.nonce > Len(chain) + Len(ready)
      /\ future' = future \cup {t}
      /\ watched' = [watched EXCEPT ![t.id] = "accepted"]
      /\ UNCHANGED <<ready, notifications, chain, blocks, finalized>>
  BY DEF SubmitFuture, AccountNonce, NextNonce, ledger
<1>3. NodeTypeOK'
  BY <1>1, <1>2 DEF NodeInv, NodeTypeOK, AccountNonce, Watch
<1>4. NonceOrder'
  BY <1>2 DEF NodeInv, NonceOrder
<1>5. Accepts(t, {})
  <2>1. HeldTxs' = (HeldTxs \ {}) \cup {t}
    BY <1>2 DEF HeldTxs
  <2>2. watched' = Told(watched, t, {})
    BY <1>1, <1>2 DEF NodeInv, NodeTypeOK, Told
  <2> QED
    BY <2>1, <2>2 DEF Accepts
<1> QED
  BY <1>2, <1>3, <1>4, <1>5 DEF SubmitEffect

LEMMA SubmitHasEffect ==
  ASSUME NodeInv, NEW t \in Txs, Submit(t)
  PROVE  SubmitEffect(t) /\ NodeTypeOK' /\ NonceOrder'
BY RejectedStep, UsurpingStep, ReadyStep, FutureStep DEF Submit

\* Any submission of a transaction with a natural nonce keeps the node's
\* invariant, whoever signs it.
LEMMA SubmitStep ==
  ASSUME NodeInv, NEW t \in Txs, Submit(t)
  PROVE  NodeInv'
<1>1. SubmitEffect(t) /\ NodeTypeOK' /\ NonceOrder'
  BY SubmitHasEffect
<1>2. HeldTxs \in SUBSET Txs /\ watched \in [TxIds -> Watch] /\ Agree(HeldTxs, watched)
  BY HeldAreTxs DEF NodeInv, NodeTypeOK
<1>3. watched[t.id] = "unsent"
  BY <1>1 DEF SubmitEffect
<1>4. Agree(HeldTxs, watched)'
  <2>1. CASE Refuses(t)
    BY <1>2, <1>3, <2>1, Refuse DEF Refuses, Agree
  <2>2. ASSUME NEW gone \in SUBSET HeldTxs, Accepts(t, gone)
        PROVE  Agree(HeldTxs, watched)'
    <3>1. Agree((HeldTxs \ gone) \cup {t}, Told(watched, t, gone))
      BY <1>2, <1>3, Admit
    <3> QED
      BY <2>2, <3>1 DEF Accepts, Agree
  <2> QED
    BY <1>1, <2>1, <2>2 DEF SubmitEffect
<1>5. BlocksGrow'
  BY <1>1 DEF SubmitEffect, NodeInv, BlocksGrow
<1> QED
  BY <1>1, <1>4, <1>5 DEF NodeInv

\* A submission concerns its own transaction: what others have been told
\* changes only if they were accepted before.
LEMMA SubmitTells ==
  ASSUME NodeInv, NEW t \in Txs, Submit(t)
  PROVE  /\ UNCHANGED <<chain, blocks, finalized>>
         /\ watched[t.id] = "unsent" /\ watched'[t.id] \in {"accepted", "rejected"}
         /\ \A id \in TxIds : id # t.id => (watched'[id] = "unsent" <=> watched[id] = "unsent")
<1>1. SubmitEffect(t) /\ t.id \in TxIds
  BY SubmitHasEffect DEF Txs
<1>2. watched \in [TxIds -> Watch] /\ Agree(HeldTxs, watched)
  BY DEF NodeInv, NodeTypeOK
<1>3. CASE Refuses(t)
  BY <1>1, <1>2, <1>3 DEF SubmitEffect, Refuses
<1>4. ASSUME NEW gone \in SUBSET HeldTxs, Accepts(t, gone)
      PROVE  /\ watched'[t.id] = "accepted"
             /\ \A id \in TxIds : id # t.id => (watched'[id] = "unsent" <=> watched[id] = "unsent")
  <2>1. watched' = Told(watched, t, gone)
    BY <1>4 DEF Accepts
  <2>2. \A g \in gone : g.id \in TxIds => watched[g.id] = "accepted"
    BY <1>2 DEF Agree
  <2> QED
    BY <1>1, <2>1, <2>2 DEF Told
<1> QED
  BY <1>1, <1>3, <1>4 DEF SubmitEffect

\* Every nonce up to the next one is held.
LEMMA QueueIsHeld ==
  ASSUME NodeInv, NEW n \in Nat, n < Len(chain) + Len(ready)
  PROVE  \E u \in HeldTxs : u.nonce = n
<1>1. Len(chain) \in Nat /\ Len(ready) \in Nat
  BY DEF NodeInv, NodeTypeOK
<1>2. CASE n < Len(chain)
  <2>1. n + 1 \in 1..Len(chain) /\ (n + 1) - 1 = n
    BY <1>1, <1>2
  <2>2. chain[n + 1] \in HeldTxs
    BY <2>1, ToSetByIndex DEF HeldTxs, NodeInv, NodeTypeOK
  <2>3. chain[n + 1].nonce = n
    BY <2>1 DEF NodeInv, NonceOrder
  <2> QED
    BY <2>2, <2>3
<1>3. CASE ~(n < Len(chain))
  <2> DEFINE i == n - Len(chain) + 1
  <2>1. i \in 1..Len(ready) /\ Len(chain) + (i - 1) = n
    BY <1>1, <1>3
  <2> HIDE DEF i
  <2>2. ready[i] \in HeldTxs
    BY <2>1, ToSetByIndex DEF HeldTxs, NodeInv, NodeTypeOK
  <2>3. ready[i].nonce = n
    BY <2>1 DEF NodeInv, NonceOrder
  <2> QED
    BY <2>2, <2>3
<1> QED
  BY <1>2, <1>3

\* Where no two transactions held share a nonce, one that brings a nonce of
\* its own is accepted and displaces nothing.
LEMMA OwnNonceIsAccepted ==
  ASSUME NodeInv, NEW t \in Txs, Submit(t),
         \A u \in HeldTxs : u.nonce # t.nonce,
         \A u, v \in HeldTxs : u.nonce = v.nonce => u = v
  PROVE  /\ UNCHANGED <<chain, blocks, finalized>>
         /\ watched[t.id] = "unsent"
         /\ HeldTxs' = HeldTxs \cup {t}
         /\ watched' = [watched EXCEPT ![t.id] = "accepted"]
<1>1. SubmitEffect(t) /\ t.nonce \in Nat /\ t.id \in TxIds
  BY SubmitHasEffect DEF Txs
<1>2. ~ Refuses(t)
  BY <1>1, QueueIsHeld DEF Refuses
<1>3. PICK gone \in SUBSET HeldTxs : Accepts(t, gone)
  BY <1>1, <1>2 DEF SubmitEffect
<1>4. gone = {}
  BY <1>3 DEF Accepts
<1>5. HeldTxs' = HeldTxs \cup {t} /\ watched' = Told(watched, t, {})
  BY <1>3, <1>4 DEF Accepts
<1>6. Told(watched, t, {}) = [watched EXCEPT ![t.id] = "accepted"]
  BY <1>1 DEF Told, NodeInv, NodeTypeOK
<1> QED
  BY <1>1, <1>5, <1>6 DEF SubmitEffect

-----------------------------------------------------------------------------
(* Expiry, sealing and finality *)

LEMMA ExpireStep ==
  ASSUME NodeInv, NEW t, Expire(t)
  PROVE  NodeInv'
<1>1. t \in future /\ t \in Txs /\ t.id \in TxIds
  BY DEF Expire, NodeInv, NodeTypeOK, Txs
<1>2. /\ future' = future \ {t}
      /\ watched' = [watched EXCEPT ![t.id] = "error"]
      /\ UNCHANGED <<ready, notifications, chain, blocks, finalized>>
  BY DEF Expire, ledger
<1>3. NodeTypeOK'
  BY <1>1, <1>2 DEF NodeInv, NodeTypeOK, AccountNonce, Watch
<1>4. NonceOrder'
  BY <1>2 DEF NodeInv, NonceOrder
<1>5. Agree(HeldTxs, watched)'
  <2>1. t \notin ToSet(chain) /\ t \notin ToSet(ready)
    <3>1. \A i \in 1..Len(chain) : chain[i].nonce # t.nonce
      BY <1>1 DEF NodeInv, NodeTypeOK, NonceOrder, Txs
    <3>2. \A i \in 1..Len(ready) : ready[i].nonce # t.nonce
      BY <1>1 DEF NodeInv, NodeTypeOK, NonceOrder, Txs
    <3>3. /\ ToSet(chain) = {chain[i] : i \in 1..Len(chain)}
          /\ ToSet(ready) = {ready[i] : i \in 1..Len(ready)}
      BY ToSetByIndex DEF NodeInv, NodeTypeOK
    <3> QED
      BY <3>1, <3>2, <3>3
  <2>2. HeldTxs' = HeldTxs \ {t}
    BY <1>2, <2>1 DEF HeldTxs
  <2>3. t \in HeldTxs /\ HeldTxs \in SUBSET Txs
    BY <1>1, HeldAreTxs DEF HeldTxs, NodeInv
  <2>4. Agree(HeldTxs \ {t}, [watched EXCEPT ![t.id] = "error"])
    BY <2>3, Evict DEF NodeInv, NodeTypeOK
  <2> QED
    BY <1>2, <2>2, <2>4 DEF Agree
<1> QED
  BY <1>2, <1>3, <1>4, <1>5 DEF NodeInv, BlocksGrow

\* What a block does: it takes some first transactions of the queue, and if there
\* are any it is one more block on top.
LEMMA SealTakes ==
  ASSUME NodeInv, Seal
  PROVE  \E k \in 0..Len(ready) :
           /\ chain' = chain \o SubSeq(ready, 1, k)
           /\ ready' = SubSeq(ready, k + 1, Len(ready))
           /\ blocks' = blocks \/ blocks' = Append(blocks, Len(chain) + k)
           /\ notifications > 0 /\ notifications' = notifications - 1
           /\ UNCHANGED <<future, finalized, watched>>
<1>1. PICK k \in BlockLengths : SealFirst(k)
  BY DEF Seal
<1>2. k \in 0..Len(ready)
  BY DEF BlockLengths
<1> QED
  BY <1>1, <1>2 DEF SealFirst, AccountNonce

\* A queue cut in two has the elements of both parts.
LEMMA ToSetOfCut ==
  ASSUME NEW S, NEW s \in Seq(S), NEW k \in 0..Len(s)
  PROVE  /\ SubSeq(s, 1, k) \in Seq(S) /\ SubSeq(s, k + 1, Len(s)) \in Seq(S)
         /\ ToSet(s) = ToSet(SubSeq(s, 1, k)) \cup ToSet(SubSeq(s, k + 1, Len(s)))
<1> DEFINE a == SubSeq(s, 1, k)
           b == SubSeq(s, k + 1, Len(s))
<1>1. k \in Nat /\ Len(s) \in Nat /\ k <= Len(s)
  OBVIOUS
<1>2. a \in Seq(S) /\ Len(a) = k /\ \A i \in 1..k : a[i] = s[i]
  BY <1>1
<1>3. /\ b \in Seq(S) /\ Len(b) = Len(s) - k
      /\ \A i \in 1..(Len(s) - k) : b[i] = s[k + i]
  BY <1>1
<1> HIDE DEF a, b
<1>4. ASSUME NEW x \in ToSet(s) PROVE x \in ToSet(a) \cup ToSet(b)
  <2>1. PICK i \in 1..Len(s) : x = s[i]
    BY ToSetByIndex
  <2>2. CASE i <= k
    <3>1. i \in 1..Len(a) /\ x = a[i]
      BY <1>1, <1>2, <2>1, <2>2
    <3> QED
      BY <1>2, <3>1, ToSetByIndex
  <2>3. CASE i > k
    <3>1. i - k \in 1..Len(b) /\ k + (i - k) = i
      BY <1>1, <1>3, <2>1, <2>3
    <3>2. x = b[i - k]
      BY <1>3, <2>1, <3>1
    <3> QED
      BY <1>3, <3>1, <3>2, ToSetByIndex
  <2> QED
    BY <1>1, <2>1, <2>2, <2>3
<1>5. ASSUME NEW x \in ToSet(a) PROVE x \in ToSet(s)
  <2>1. PICK i \in 1..k : x = a[i]
    BY <1>2, ToSetByIndex
  <2>2. i \in 1..Len(s) /\ x = s[i]
    BY <1>1, <1>2, <2>1
  <2> QED
    BY <2>2, ToSetByIndex
<1>6. ASSUME NEW x \in ToSet(b) PROVE x \in ToSet(s)
  <2>1. PICK i \in 1..(Len(s) - k) : x = b[i]
    BY <1>3, ToSetByIndex
  <2>2. k + i \in 1..Len(s) /\ x = s[k + i]
    BY <1>1, <1>3, <2>1
  <2> QED
    BY <2>2, ToSetByIndex
<1> QED
  BY <1>2, <1>3, <1>4, <1>5, <1>6 DEF a, b

\* The elements of a sequence continued by another, and of one with an element more.
LEMMA ConcatByIndex ==
  ASSUME NEW S, NEW s \in Seq(S), NEW u \in Seq(S)
  PROVE  /\ s \o u \in Seq(S) /\ Len(s \o u) = Len(s) + Len(u)
         /\ \A i \in 1..Len(s) : (s \o u)[i] = s[i]
         /\ \A i \in 1..Len(u) : (s \o u)[Len(s) + i] = u[i]
OBVIOUS

LEMMA AppendByIndex ==
  ASSUME NEW S, NEW s \in Seq(S), NEW e \in S
  PROVE  /\ Append(s, e) \in Seq(S) /\ Len(Append(s, e)) = Len(s) + 1
         /\ \A i \in 1..Len(s) : Append(s, e)[i] = s[i]
OBVIOUS

LEMMA SealStep ==
  ASSUME NodeInv, Seal
  PROVE  NodeInv' /\ HeldTxs' = HeldTxs
<1>1. /\ ready \in Seq(Txs) /\ chain \in Seq(Txs) /\ blocks \in Seq(0..Len(chain))
      /\ notifications \in Nat
  BY DEF NodeInv, NodeTypeOK, AccountNonce
<1>2. PICK k \in 0..Len(ready) :
        /\ chain' = chain \o SubSeq(ready, 1, k)
        /\ ready' = SubSeq(ready, k + 1, Len(ready))
        /\ blocks' = blocks \/ blocks' = Append(blocks, Len(chain) + k)
        /\ notifications > 0 /\ notifications' = notifications - 1
        /\ UNCHANGED <<future, finalized, watched>>
  BY SealTakes
<1> DEFINE taken == SubSeq(ready, 1, k)
<1>0. /\ Len(chain) \in Nat /\ Len(ready) \in Nat /\ k \in Nat /\ k <= Len(ready)
      /\ taken \in Seq(Txs) /\ Len(taken) = k /\ \A i \in 1..k : taken[i] = ready[i]
  BY <1>1
<1>9. /\ ready' \in Seq(Txs) /\ Len(ready') = Len(ready) - k
      /\ \A i \in 1..Len(ready') : ready'[i] = ready[k + i] /\ k + i \in 1..Len(ready)
  BY <1>0, <1>1, <1>2
<1> HIDE DEF taken
<1>3. /\ chain' \in Seq(Txs) /\ Len(chain') = Len(chain) + k
      /\ \A i \in 1..Len(chain) : chain'[i] = chain[i]
      /\ \A i \in 1..k : chain'[Len(chain) + i] = ready[i]
  <2>1. chain' = chain \o taken
    BY <1>2 DEF taken
  <2>2. /\ chain' \in Seq(Txs) /\ Len(chain') = Len(chain) + k
        /\ \A i \in 1..Len(chain) : chain'[i] = chain[i]
        /\ \A i \in 1..k : chain'[Len(chain) + i] = taken[i]
    <3>1. \A a, b \in Seq(Txs) :
            /\ a \o b \in Seq(Txs) /\ Len(a \o b) = Len(a) + Len(b)
            /\ \A i \in 1..Len(a) : (a \o b)[i] = a[i]
            /\ \A i \in 1..Len(b) : (a \o b)[Len(a) + i] = b[i]
      BY ConcatByIndex
    <3> QED
      BY <1>0, <1>1, <2>1, <3>1, Zenon
  <2> QED
    BY <1>0, <2>2
<1>4. /\ blocks' \in Seq(0..Len(chain')) /\ Len(blocks') \in Nat /\ Len(blocks) <= Len(blocks')
      /\ \A i \in 1..Len(blocks) : blocks'[i] = blocks[i]
      /\ \A i \in 1..Len(blocks') : i > Len(blocks) => blocks'[i] = Len(chain')
  <2>1. blocks \in Seq(0..Len(chain'))
    <3>1. \A i \in 1..Len(blocks) : blocks[i] \in 0..Len(chain')
      BY <1>0, <1>1, <1>3
    <3> QED
      BY <1>1, <3>1
  <2>2. CASE blocks' = blocks
    BY <1>1, <2>1, <2>2
  <2>3. CASE blocks' = Append(blocks, Len(chain) + k)
    <3>1. blocks' = Append(blocks, Len(chain')) /\ Len(chain') \in 0..Len(chain')
      BY <1>0, <1>3, <2>3
    <3> QED
      BY <2>1, <3>1
  <2> QED
    BY <1>2, <2>2, <2>3
<1>5. NodeTypeOK'
  <2>1. notifications' \in Nat
    BY <1>1, <1>2
  <2>3. finalized' \in 0..Len(blocks')
    BY <1>1, <1>2, <1>4 DEF NodeInv, NodeTypeOK
  <2>4. future' \subseteq Txs /\ watched' \in [TxIds -> Watch]
    BY <1>2 DEF NodeInv, NodeTypeOK
  <2> QED
    BY <1>9, <1>3, <1>4, <2>1, <2>3, <2>4 DEF NodeTypeOK, AccountNonce
<1>6. NonceOrder'
  <2>2. ASSUME NEW i \in 1..Len(chain') PROVE chain'[i].nonce = i - 1
    <3>1. CASE i <= Len(chain)
      <4>1. i \in 1..Len(chain)
        BY <1>0, <1>3, <3>1
      <4> QED
        BY <1>3, <4>1 DEF NodeInv, NonceOrder
    <3>2. CASE i > Len(chain)
      <4>1. /\ i - Len(chain) \in 1..k /\ i - Len(chain) \in 1..Len(ready)
            /\ i = Len(chain) + (i - Len(chain))
        BY <1>0, <1>3, <3>2
      <4>2. chain'[i] = ready[i - Len(chain)]
        BY <1>3, <4>1
      <4>3. ready[i - Len(chain)].nonce = Len(chain) + ((i - Len(chain)) - 1)
        BY <4>1 DEF NodeInv, NonceOrder
      <4> QED
        BY <1>0, <4>2, <4>3
    <3> QED
      BY <1>0, <3>1, <3>2
  <2>3. ASSUME NEW f \in future' PROVE f.nonce > Len(chain') + Len(ready')
    <3>1. f \in future /\ f.nonce > Len(chain) + Len(ready)
      BY <1>2 DEF NodeInv, NonceOrder
    <3>2. Len(chain') + Len(ready') = Len(chain) + Len(ready)
      BY <1>0, <1>9, <1>3
    <3> QED
      BY <3>1, <3>2
  <2>4. ASSUME NEW i \in 1..Len(ready') PROVE ready'[i].nonce = Len(chain') + (i - 1)
    <3>1. ready'[i] = ready[k + i] /\ k + i \in 1..Len(ready)
      BY <1>9
    <3>2. ready[k + i].nonce = Len(chain) + ((k + i) - 1)
      BY <3>1 DEF NodeInv, NonceOrder
    <3> QED
      BY <1>0, <1>3, <3>1, <3>2
  <2> QED
    BY <2>2, <2>3, <2>4 DEF NonceOrder
<1>7. HeldTxs' = HeldTxs
  <2>1. ToSet(chain') = ToSet(chain) \cup ToSet(taken)
    <3>1. ToSet(chain \o taken) = ToSet(chain) \cup ToSet(taken)
      BY <1>0, <1>1, ToSetOfTxs, Zenon
    <3> QED
      BY <1>2, <3>1 DEF taken
  <2>2. ToSet(ready) = ToSet(taken) \cup ToSet(ready')
    BY <1>1, <1>2, ToSetOfCut DEF taken
  <2> QED
    BY <1>2, <2>1, <2>2 DEF HeldTxs
<1>8. BlocksGrow'
  <2>1. SUFFICES ASSUME NEW i \in 1..Len(blocks'), NEW j \in 1..Len(blocks'), i <= j
                 PROVE  blocks'[i] <= blocks'[j]
    BY DEF BlocksGrow
  <2>2. blocks'[i] \in 0..Len(chain')
    BY <1>4
  <2>3. CASE j > Len(blocks)
    BY <1>4, <2>2, <2>3
  <2>4. CASE ~(j > Len(blocks))
    <3>1. i \in 1..Len(blocks) /\ j \in 1..Len(blocks)
      BY <1>1, <1>4, <2>1, <2>4
    <3> QED
      BY <1>4, <2>1, <3>1 DEF NodeInv, BlocksGrow
  <2> QED
    BY <2>3, <2>4
<1> QED
  BY <1>2, <1>5, <1>6, <1>7, <1>8 DEF NodeInv, Agree

LEMMA FinalizeStep ==
  ASSUME NodeInv, FinalizeSome
  PROVE  NodeInv'
<1>1. PICK n \in 1..Len(blocks) : Finalize(n)
  BY DEF FinalizeSome
<1>2. /\ n \in (finalized + 1)..Len(blocks) /\ finalized' = n
      /\ UNCHANGED <<ready, future, notifications, chain, blocks, watched>>
  BY <1>1 DEF Finalize, pool
<1>3. finalized' \in 0..Len(blocks')
  BY <1>1, <1>2 DEF NodeInv, NodeTypeOK
<1>4. NodeTypeOK'
  BY <1>2, <1>3 DEF NodeInv, NodeTypeOK, AccountNonce
<1> QED
  BY <1>2, <1>4 DEF NodeInv, NonceOrder, Agree, HeldTxs, BlocksGrow

\* What is in a block is held, hence was accepted; what is final is in a block.
LEMMA IncludedWasAccepted ==
  ASSUME NodeInv, NEW id \in TxIds
  PROVE  /\ IsIncluded(id) => watched[id] = "accepted"
         /\ IsFinalized(id) => IsIncluded(id)
<1>1. ASSUME NEW i \in 1..Len(chain), chain[i].id = id PROVE watched[id] = "accepted"
  <2>1. chain[i] \in HeldTxs
    BY ToSetByIndex DEF HeldTxs, NodeInv, NodeTypeOK
  <2> QED
    BY <1>1, <2>1 DEF NodeInv, Agree
<1>2. NonceAt(finalized) \in 0..Len(chain)
  BY DEF NodeInv, NodeTypeOK, NonceAt, AccountNonce
<1>3. 1..NonceAt(finalized) \subseteq 1..Len(chain)
  BY <1>2
<1> QED
  BY <1>1, <1>3 DEF IsIncluded, IsFinalized, AccountNonce

\* The chain only grows and finality only advances, so what is in a block stays
\* there and what is final stays final.
LEMMA FinalityGrows ==
  ASSUME NodeInv,
         UNCHANGED <<chain, blocks, finalized>> \/ Seal \/ FinalizeSome
  PROVE  \A id : IsFinalized(id) => IsFinalized(id)'
<1>0. /\ Len(chain) \in Nat /\ Len(blocks) \in Nat /\ finalized \in 0..Len(blocks)
      /\ chain \in Seq(Txs) /\ blocks \in Seq(0..Len(chain)) /\ ready \in Seq(Txs)
  BY DEF NodeInv, NodeTypeOK, AccountNonce
<1>1. CASE UNCHANGED <<chain, blocks, finalized>>
  BY <1>1 DEF IsFinalized, NonceAt
<1>2. CASE Seal
  <2>0. PICK k \in 0..Len(ready) :
          /\ chain' = chain \o SubSeq(ready, 1, k)
          /\ blocks' = blocks \/ blocks' = Append(blocks, Len(chain) + k)
          /\ finalized' = finalized
    BY <1>2, SealTakes
  <2>1. chain' = chain \o SubSeq(ready, 1, k) /\ SubSeq(ready, 1, k) \in Seq(Txs) /\ finalized' = finalized
    BY <1>0, <2>0
  <2>2. blocks' = blocks \/ blocks' = Append(blocks, Len(chain) + k)
    BY <2>0
  <2>3. NonceAt(finalized)' = NonceAt(finalized) /\ NonceAt(finalized) \in 0..Len(chain)
    <3>1. CASE finalized = 0
      BY <1>0, <2>1, <3>1 DEF NonceAt
    <3>2. CASE finalized # 0
      <4>1. finalized \in 1..Len(blocks)
        BY <1>0, <3>2
      <4>2. blocks[finalized] \in 0..Len(chain)
        BY <1>0, <4>1
      <4>3. blocks \in Seq(Nat) /\ Len(chain) + k \in Nat
        <5>1. \A i \in 1..Len(blocks) : blocks[i] \in Nat
          BY <1>0
        <5> QED
          BY <1>0, <5>1
      <4>4. blocks'[finalized] = blocks[finalized]
        BY <2>2, <4>1, <4>3, AppendByIndex
      <4> QED
        BY <2>1, <3>2, <4>2, <4>4 DEF NonceAt
    <3> QED
      BY <3>1, <3>2
  <2>4. \A i \in 1..Len(chain) : chain'[i] = chain[i]
    BY <1>0, <2>1
  <2>5. \A i \in 1..NonceAt(finalized) : i \in 1..Len(chain)
    BY <1>0, <2>3
  <2> QED
    BY <2>3, <2>4, <2>5 DEF IsFinalized
<1>3. CASE FinalizeSome
  <2>1. PICK n \in (finalized + 1)..Len(blocks) : finalized' = n
    BY <1>3 DEF FinalizeSome, Finalize
  <2>2. UNCHANGED <<chain, blocks>>
    BY <1>3 DEF FinalizeSome, Finalize
  <2>3. n \in 1..Len(blocks) /\ finalized <= n
    BY <1>0, <2>1
  <2>4. blocks[n] \in 0..Len(chain) /\ NonceAt(finalized) \in 0..Len(chain)
    BY <1>0, <2>3 DEF NonceAt
  <2>5. NonceAt(finalized) <= blocks[n]
    <3>1. CASE finalized = 0
      BY <2>4, <3>1 DEF NonceAt
    <3>2. CASE finalized # 0
      <4>1. finalized \in 1..Len(blocks)
        BY <1>0, <3>2
      <4> QED
        BY <2>3, <3>2, <4>1 DEF NonceAt, NodeInv, BlocksGrow
    <3> QED
      BY <3>1, <3>2
  <2>6. NonceAt(finalized)' = blocks[n]
    BY <2>1, <2>2, <2>3 DEF NonceAt
  <2>7. 1..NonceAt(finalized) \subseteq 1..blocks[n]
    BY <2>4, <2>5
  <2> QED
    BY <2>2, <2>6, <2>7 DEF IsFinalized
<1> QED
  BY <1>1, <1>2, <1>3

LEMMA NodeInitInv == NodeInit => NodeInv
<1> SUFFICES ASSUME NodeInit PROVE NodeInv
  OBVIOUS
<1>1. NodeTypeOK
  BY DEF NodeInit, NodeTypeOK, AccountNonce, Watch
<1>2. HeldTxs = {}
  BY DEF NodeInit, HeldTxs, ToSet
<1> QED
  BY <1>1, <1>2 DEF NodeInit, NodeInv, NonceOrder, Agree, BlocksGrow

LEMMA NodeStutter == NodeInv /\ UNCHANGED nodeVars => NodeInv'
BY DEF nodeVars, NodeInv, NodeTypeOK, AccountNonce, NonceOrder, Agree, HeldTxs, BlocksGrow

-----------------------------------------------------------------------------
(* The invariant and what follows from it *)

LEMMA NodeInvariant == NodeSpec => []NodeInv
<1>1. NodeInit => NodeInv
  BY NodeInitInv
<1>2. NodeInv /\ [NodeNext]_nodeVars => NodeInv'
  <2> SUFFICES ASSUME NodeInv, [NodeNext]_nodeVars PROVE NodeInv'
    OBVIOUS
  <2>1. ASSUME NEW id \in TxIds, NEW n \in 0..MaxNonce, NEW c \in Calls,
               Submit(Signed(id, n, c))
        PROVE  NodeInv'
    <3>1. n \in Nat /\ Len(blocks) \in Nat
      BY MaxNonceIsNatural DEF NodeInv, NodeTypeOK
    <3>2. Signed(id, n, c) \in Txs
      BY <3>1 DEF Signed, Txs
    <3> QED
      BY <2>1, <3>2, SubmitStep
  <2> QED
    BY <2>1, ExpireStep, SealStep, FinalizeStep, NodeStutter DEF NodeNext
<1> QED
  BY <1>1, <1>2, PTL DEF NodeSpec

\* The state of the pool, the chain and the finality gadget keeps its type.
THEOREM NodeTypeCorrect == NodeSpec => []NodeTypeOK
<1>1. NodeInv => NodeTypeOK
  BY DEF NodeInv
<1> QED
  BY <1>1, NodeInvariant, PTL

\* An element of the chain followed by the ready queue.
LEMMA LineByIndex ==
  ASSUME NodeInv, NEW i \in DOMAIN (chain \o ready)
  PROVE  (chain \o ready)[i].nonce = i - 1 /\ i \in Nat
<1>1. /\ ready \in Seq(Txs) /\ chain \in Seq(Txs)
      /\ Len(chain) \in Nat /\ Len(ready) \in Nat
  BY DEF NodeInv, NodeTypeOK
<1>2. i \in 1..(Len(chain) + Len(ready))
  BY <1>1
<1>3. CASE i <= Len(chain)
  <2>1. (chain \o ready)[i] = chain[i] /\ i \in 1..Len(chain)
    BY <1>1, <1>2, <1>3
  <2> QED
    BY <2>1 DEF NodeInv, NonceOrder
<1>4. CASE i > Len(chain)
  <2>1. (chain \o ready)[i] = ready[i - Len(chain)] /\ i - Len(chain) \in 1..Len(ready)
    BY <1>1, <1>2, <1>4
  <2>2. ready[i - Len(chain)].nonce = Len(chain) + ((i - Len(chain)) - 1)
    BY <2>1 DEF NodeInv, NonceOrder
  <2> QED
    BY <1>1, <1>2, <2>1, <2>2
<1> QED
  BY <1>1, <1>2, <1>3, <1>4

\* An account's transactions run once each and in nonce order: the chain,
\* followed by the ready queue, carries the nonces 0, 1, 2, ... without gap or
\* repetition, and nothing that is parked could already run.
THEOREM NodeNoncesAreConsecutive == NodeSpec => []NoncesAreConsecutive
<1>1. NodeInv => NoncesAreConsecutive
  <2> SUFFICES ASSUME NodeInv PROVE NoncesAreConsecutive
    OBVIOUS
  <2>1. \A t \in future : t.nonce > NextNonce
    BY DEF NodeInv, NonceOrder, NextNonce, AccountNonce
  <2> QED
    BY <2>1, LineByIndex DEF NoncesAreConsecutive
<1> QED
  BY <1>1, NodeInvariant, PTL

\* Nothing accepted is lost, doubled or left behind in two places: a
\* transaction is in a block, the queue or the parking area, and in one of
\* them, if and only if its submitter was last told that it was accepted.
THEOREM NodeAcceptedIsHeld == NodeSpec => []AcceptedIsHeld
<1>1. NodeInv => AcceptedIsHeld
  <2> SUFFICES ASSUME NodeInv PROVE AcceptedIsHeld
    OBVIOUS
  <2> DEFINE line == chain \o ready
  <2>1. ready \in Seq(Txs) /\ chain \in Seq(Txs) /\ line \in Seq(Txs)
    BY DEF NodeInv, NodeTypeOK
  <2>2. future \cup ToSet(line) = HeldTxs
    <3>1. ToSet(chain \o ready) = ToSet(chain) \cup ToSet(ready)
      BY <2>1, ToSetOfTxs, Zenon
    <3> QED
      BY <3>1 DEF HeldTxs
  <2>3. \A i \in DOMAIN line : line[i] \in HeldTxs
    <3>1. \A i \in DOMAIN line : line[i] \in ToSet(line)
      BY DEF ToSet
    <3> QED
      BY <2>2, <3>1
  <2>4. ASSUME NEW i \in DOMAIN line, NEW j \in DOMAIN line, line[i].id = line[j].id
        PROVE  i = j
    <3>1. line[i] = line[j]
      BY <2>3, <2>4 DEF NodeInv, Agree
    <3>2. /\ line[i].nonce = i - 1 /\ line[j].nonce = j - 1
          /\ i \in Nat /\ j \in Nat
      BY LineByIndex
    <3> QED
      BY <3>1, <3>2
  <2>5. \A t \in future : \A u \in HeldTxs \ {t} : u.id # t.id
    BY DEF HeldTxs, NodeInv, Agree
  <2>6. \A id \in TxIds : watched[id] = "accepted" <=> \E t \in HeldTxs : t.id = id
    BY DEF NodeInv, Agree
  <2> HIDE DEF line
  <2>7. /\ \A i, j \in DOMAIN line : line[i].id = line[j].id => i = j
        /\ \A t \in future : \A u \in (future \cup ToSet(line)) \ {t} : u.id # t.id
        /\ \A id \in TxIds :
             watched[id] = "accepted" <=> \E t \in future \cup ToSet(line) : t.id = id
    BY <2>2, <2>4, <2>5, <2>6
  <2> QED
    BY <2>7 DEF AcceptedIsHeld, line
<1> QED
  BY <1>1, NodeInvariant, PTL

\* A final transaction stays final: late timers of older blocks and new blocks
\* take nothing back.
THEOREM NodeFinalityIsPermanent ==
  NodeSpec => [][\A id \in TxIds : IsFinalized(id) => IsFinalized(id)']_nodeVars
<1>1. NodeInv /\ [NodeNext]_nodeVars
        => [\A id \in TxIds : IsFinalized(id) => IsFinalized(id)']_nodeVars
  <2> SUFFICES ASSUME NodeInv, NodeNext
               PROVE  \A id \in TxIds : IsFinalized(id) => IsFinalized(id)'
    OBVIOUS
  <2>1. UNCHANGED <<chain, blocks, finalized>> \/ Seal \/ FinalizeSome
    <3>1. \A t : Submit(t) => UNCHANGED ledger
      BY DEF Submit, SubmitRejected, SubmitUsurping, SubmitReady, SubmitFuture
    <3>2. \A t : Expire(t) => UNCHANGED ledger
      BY DEF Expire
    <3> QED
      BY <3>1, <3>2 DEF NodeNext, ledger
  <2> QED
    BY <2>1, FinalityGrows
<1> QED
  BY <1>1, NodeInvariant, PTL DEF NodeSpec
=============================================================================
