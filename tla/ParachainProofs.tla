-------------------------- MODULE ParachainProofs --------------------------
(***************************************************************************)
(* Theorems about Parachain, for every set of accounts, weights, limits,   *)
(* messages and calls.                                                     *)
(***************************************************************************)
EXTENDS Parachain, FoldLemmas, FiniteSetTheorems, TLAPS

-----------------------------------------------------------------------------
(* The weight of a block *)

\* Only its mandatory part is used up before the extrinsics of a block, and
\* what has been used keeps within the limits.
WeightInv ==
  /\ consumed \in Weights
  /\ phase # "extrinsics" => consumed.Normal = 0 /\ consumed.Operational = 0
  /\ LimitsAreKept

LEMMA NormalLimitBound == NormalLimit \in 0..MAXIMUM_BLOCK_WEIGHT
BY WeightsArePositive DEF NormalLimit

\* A block that has only its mandatory part is within the limits.
LEMMA MandatoryOnly ==
  ASSUME NEW c \in Weights, c.Normal = 0, c.Operational = 0
  PROVE  WithinLimits(c)
BY NormalLimitBound, WeightsArePositive DEF WithinLimits, Total, reserved, Weights, Classes

\* CheckWeight admits no normal extrinsic beyond the maximum, whatever the
\* classes before it: the reserve of its class is nothing.
LEMMA AdmittedIsWithin ==
  ASSUME NEW c \in Weights, WithinLimits(c),
         NEW class \in {"Normal", "Operational"}, NEW weight \in Nat,
         CheckWeight(c, class, weight), NEW unspent \in {0, weight},
         NEW d, d = Refunded(Accrued(c, class, weight), class, unspent)
  PROVE  d \in Weights /\ WithinLimits(d)
<1> DEFINE after == Accrued(c, class, weight)
<1>1. /\ c.Normal \in Nat /\ c.Operational \in Nat /\ c.Mandatory \in Nat
      /\ c = [c EXCEPT !.Normal = c.Normal]
  BY DEF Weights, Classes
<1>2. /\ after \in Weights
      /\ after[class] = c[class] + weight + ExtrinsicBaseWeight
      /\ \A k \in Classes \ {class} : after[k] = c[k]
  BY WeightsArePositive DEF Accrued, Weights, Classes
<1>3. /\ after[class] <= max_total[class]
      /\ Total(after) > MAXIMUM_BLOCK_WEIGHT => after[class] <= reserved[class]
  BY DEF CheckWeight
<1>4. d = [after EXCEPT ![class] = after[class] - unspent]
  BY DEF Refunded
<1> HIDE DEF after
<1>5. /\ d \in Weights
      /\ d[class] = after[class] - unspent
      /\ \A k \in Classes \ {class} : d[k] = c[k]
  <2>1. after[class] - unspent \in Nat
    BY <1>1, <1>2, WeightsArePositive DEF Weights, Classes
  <2>2. QED
    BY <1>2, <1>4, <2>1 DEF Weights, Classes
<1>6. CASE class = "Normal"
  <2>1. /\ after.Normal = c.Normal + weight + ExtrinsicBaseWeight
        /\ after.Operational = c.Operational /\ after.Mandatory = c.Mandatory
        /\ d.Normal = after.Normal - unspent
        /\ d.Operational = c.Operational /\ d.Mandatory = c.Mandatory
    BY <1>2, <1>5, <1>6 DEF Classes
  <2>2. after.Normal <= NormalLimit /\ Total(after) <= MAXIMUM_BLOCK_WEIGHT
    <3>1. reserved["Normal"] = 0 /\ max_total["Normal"] = NormalLimit
      BY DEF reserved, max_total
    <3>2. after.Normal > 0
      BY <1>1, <2>1, WeightsArePositive
    <3>3. Total(after) \in Nat
      BY <1>2 DEF Total, Weights, Classes
    <3>4. QED
      BY <1>3, <1>6, <3>1, <3>2, <3>3, <2>1, <1>1, WeightsArePositive
  <2>3. QED
    BY <1>1, <1>5, <2>1, <2>2, NormalLimitBound, WeightsArePositive
    DEF WithinLimits, Total
<1>7. CASE class = "Operational"
  <2>1. /\ after.Operational = c.Operational + weight + ExtrinsicBaseWeight
        /\ after.Normal = c.Normal /\ after.Mandatory = c.Mandatory
        /\ d.Operational = after.Operational - unspent
        /\ d.Normal = c.Normal /\ d.Mandatory = c.Mandatory
    BY <1>2, <1>5, <1>7 DEF Classes
  <2>2. Total(after) <= MAXIMUM_BLOCK_WEIGHT \/ after.Operational <= reserved.Operational
    <3>1. Total(after) \in Nat
      BY <1>2 DEF Total, Weights, Classes
    <3>2. QED
      BY <1>3, <1>7, <3>1, WeightsArePositive
  <2>3. reserved.Operational \in Nat
    BY NormalLimitBound, WeightsArePositive DEF reserved
  <2>4. QED
    BY <1>1, <1>5, <2>1, <2>2, <2>3, NormalLimitBound, WeightsArePositive
    DEF WithinLimits, Total
<1>8. QED
  BY <1>6, <1>7

LEMMA InitializedWeights ==
  /\ Initialized(0) \in Weights
  /\ Initialized(0).Normal = 0 /\ Initialized(0).Operational = 0
BY WeightsArePositive DEF Initialized, Weights, Classes

LEMMA WeightInit == Init => WeightInv
BY InitializedWeights, MandatoryOnly DEF Init, WeightInv, LimitsAreKept

LEMMA ExtrinsicKeepsLimits ==
  ASSUME WeightInv, NEW class \in {"Normal", "Operational"}, ApplyExtrinsic(class)
  PROVE  WeightInv'
<1>1. PICK weight \in ExtrinsicWeights :
        /\ CheckWeight(consumed, class, weight)
        /\ \E unspent \in {0, weight} :
             consumed' = Refunded(Accrued(consumed, class, weight), class, unspent)
  BY DEF ApplyExtrinsic
<1>2. weight \in Nat
  BY ExtrinsicWeightsAreNatural
<1>3. consumed' \in Weights /\ WithinLimits(consumed')
  BY <1>1, <1>2, AdmittedIsWithin DEF WeightInv, LimitsAreKept
<1>4. QED
  BY <1>3 DEF ApplyExtrinsic, WeightInv, LimitsAreKept

LEMMA WeightNext == WeightInv /\ [Next]_vars => WeightInv'
<1> SUFFICES ASSUME WeightInv, [Next]_vars PROVE WeightInv'
  OBVIOUS
<1>1. ASSUME NEW i, InitializeBlock(i) PROVE WeightInv'
  BY <1>1, InitializedWeights, MandatoryOnly DEF InitializeBlock, WeightInv, LimitsAreKept
<1>2. CASE ProcessMessage
  <2>1. PICK w : w \in Nat /\ consumed' = [consumed EXCEPT !.Mandatory = @ + w]
    BY <1>2, UnitIsPositive DEF ProcessMessage, Weigher
  <2>2. /\ consumed' \in Weights
        /\ consumed'.Normal = 0 /\ consumed'.Operational = 0
    BY <1>2, <2>1 DEF ProcessMessage, WeightInv, Weights, Classes
  <2>3. QED
    BY <2>2, MandatoryOnly DEF WeightInv, LimitsAreKept
<1>3. CASE SetAside
  BY <1>3 DEF SetAside, blockVars, WeightInv, LimitsAreKept
<1>4. CASE EndHooks
  BY <1>4 DEF EndHooks, WeightInv, LimitsAreKept
<1>5. CASE SetValidationData
  BY <1>5 DEF SetValidationData, WeightInv, LimitsAreKept
<1>6. CASE SignedExtrinsic \/ SudoExtrinsic \/ OtherExtrinsic
  BY <1>6, ExtrinsicKeepsLimits DEF SignedExtrinsic, SudoExtrinsic, OtherExtrinsic
<1>7. CASE UNCHANGED vars
  BY <1>7 DEF vars, blockVars, WeightInv, LimitsAreKept
<1>8. QED
  BY <1>1, <1>2, <1>3, <1>4, <1>5, <1>6, <1>7 DEF Next

\* Whatever the messages of a block have used before its extrinsics are checked,
\* and in whatever order the classes come, the limits of the block are kept
\* (lib.rs:249-274).
THEOREM BlockLimits == Spec => []LimitsAreKept
<1>1. WeightInv => LimitsAreKept
  BY DEF WeightInv
<1>2. QED
  BY WeightInit, WeightNext, <1>1, PTL DEF Spec
-----------------------------------------------------------------------------
(* The lists of collators *)

IsList(s) == s \in Seq(Accounts) /\ IsInjective(s)

\* The part of TypeOK that is about collators.
CollatorInv ==
  /\ now \in Nat
  /\ {invulnerables, candidates, registered, authors} \subseteq SUBSET Accounts
  /\ last \in [Accounts -> Nat]
  /\ IsList(validators) /\ IsList(queued) /\ IsList(authorities)

LEMMA AccountIsInList ==
  ASSUME NEW s, IsList(s), NEW i \in DOMAIN s PROVE s[i] \in Accounts
BY DEF IsList

\* What a session starts from names each account once.
LEMMA AssembledIsList ==
  ASSUME invulnerables \subseteq Accounts, NEW remaining, remaining \subseteq Accounts,
         NEW s \in Assembled(remaining)
  PROVE  IsList(s)
<1>1. PICK S \in SUBSET Accounts : s \in SetToSeqs(S)
  BY DEF Assembled
<1>2. Cardinality(S) \in Nat
  BY FS_Subset, FS_CardinalityType, AccountsAreFinite
<1>3. /\ s \in [1..Cardinality(S) -> S]
      /\ \A i, j \in 1..Cardinality(S) : i # j => s[i] # s[j]
  BY <1>1 DEF SetToSeqs
<1>4. s \in Seq(Accounts)
  <2>1. s \in [1..Cardinality(S) -> Accounts]
    BY <1>3
  <2>2. QED
    BY <1>2, <2>1
<1>5. IsInjective(s)
  BY <1>3 DEF IsInjective
<1>6. QED
  BY <1>4, <1>5 DEF IsList

LEMMA NotedLast ==
  ASSUME CollatorInv, NEW i PROVE note_author(i) \in [Accounts -> Nat]
<1>1. last \in [Accounts -> Nat] /\ now + 1 \in Nat
  BY DEF CollatorInv
<1>2. \A v : [last EXCEPT ![v] = now + 1] \in [Accounts -> Nat]
  BY <1>1
<1>3. QED
  BY <1>1, <1>2 DEF note_author

LEMMA CollatorInit == Init => CollatorInv
<1> SUFFICES ASSUME Init PROVE CollatorInv
  OBVIOUS
<1>1. GenesisInvulnerables \in Seq(Accounts) /\ ToSet(GenesisInvulnerables) \subseteq Accounts
  BY GenesisHasCollators DEF ToSet
<1>2. QED
  BY <1>1, GenesisHasCollators DEF Init, testnet_genesis, CollatorInv, IsList

LEMMA AuthorBlockKeepsLists ==
  ASSUME CollatorInv, NEW i, AuthorBlock(i) PROVE CollatorInv'
<1>1. /\ now' \in Nat /\ invulnerables' \subseteq Accounts /\ registered' \subseteq Accounts
  BY DEF AuthorBlock, CollatorInv
<1>2. CASE (now + 1) % Period = 0
  <2>1. RotateSession(note_author(i))
    BY <1>2 DEF AuthorBlock
  <2>2. PICK kicked \in Kicked(note_author(i)) :
          LET remaining == candidates \ (invulnerables \cup kicked) IN
            /\ candidates' = remaining
            /\ last' = [a \in Accounts |-> IF a \in kicked THEN 0 ELSE note_author(i)[a]]
            /\ queued' \in Assembled(remaining)
    BY <2>1 DEF RotateSession
  <2>3. candidates' \subseteq Accounts /\ last' \in [Accounts -> Nat]
    BY <2>2, NotedLast DEF CollatorInv
  <2>4. IsList(queued')
    BY <2>2, <2>3, AssembledIsList DEF CollatorInv
  <2>5. authors' = {} /\ IsList(validators') /\ IsList(authorities')
    BY <2>1 DEF RotateSession, change_authorities, CollatorInv
  <2>6. QED
    BY <1>1, <2>3, <2>4, <2>5 DEF CollatorInv
<1>3. CASE (now + 1) % Period # 0
  <2>1. /\ last' = note_author(i) /\ authors' = authors \cup {authorities[i]}
        /\ UNCHANGED <<candidates, validators, queued, authorities>>
    BY <1>3 DEF AuthorBlock
  <2>2. authors' \subseteq Accounts
    BY <2>1, AccountIsInList DEF AuthorBlock, CollatorInv
  <2>3. QED
    BY <1>1, <2>1, <2>2, NotedLast DEF CollatorInv
<1>4. QED
  BY <1>2, <1>3

LEMMA SignedCallKeepsLists ==
  ASSUME CollatorInv, NEW a \in Accounts, SignedCall(a) PROVE CollatorInv'
<1>1. UNCHANGED <<now, invulnerables, authors, validators, queued, authorities>>
  BY DEF SignedCall, SessionsUnchanged
<1>2. /\ candidates' \subseteq Accounts
      /\ registered' \subseteq Accounts
      /\ last' \in [Accounts -> Nat]
  <2>1. now + KickThreshold \in Nat
    BY ThresholdCoversSession DEF CollatorInv
  <2>2. CASE set_keys(a) \/ purge_keys(a)
    BY <2>2 DEF set_keys, purge_keys, CollatorInv
  <2>3. CASE register_as_candidate(a)
    BY <2>1, <2>3 DEF register_as_candidate, CollatorInv
  <2>4. CASE leave_intent(a)
    BY <2>4 DEF leave_intent, CollatorInv
  <2>5. ASSUME NEW target \in Accounts, take_candidate_slot(a, target)
        PROVE  /\ candidates' \subseteq Accounts
               /\ registered' \subseteq Accounts
               /\ last' \in [Accounts -> Nat]
    BY <2>1, <2>5 DEF take_candidate_slot, CollatorInv
  <2>6. QED
    BY <2>2, <2>3, <2>4, <2>5 DEF SignedCall
<1>3. QED
  BY <1>1, <1>2 DEF CollatorInv

LEMMA UpdateCallKeepsLists ==
  ASSUME CollatorInv, NEW call, UpdateCall(call) PROVE CollatorInv'
<1>1. UNCHANGED <<now, authors, validators, queued, authorities, last, registered>>
  BY DEF UpdateCall, SessionsUnchanged
<1>2. invulnerables' \subseteq Accounts /\ candidates' \subseteq Accounts
  BY DEF UpdateCall, Accepted, CollatorInv
<1>3. QED
  BY <1>1, <1>2 DEF CollatorInv

\* A step is a block, a signed call, a call of the update origin, or none of
\* the collators' business.
LEMMA CollatorSteps ==
  ASSUME [Next]_vars
  PROVE  \/ \E i \in DOMAIN authorities : InitializeBlock(i) /\ AuthorBlock(i)
         \/ \E a \in Accounts : SignedCall(a)
         \/ \E call : UpdateCall(call)
         \/ UNCHANGED collatorVars
BY DEF Next, InitializeBlock, ProcessMessage, Dispatch, SetAside, EndHooks, SetValidationData,
  SignedExtrinsic, SudoExtrinsic, OtherExtrinsic, vars

LEMMA CollatorNext == CollatorInv /\ [Next]_vars => CollatorInv'
<1> SUFFICES ASSUME CollatorInv, [Next]_vars PROVE CollatorInv'
  OBVIOUS
<1>1. CASE UNCHANGED collatorVars
  BY <1>1 DEF collatorVars, CollatorInv
<1>2. QED
  BY <1>1, CollatorSteps, AuthorBlockKeepsLists, SignedCallKeepsLists, UpdateCallKeepsLists

LEMMA SessionNext == AuthoritiesAreValidators /\ [Next]_vars => AuthoritiesAreValidators'
<1> SUFFICES ASSUME AuthoritiesAreValidators, [Next]_vars PROVE AuthoritiesAreValidators'
  OBVIOUS
<1>1. ASSUME NEW i, AuthorBlock(i) PROVE AuthoritiesAreValidators'
  BY <1>1 DEF AuthorBlock, RotateSession, change_authorities, AuthoritiesAreValidators
<1>2. ASSUME UNCHANGED <<validators, authorities>> PROVE AuthoritiesAreValidators'
  BY <1>2 DEF AuthoritiesAreValidators
<1>3. QED
  BY <1>1, <1>2, CollatorSteps
  DEF SignedCall, UpdateCall, SessionsUnchanged, collatorVars

\* Aura's authorities and the validators of the session are the same list in the
\* same order, or the session has no validators and the last authorities go on:
\* the place at which authorship looks an author up is its place in aura's list
\* (lib.rs:316-319, 443-445).
THEOREM SessionsAgree == Spec => []AuthoritiesAreValidators
<1>1. Init => AuthoritiesAreValidators
  BY GenesisHasCollators DEF Init, testnet_genesis, AuthoritiesAreValidators
<1>2. QED
  BY <1>1, SessionNext, PTL DEF Spec
-----------------------------------------------------------------------------
(* Who is kept *)

\* One block more is one more in the session, or the first of the next.
LEMMA NextOfSession ==
  ASSUME NEW n \in Nat, NEW P \in Nat \ {0}
  PROVE  /\ n % P \in 0..(P - 1)
         /\ (n + 1) % P # 0 => (n + 1) % P = (n % P) + 1
         /\ (n + 1) % P = 0 => n % P = P - 1
<1> DEFINE q == n \div P
           r == n % P
           q1 == (n + 1) \div P
           r1 == (n + 1) % P
<1>1. /\ n = P * q + r /\ q \in Int /\ r \in 0..(P - 1)
      /\ n + 1 = P * q1 + r1 /\ q1 \in Int /\ r1 \in 0..(P - 1)
  OBVIOUS
<1> HIDE DEF q, r, q1, r1
<1>2. P * (q1 - q) = r + 1 - r1 /\ q1 - q \in Int
  BY <1>1
<1>3. PICK k \in Int : P * k = r + 1 - r1
  BY <1>2
<1>4. k <= 1 /\ k >= 0
  <2>1. CASE k >= 2
    <3>1. P * k >= P * 2
      BY <2>1
    <3>2. QED
      BY <1>1, <1>3, <3>1
  <2>2. CASE k <= -1
    <3>1. P * k <= P * (-1)
      BY <2>2
    <3>2. QED
      BY <1>1, <1>3, <3>1
  <2>3. QED
    BY <2>1, <2>2
<1>5. k = 0 => r1 = r + 1
  BY <1>1, <1>3
<1>6. k = 1 => r1 = 0 /\ r = P - 1
  BY <1>1, <1>3
<1>7. r \in 0..(P - 1) /\ (r1 # 0 => r1 = r + 1) /\ (r1 = 0 => r = P - 1)
  BY <1>1, <1>4, <1>5, <1>6
<1>8. QED
  BY <1>7 DEF r, r1

\* The block with which the session began.
SessionStart == now - (now % Period)

\* A candidate that has authored in this session is on record with a block of it.
Recorded ==
  validators # <<>> => \A a \in authors \cap candidates : last[a] > SessionStart

RecordInv == CollatorInv /\ AuthoritiesAreValidators /\ Recorded

\* What AuthorsAreKept asks of a step.
KeptStep ==
  now' # now /\ validators # <<>> =>
    (authors \cap candidates) \ invulnerables \subseteq candidates'

LEMMA RecordInit == Init => RecordInv
<1>1. Init => Recorded
  BY DEF Init, testnet_genesis, Recorded
<1>2. Init => AuthoritiesAreValidators
  BY GenesisHasCollators DEF Init, testnet_genesis, AuthoritiesAreValidators
<1>3. QED
  BY <1>1, <1>2, CollatorInit DEF RecordInv

\* The author of a block is on record with it when the session has validators.
LEMMA AuthorIsNoted ==
  ASSUME RecordInv, validators # <<>>, NEW i \in DOMAIN authorities
  PROVE  /\ note_author(i)[authorities[i]] = now + 1
         /\ \A a \in Accounts : note_author(i)[a] = now + 1 \/ note_author(i)[a] = last[a]
<1>1. validators = authorities /\ authorities[i] \in Accounts
  BY AccountIsInList DEF RecordInv, CollatorInv, AuthoritiesAreValidators
<1>2. last \in [Accounts -> Nat]
  BY DEF RecordInv, CollatorInv
<1>3. note_author(i) = [last EXCEPT ![authorities[i]] = now + 1]
  BY <1>1 DEF note_author
<1>4. QED
  BY <1>1, <1>2, <1>3

LEMMA AuthorBlockKeepsRecord ==
  ASSUME RecordInv, NEW i \in DOMAIN authorities, AuthorBlock(i)
  PROVE  Recorded' /\ KeptStep
<1>1. /\ now \in Nat /\ now' = now + 1 /\ last \in [Accounts -> Nat]
      /\ authors \subseteq Accounts /\ candidates \subseteq Accounts
  BY DEF RecordInv, CollatorInv, AuthorBlock
<1>2. /\ now % Period \in 0..(Period - 1)
      /\ (now + 1) % Period # 0 => (now + 1) % Period = (now % Period) + 1
      /\ (now + 1) % Period = 0 => now % Period = Period - 1
  BY <1>1, NextOfSession, PeriodIsPositive
<1>3. CASE (now + 1) % Period # 0
  <2>1. /\ last' = note_author(i) /\ authors' = authors \cup {authorities[i]}
        /\ UNCHANGED <<candidates, validators>>
    BY <1>3 DEF AuthorBlock
  <2>2. SessionStart' = SessionStart /\ SessionStart <= now /\ SessionStart \in Int
    <3> DEFINE r == now % Period
               r1 == (now + 1) % Period
    <3>1. r \in Int /\ r >= 0 /\ r1 = r + 1
      BY <1>2, <1>3, PeriodIsPositive
    <3>2. SessionStart = now - r /\ SessionStart' = (now + 1) - r1
      BY <1>1 DEF SessionStart
    <3> HIDE DEF r, r1
    <3>3. QED
      BY <1>1, <3>1, <3>2
  <2>3. ASSUME validators # <<>>, NEW a \in authors' \cap candidates'
        PROVE  last'[a] > SessionStart
    <3>1. a \in Accounts
      BY <2>1, <1>1
    <3>2. CASE a = authorities[i]
      BY <1>1, <2>1, <2>2, <2>3, <3>2, AuthorIsNoted
    <3>3. CASE a # authorities[i]
      <4>1. last[a] > SessionStart /\ last[a] \in Nat
        BY <1>1, <2>1, <2>3, <3>1, <3>3 DEF RecordInv, Recorded
      <4>2. last'[a] = now + 1 \/ last'[a] = last[a]
        BY <2>1, <2>3, <3>1, AuthorIsNoted
      <4>3. QED
        BY <1>1, <2>2, <4>1, <4>2
    <3>4. QED
      BY <3>2, <3>3
  <2>4. Recorded'
    BY <2>1, <2>2, <2>3 DEF Recorded
  <2>5. KeptStep
    BY <2>1 DEF KeptStep
  <2>6. QED
    BY <2>4, <2>5
<1>4. CASE (now + 1) % Period = 0
  <2>1. RotateSession(note_author(i))
    BY <1>4 DEF AuthorBlock
  <2>2. Recorded'
    BY <2>1 DEF RotateSession, Recorded
  <2>3. PICK kicked \in Kicked(note_author(i)) :
          candidates' = candidates \ (invulnerables \cup kicked)
    BY <2>1 DEF RotateSession
  <2>4. kicked \subseteq Lazy(note_author(i))
    BY <2>3 DEF Kicked
  <2>5. ASSUME validators # <<>>, NEW a \in authors \cap candidates
        PROVE  a \notin Lazy(note_author(i))
    <3>1. now % Period = Period - 1
      BY <1>2, <1>4
    <3>2. last[a] > SessionStart /\ last[a] \in Nat /\ a \in Accounts
      BY <1>1, <2>5 DEF RecordInv, Recorded
    <3>3. last[a] > now - (Period - 1)
      BY <3>1, <3>2 DEF SessionStart
    <3>4. note_author(i)[a] = now + 1 \/ note_author(i)[a] = last[a]
      BY <2>5, <3>2, AuthorIsNoted
    <3>5. ~(note_author(i)[a] + KickThreshold <= now + 1)
      BY <1>1, <3>2, <3>3, <3>4, ThresholdCoversSession, PeriodIsPositive
    <3>6. QED
      BY <3>5 DEF Lazy
  <2>6. KeptStep
    BY <2>3, <2>4, <2>5 DEF KeptStep
  <2>7. QED
    BY <2>2, <2>6
<1>5. QED
  BY <1>3, <1>4

\* A candidate that comes in is on record for the blocks to come.
LEMMA SignedCallKeepsRecord ==
  ASSUME RecordInv, NEW a \in Accounts, SignedCall(a)
  PROVE  Recorded' /\ KeptStep
<1>1. /\ UNCHANGED <<now, authors, validators>>
      /\ now \in Nat /\ last \in [Accounts -> Nat]
      /\ authors \subseteq Accounts
  BY DEF SignedCall, SessionsUnchanged, RecordInv, CollatorInv
<1>2. SessionStart' = SessionStart /\ SessionStart \in Int /\ SessionStart <= now
  <2>1. now % Period \in 0..(Period - 1)
    BY <1>1, NextOfSession, PeriodIsPositive
  <2> DEFINE r == now % Period
  <2>2. r \in Nat
    BY <2>1, PeriodIsPositive
  <2>3. SessionStart = now - r /\ SessionStart' = SessionStart
    BY <1>1 DEF SessionStart
  <2> HIDE DEF r
  <2>4. QED
    BY <1>1, <2>2, <2>3
<1>3. \A c \in Accounts \cap candidates' :
        \/ c \in candidates /\ last'[c] = last[c]
        \/ last'[c] = now + KickThreshold
  <2>1. CASE set_keys(a) \/ purge_keys(a)
    BY <2>1 DEF set_keys, purge_keys
  <2>2. CASE register_as_candidate(a)
    BY <1>1, <2>2 DEF register_as_candidate
  <2>3. CASE leave_intent(a)
    BY <1>1, <2>3 DEF leave_intent
  <2>4. CASE \E target \in Accounts : take_candidate_slot(a, target)
    BY <1>1, <2>4 DEF take_candidate_slot
  <2>5. QED
    BY <2>1, <2>2, <2>3, <2>4 DEF SignedCall
<1>4. ASSUME validators # <<>>, NEW c \in authors \cap candidates'
      PROVE  last'[c] > SessionStart
  <2>1. c \in Accounts
    BY <1>1
  <2>2. CASE c \in candidates /\ last'[c] = last[c]
    BY <1>4, <2>2 DEF RecordInv, Recorded
  <2>3. CASE last'[c] = now + KickThreshold
    BY <1>1, <1>2, <2>3, ThresholdCoversSession, PeriodIsPositive
  <2>4. QED
    BY <1>3, <2>1, <2>2, <2>3
<1>5. QED
  BY <1>1, <1>2, <1>4 DEF Recorded, KeptStep

LEMMA UpdateCallKeepsRecord ==
  ASSUME RecordInv, NEW call, UpdateCall(call) PROVE Recorded' /\ KeptStep
BY DEF UpdateCall, SessionsUnchanged, RecordInv, Recorded, SessionStart, KeptStep

LEMMA RecordNext == RecordInv /\ [Next]_vars => RecordInv' /\ KeptStep
<1> SUFFICES ASSUME RecordInv, [Next]_vars PROVE RecordInv' /\ KeptStep
  OBVIOUS
<1>1. CollatorInv' /\ AuthoritiesAreValidators'
  BY CollatorNext, SessionNext DEF RecordInv
<1>2. ASSUME UNCHANGED collatorVars PROVE Recorded' /\ KeptStep
  <2>1. UNCHANGED <<now, invulnerables, candidates, last, validators, authors>>
    BY <1>2 DEF collatorVars
  <2>2. QED
    BY <2>1 DEF RecordInv, Recorded, SessionStart, KeptStep
<1>3. Recorded' /\ KeptStep
  <2>1. ASSUME NEW i \in DOMAIN authorities, AuthorBlock(i) PROVE Recorded' /\ KeptStep
    BY <2>1, AuthorBlockKeepsRecord
  <2>2. ASSUME NEW a \in Accounts, SignedCall(a) PROVE Recorded' /\ KeptStep
    BY <2>2, SignedCallKeepsRecord
  <2>3. ASSUME NEW call, UpdateCall(call) PROVE Recorded' /\ KeptStep
    BY <2>3, UpdateCallKeepsRecord
  <2>4. QED
    BY <1>2, <2>1, <2>2, <2>3, CollatorSteps
<1>4. QED
  BY <1>1, <1>3 DEF RecordInv

\* A candidate that authors a block of its session after the first is kept
\* through the end of that session, whatever it and others call in between,
\* for any threshold of a session or more (lib.rs:480-481, 516-520).
THEOREM AuthorsStay == Spec => AuthorsAreKept
<1>1. RecordInv /\ [Next]_vars => [KeptStep]_vars
  BY RecordNext
<1>2. RecordInv /\ [Next]_vars => RecordInv'
  BY RecordNext
<1>3. Spec => [][KeptStep]_vars
  BY RecordInit, <1>1, <1>2, PTL DEF Spec
<1>4. QED
  BY <1>3 DEF KeptStep, AuthorsAreKept
-----------------------------------------------------------------------------
(* The minimum of collators *)

\* What EligibleFloor asks of a step.
FloorStep ==
  /\ invulnerables' = invulnerables /\ invulnerables \cap candidates = {}
  /\ Cardinality(candidates') < Cardinality(candidates)
  => Cardinality(invulnerables') + Cardinality(candidates') >= MinEligibleCollators

\* Finitely many accounts can be collators.
LEMMA CollatorsAreFinite ==
  ASSUME CollatorInv
  PROVE  /\ IsFiniteSet(invulnerables) /\ IsFiniteSet(candidates)
         /\ Cardinality(invulnerables) \in Nat /\ Cardinality(candidates) \in Nat
BY FS_Subset, FS_CardinalityType, AccountsAreFinite DEF CollatorInv

\* Kicking stops at the minimum when no candidate is invulnerable as well.
LEMMA KickingKeepsFloor ==
  ASSUME CollatorInv, NEW written, RotateSession(written), invulnerables' = invulnerables
  PROVE  FloorStep
<1> SUFFICES ASSUME invulnerables \cap candidates = {},
                    Cardinality(candidates') < Cardinality(candidates)
             PROVE  Cardinality(invulnerables) + Cardinality(candidates') >= MinEligibleCollators
  BY DEF FloorStep
<1>1. PICK kicked \in Kicked(written) : candidates' = candidates \ (invulnerables \cup kicked)
  BY DEF RotateSession
<1> DEFINE doubles == Cardinality(candidates \cap invulnerables)
           lazy    == Cardinality(Lazy(written))
           v       == Cardinality(invulnerables)
           c       == Cardinality(candidates)
           k       == Cardinality(kicked)
<1>2. /\ IsFiniteSet(candidates) /\ v \in Nat /\ c \in Nat
  BY CollatorsAreFinite
<1>3. doubles = 0
  <2>1. candidates \cap invulnerables = {}
    OBVIOUS
  <2> QED
    BY <2>1, FS_EmptySet
<1>4. kicked \subseteq Lazy(written)
      /\ k \in Min2(lazy, Spare(eligible_collators - doubles))..Min2(lazy, Spare(eligible_collators))
  BY DEF Kicked
<1>5. kicked \subseteq candidates
  BY <1>4 DEF Lazy
<1>6. candidates' = candidates \ kicked
  BY <1>1
<1>7. k \in Nat /\ Cardinality(candidates') = c - k
  <2>1. candidates \cap kicked = kicked
    BY <1>5
  <2>2. k \in Nat
    BY <1>2, <1>5, FS_Subset, FS_CardinalityType
  <2> QED
    BY <1>2, <1>6, <2>1, <2>2, FS_Difference
<1>8. lazy \in Nat
  <2>1. Lazy(written) \subseteq candidates
    BY DEF Lazy
  <2> QED
    BY <1>2, <2>1, FS_Subset, FS_CardinalityType
<1>9. k <= Spare(v + c)
  <2>1. eligible_collators = v + c
    BY DEF eligible_collators
  <2>2. Spare(v + c) \in Nat
    BY <1>2, LimitsAreNatural DEF Spare
  <2>3. Min2(lazy, Spare(v + c)) \in Nat /\ Min2(lazy, Spare(v + c)) <= Spare(v + c)
    BY <1>8, <2>2 DEF Min2
  <2>4. k <= Min2(lazy, Spare(v + c))
    <3> HIDE DEF v, c, k, lazy, doubles
    <3> QED
      BY <1>2, <1>3, <1>4, <2>1, <2>3
  <2> QED
    BY <1>7, <2>2, <2>3, <2>4
<1>10. k > 0
  BY <1>2, <1>7
<1> HIDE DEF v, c, k
<1>11. v + (c - k) >= MinEligibleCollators
  BY <1>2, <1>7, <1>9, <1>10, LimitsAreNatural DEF Spare
<1> QED
  BY <1>7, <1>11 DEF v, c, k

\* Of the calls of a signed account only leaving makes the candidates fewer.
LEMMA SignedCallKeepsFloor ==
  ASSUME CollatorInv, NEW a \in Accounts, SignedCall(a)
  PROVE  FloorStep
<1>1. /\ IsFiniteSet(candidates)
      /\ Cardinality(invulnerables) \in Nat /\ Cardinality(candidates) \in Nat
  BY CollatorsAreFinite
<1>2. CASE set_keys(a) \/ purge_keys(a)
  BY <1>1, <1>2 DEF set_keys, purge_keys, FloorStep
<1>3. CASE register_as_candidate(a)
  <2>1. Cardinality(candidates') = Cardinality(candidates) + 1
    BY <1>1, <1>3, FS_AddElement DEF register_as_candidate
  <2> QED
    BY <1>1, <2>1 DEF FloorStep
<1>4. CASE leave_intent(a)
  <2>1. Cardinality(candidates') = Cardinality(candidates) - 1
    BY <1>1, <1>4, FS_RemoveElement DEF leave_intent
  <2>2. Cardinality(invulnerables) + Cardinality(candidates) > MinEligibleCollators
    BY <1>4 DEF leave_intent, eligible_collators
  <2> QED
    BY <1>1, <2>1, <2>2, LimitsAreNatural DEF FloorStep
<1>5. ASSUME NEW target \in Accounts, take_candidate_slot(a, target)
      PROVE  FloorStep
  <2>1. target \in candidates /\ a \notin candidates \ {target}
    BY <1>5 DEF take_candidate_slot
  <2> DEFINE others == candidates \ {target}
  <2>2. IsFiniteSet(others) /\ Cardinality(others) = Cardinality(candidates) - 1
    BY <1>1, <2>1, FS_RemoveElement
  <2>3. a \notin others /\ candidates' = others \cup {a}
    BY <1>5, <2>1 DEF take_candidate_slot
  <2> HIDE DEF others
  <2>4. Cardinality(candidates') = Cardinality(others) + 1
    BY <2>2, <2>3, FS_AddElement
  <2> QED
    BY <1>1, <2>2, <2>4 DEF FloorStep
<1> QED
  BY <1>2, <1>3, <1>4, <1>5 DEF SignedCall

\* No call of the update origin takes a candidate and leaves the invulnerables.
LEMMA UpdateCallKeepsFloor ==
  ASSUME CollatorInv, NEW call, UpdateCall(call)
  PROVE  FloorStep
<1>1. Cardinality(candidates) \in Nat
  BY CollatorsAreFinite
<1>2. CASE call[1] = "add_invulnerable"
  <2>1. invulnerables' = invulnerables \cup {call[2]}
    BY <1>2 DEF UpdateCall
  <2>2. call[2] \notin invulnerables
    BY <1>2 DEF UpdateCall, Accepted
  <2> QED
    BY <2>1, <2>2 DEF FloorStep
<1>3. CASE call[1] # "add_invulnerable"
  BY <1>1, <1>3 DEF UpdateCall, FloorStep
<1> QED
  BY <1>2, <1>3

\* Neither kicking nor leaving, in whatever order sessions and calls come, takes
\* the collators below the minimum, unless a candidate is invulnerable as well
\* and counted twice (lib.rs:477).
THEOREM FloorIsKept == Spec => EligibleFloor
<1>1. CollatorInv /\ [Next]_vars => [FloorStep]_vars
  <2> SUFFICES ASSUME CollatorInv, Next PROVE FloorStep
    BY DEF FloorStep, vars
  <2>1. ASSUME NEW i, AuthorBlock(i) PROVE FloorStep
    <3>1. invulnerables' = invulnerables
      BY <2>1 DEF AuthorBlock
    <3>2. CASE RotateSession(note_author(i))
      BY <3>1, <3>2, KickingKeepsFloor
    <3>3. CASE candidates' = candidates
      BY <3>3, CollatorsAreFinite DEF FloorStep
    <3> QED
      BY <2>1, <3>2, <3>3 DEF AuthorBlock
  <2>2. CASE UNCHANGED collatorVars
    BY <2>2, CollatorsAreFinite DEF collatorVars, FloorStep
  <2> QED
    BY <2>1, <2>2, CollatorSteps, SignedCallKeepsFloor, UpdateCallKeepsFloor
<1>2. Spec => [][FloorStep]_vars
  BY <1>1, CollatorInit, CollatorNext, PTL DEF Spec
<1> QED
  BY <1>2 DEF FloorStep, EligibleFloor
-----------------------------------------------------------------------------
(* The message queue *)

\* What waits are messages, and what they have used of a block so far is within
\* their share of it and counted as mandatory.
QueueInv ==
  /\ phase \in {"hooks", "inherents", "extrinsics"}
  /\ desired \in Nat
  /\ extrinsics \in 0..MaxExtrinsics
  /\ served \in 0..MessageQueueServiceWeight /\ served <= consumed.Mandatory
  /\ queue \in Seq(Messages) /\ Len(queue) <= MaxQueue
  /\ phase = "inherents" => \A k \in Foremost : ~TooHeavy(queue[k])

BlockInv == CollatorInv /\ WeightInv /\ QueueInv

\* A queue without one of its messages.
LEMMA RemovedFromQueue ==
  ASSUME NEW q \in Seq(Messages), NEW k \in DOMAIN q
  PROVE  RemoveAt(q, k) \in Seq(Messages) /\ Len(RemoveAt(q, k)) = Len(q) - 1
<1>1. Len(q) \in Nat /\ k \in 1..Len(q)
  OBVIOUS
<1> DEFINE before == SubSeq(q, 1, k - 1)
           after  == SubSeq(q, k + 1, Len(q))
<1>2. before \in Seq(Messages) /\ Len(before) = k - 1
  BY <1>1
<1>3. after \in Seq(Messages) /\ Len(after) = Len(q) - k
  BY <1>1
<1> HIDE DEF before, after
<1>4. before \o after \in Seq(Messages) /\ Len(before \o after) = Len(q) - 1
  BY <1>1, <1>2, <1>3
<1> QED
  BY <1>4 DEF RemoveAt, before, after

LEMMA ServiceWeight == MessageQueueServiceWeight \in Nat
BY WeightsArePositive DEF MessageQueueServiceWeight

\* Of two calls that may be made, only one sets the number of candidates.
LEMMA DesiredIsNatural ==
  ASSUME desired \in Nat, NEW call, UpdateCall(call),
         call[1] = "set_desired_candidates" => call[2] \in Nat
  PROVE  desired' \in Nat
BY DEF UpdateCall

LEMMA BlockInit == Init => BlockInv
<1>1. Init => QueueInv
  BY ServiceWeight, WeightsArePositive, QueueAndExtrinsicsAreBounded
  DEF Init, testnet_genesis, QueueInv, Initialized
<1> QED
  BY <1>1, CollatorInit, WeightInit DEF BlockInv

\* The hooks.
LEMMA HooksKeepQueueInv ==
  ASSUME BlockInv, (\E i : InitializeBlock(i)) \/ ProcessMessage \/ SetAside \/ EndHooks
  PROVE  QueueInv'
<1> USE DEF BlockInv, QueueInv
<1>1. ASSUME NEW i, InitializeBlock(i) PROVE QueueInv'
  <2>1. UNCHANGED <<desired, queue, extrinsics>> /\ phase' = "hooks" /\ served' = 0
    BY <1>1 DEF InitializeBlock, AuthorBlock
  <2>2. consumed'.Mandatory \in Nat
    BY <1>1, WeightsArePositive DEF InitializeBlock, Initialized
  <2> QED
    BY <2>1, <2>2, ServiceWeight
<1>2. CASE ProcessMessage
  <2>1. PICK k \in Foremost :
          /\ Fits(queue[k])
          /\ Dispatch(queue[k])
          /\ served' = served + Weigher(queue[k].program)
          /\ consumed' = [consumed EXCEPT !.Mandatory = @ + Weigher(queue[k].program)]
          /\ queue' = RemoveAt(queue, k)
    BY <1>2 DEF ProcessMessage
  <2>2. k \in DOMAIN queue /\ queue[k] \in Messages
    BY DEF Foremost
  <2>3. queue' \in Seq(Messages) /\ Len(queue') <= MaxQueue
    BY <2>1, <2>2, RemovedFromQueue, QueueAndExtrinsicsAreBounded
  <2>4. PICK w \in Nat : w = Weigher(queue[k].program)
    BY UnitIsPositive DEF Weigher
  <2>5. served' = served + w /\ served + w <= MessageQueueServiceWeight
    BY <2>1, <2>4 DEF Fits
  <2>6. consumed'.Mandatory = consumed.Mandatory + w /\ consumed.Mandatory \in Nat
    BY <2>1, <2>4 DEF WeightInv, Weights, Classes
  <2>7. desired' \in Nat
    <3>1. CASE UpdateCall(queue[k].call)
      <4>1. queue[k].call[1] = "set_desired_candidates" => queue[k].call[2] \in Nat
        BY <2>2, DesiredAreNatural
      <4> QED
        BY <3>1, <4>1, DesiredIsNatural
    <3>2. CASE UNCHANGED collatorVars
      BY <3>2 DEF collatorVars
    <3> QED
      BY <2>1, <3>1, <3>2 DEF Dispatch
  <2>8. phase' = "hooks" /\ extrinsics' = extrinsics
    BY <1>2 DEF ProcessMessage
  <2> QED
    BY <2>3, <2>5, <2>6, <2>7, <2>8, ServiceWeight
<1>3. CASE SetAside
  <2>1. PICK k \in Foremost : queue' = RemoveAt(queue, k)
    BY <1>3 DEF SetAside
  <2>2. k \in DOMAIN queue
    BY DEF Foremost
  <2>3. queue' \in Seq(Messages) /\ Len(queue') <= MaxQueue
    BY <2>1, <2>2, RemovedFromQueue, QueueAndExtrinsicsAreBounded
  <2> QED
    BY <1>3, <2>3 DEF SetAside, collatorVars, blockVars
<1>4. CASE EndHooks
  BY <1>4 DEF EndHooks, collatorVars, Foremost, TooHeavy
<1> QED
  BY <1>1, <1>2, <1>3, <1>4

\* The inherent and the extrinsics.
LEMMA RestKeepsQueueInv ==
  ASSUME BlockInv, SetValidationData \/ SignedExtrinsic \/ SudoExtrinsic \/ OtherExtrinsic
  PROVE  QueueInv'
<1> USE DEF BlockInv, QueueInv
<1>1. CASE SetValidationData
  <2>1. PICK batch \in BoundedSeq(Messages, MaxQueue - Len(queue)) : queue' = queue \o batch
    BY <1>1 DEF SetValidationData
  <2>2. PICK m \in 0..(MaxQueue - Len(queue)) : batch \in [1..m -> Messages]
    BY DEF BoundedSeq, SeqOf
  <2>3. batch \in Seq(Messages) /\ Len(batch) = m
    BY <2>2
  <2>4. queue' \in Seq(Messages) /\ Len(queue') = Len(queue) + m
    BY <2>1, <2>3
  <2>5. Len(queue') <= MaxQueue
    BY <2>2, <2>4, QueueAndExtrinsicsAreBounded
  <2> QED
    BY <1>1, <2>4, <2>5 DEF SetValidationData, collatorVars
<1>2. ASSUME NEW class \in {"Normal", "Operational"}, ApplyExtrinsic(class), desired' \in Nat
      PROVE  QueueInv'
  <2>1. PICK weight \in ExtrinsicWeights : \E unspent \in {0, weight} :
          consumed' = Refunded(Accrued(consumed, class, weight), class, unspent)
    BY <1>2 DEF ApplyExtrinsic
  <2>2. consumed'.Mandatory = consumed.Mandatory
    BY <1>2, <2>1 DEF Refunded, Accrued, WeightInv, Weights, Classes
  <2>3. extrinsics' \in 0..MaxExtrinsics
    BY <1>2, QueueAndExtrinsicsAreBounded DEF ApplyExtrinsic
  <2>4. UNCHANGED <<phase, served, queue>> /\ phase = "extrinsics"
    BY <1>2 DEF ApplyExtrinsic
  <2> QED
    BY <1>2, <2>2, <2>3, <2>4
<1>3. CASE SignedExtrinsic
  BY <1>2, <1>3 DEF SignedExtrinsic, SignedCall
<1>4. CASE SudoExtrinsic
  <2>1. PICK call \in Calls : UpdateCall(call)
    BY <1>4 DEF SudoExtrinsic
  <2>2. call[1] = "set_desired_candidates" => call[2] \in Nat
    BY DesiredAreNatural
  <2>3. desired' \in Nat
    BY <2>1, <2>2, DesiredIsNatural
  <2> QED
    BY <1>2, <1>4, <2>3 DEF SudoExtrinsic
<1>5. CASE OtherExtrinsic
  BY <1>2, <1>5 DEF OtherExtrinsic, collatorVars
<1> QED
  BY <1>1, <1>3, <1>4, <1>5

LEMMA BlockNext == BlockInv /\ [Next]_vars => BlockInv'
<1> SUFFICES ASSUME BlockInv, [Next]_vars PROVE BlockInv'
  OBVIOUS
<1>1. CollatorInv' /\ WeightInv'
  BY CollatorNext, WeightNext DEF BlockInv
<1>2. CASE UNCHANGED vars
  BY <1>1, <1>2 DEF BlockInv, QueueInv, vars, collatorVars, blockVars, Foremost, TooHeavy
<1>3. CASE Next
  BY <1>1, <1>3, HooksKeepQueueInv, RestKeepsQueueInv DEF Next, BlockInv
<1> QED
  BY <1>2, <1>3

LEMMA BlockInvariant == Spec => []BlockInv
BY BlockInit, BlockNext, PTL DEF Spec

\* Authoring never goes by a list that names an account twice, and the messages of
\* a block keep to their share of it (lib.rs:391), while none that is too heavy
\* for any block stays at the head of its queue.
THEOREM ParachainTypeCorrect == Spec => []TypeOK
<1>1. BlockInv => TypeOK
  BY DEF BlockInv, CollatorInv, IsList, WeightInv, QueueInv, TypeOK, ToSet
<1> QED
  BY <1>1, BlockInvariant, PTL

-----------------------------------------------------------------------------
(* The programs of messages *)

\* A list of instructions, each a name and what it is about.
IsProgram(program) ==
  program \in Seq(ToSet(program)) /\ \A i \in ToSet(program) : i = <<i[1], i[2]>>

\* The locations a program's origin may become, and the executor's registers.
Places(program) ==
  {i[2] : i \in ToSet(program)} \cup {"sibling", "here", "account"}

Origins(program) ==
  {Relay, SiblingPara, Signed(Account), Signed(Parent)}
    \cup {Passed(l) : l \in Seq(Places(program))}

RegistersOf(program) ==
  [origin : SUBSET Seq(Places(program)), holding : SUBSET Places(program),
   going : BOOLEAN, dispatched : SUBSET Origins(program)]

LEMMA InstructionAt ==
  ASSUME NEW program, IsProgram(program)
  PROVE  /\ Len(program) \in Nat /\ DOMAIN program = 1..Len(program)
         /\ \A k \in 1..Len(program) :
              /\ program[k] = <<program[k][1], program[k][2]>>
              /\ program[k][2] \in Places(program)
              /\ program[k] \in ToSet(program)
<1>1. /\ Len(program) \in Nat /\ DOMAIN program = 1..Len(program)
      /\ \A k \in 1..Len(program) : program[k] \in ToSet(program)
  BY DEF IsProgram
<1> QED
  BY <1>1 DEF IsProgram, Places

LEMMA OriginsOfTransact ==
  ASSUME NEW program, NEW l \in Seq(Places(program)), NEW kind
  PROVE  XcmOriginToTransactDispatchOrigin(l, kind) \subseteq Origins(program)
<1>1. LocationToAccountId(l) \subseteq {Account, Parent}
  BY DEF LocationToAccountId
<1>2. {Signed(a) : a \in LocationToAccountId(l)} \subseteq Origins(program)
  BY <1>1 DEF Origins
<1>3. {o \in {Relay, SiblingPara, Signed(Account)} : o[2] = l} \subseteq Origins(program)
  BY DEF Origins
<1>4. {Passed(l)} \subseteq Origins(program)
  BY DEF Origins
<1>5. XcmOriginToTransactDispatchOrigin(l, kind)
        \in {{Signed(a) : a \in LocationToAccountId(l)},
             {o \in {Relay, SiblingPara, Signed(Account)} : o[2] = l},
             {Passed(l)}, {}}
  BY Zenon DEF XcmOriginToTransactDispatchOrigin
<1> QED
  BY <1>2, <1>3, <1>4, <1>5

LEMMA ExecuteKeepsRegisters ==
  ASSUME NEW program, NEW r \in RegistersOf(program), NEW i, i[2] \in Places(program)
  PROVE  Execute(r, i) \in RegistersOf(program)
<1> DEFINE P == Places(program)
           D == Origins(program)
<1> USE DEF RegistersOf
<1>1. CASE Execute(r, i) = r
  BY <1>1
<1>2. CASE Execute(r, i) = Failed(r)
  BY <1>2 DEF Failed
<1>3. CASE Execute(r, i) = [r EXCEPT !.origin = {}]
  BY <1>3
<1>4. CASE Execute(r, i) = [r EXCEPT !.origin = {Append(o, i[2]) : o \in r.origin}]
  <2>1. \A o \in r.origin : Append(o, i[2]) \in Seq(P)
    OBVIOUS
  <2>2. {Append(o, i[2]) : o \in r.origin} \in SUBSET Seq(P)
    BY <2>1
  <2> QED
    BY <1>4, <2>2
<1>5. CASE Execute(r, i) = [r EXCEPT !.holding = r.holding \cup {i[2]}]
  BY <1>5
<1>6. CASE Execute(r, i) = [r EXCEPT !.dispatched =
             r.dispatched \cup UNION {XcmOriginToTransactDispatchOrigin(o, i[2]) : o \in r.origin}]
  <2>1. \A o \in r.origin : XcmOriginToTransactDispatchOrigin(o, i[2]) \subseteq D
    BY OriginsOfTransact
  <2>2. r.dispatched \cup UNION {XcmOriginToTransactDispatchOrigin(o, i[2]) : o \in r.origin} \in SUBSET D
    BY <2>1
  <2> QED
    BY <1>6, <2>2
<1> QED
  BY <1>1, <1>2, <1>3, <1>4, <1>5, <1>6 DEF Execute, UniversalAliases

\* The registers before the first instruction and after each.
Executes(run, r, program) ==
  /\ run \in [0..Len(program) -> RegistersOf(program)]
  /\ run[0] = r /\ run[Len(program)] = FoldLeft(Execute, r, program)
  /\ \A k \in 1..Len(program) : run[k] = Execute(run[k - 1], program[k])

LEMMA ExecuteRuns ==
  ASSUME NEW program, IsProgram(program), NEW r \in RegistersOf(program)
  PROVE  \E run : Executes(run, r, program)
<1> DEFINE n == Len(program)
           A == RegistersOf(program)
           step == [k \in 1..n |-> [q \in A |-> Execute(q, program[k])]]
           Solves(it) == it = [S \in SUBSET (1..n) |->
             IF S = {} THEN r ELSE Execute(it[S \ {Max(S)}], program[Max(S)])]
           solution == CHOOSE it : Solves(it)
<1>1. n \in Nat /\ DOMAIN program = 1..n /\ r \in A /\ \A k \in 1..n : program[k][2] \in Places(program)
  BY InstructionAt
<1>2. FoldLeft(Execute, r, program) = solution[1..n]
  BY <1>1 DEF FoldLeft, MapThenFoldSet
<1>3. step \in [1..n -> [A -> A]]
  BY <1>1, ExecuteKeepsRegisters
<1>4. \A S \in SUBSET (1..n) : S # {} => Max(S) \in 1..n
  BY <1>1, MaxOfPositions
<1>5. \E it : Solves(it)
  <2>1. PICK it \in [SUBSET (1..n) -> A] : Folds(it, n, r, step)
    <3> HIDE DEF n, A, step
    <3> QED
      BY <1>1, <1>3, FoldExists, Zenon
  <2>2. ASSUME NEW S \in SUBSET (1..n), S # {}
        PROVE  step[Max(S)][it[S \ {Max(S)}]] = Execute(it[S \ {Max(S)}], program[Max(S)])
    <3>1. it[S \ {Max(S)}] \in A /\ Max(S) \in 1..n
      BY <1>4, <2>2
    <3> HIDE DEF n, A
    <3> QED
      BY <3>1
  <2>3. Solves(it)
    <3> HIDE DEF n, A, step
    <3> QED
      BY <2>1, <2>2 DEF Folds
  <2> QED
    BY <2>3
<1>6. Solves(solution)
  <2> HIDE DEF Solves
  <2> QED
    BY <1>5
<1>7. FoldsWithin(solution, n, A, r, step)
  <2> HIDE DEF solution, n, A
  <2>1. solution[{}] = r
    BY <1>6
  <2>2. ASSUME NEW S \in SUBSET (1..n), S # {}, solution[S \ {Max(S)}] \in A
        PROVE  solution[S] = step[Max(S)][solution[S \ {Max(S)}]]
    <3>1. solution[S] = Execute(solution[S \ {Max(S)}], program[Max(S)])
      BY <1>6, <2>2
    <3>2. Max(S) \in 1..n
      BY <1>4, <2>2
    <3> QED
      BY <2>2, <3>1, <3>2
  <2> QED
    BY <2>1, <2>2 DEF FoldsWithin
<1>8. PICK run \in [0..n -> A] : Runs(run, n, r, step, solution[1..n])
  <2> HIDE DEF n, A, step, solution
  <2> QED
    BY <1>1, <1>3, <1>7, FoldRuns, Zenon
<1>9. \A k \in 1..n : run[k] = Execute(run[k - 1], program[k])
  <2> SUFFICES ASSUME NEW k \in 1..n PROVE run[k] = Execute(run[k - 1], program[k])
    OBVIOUS
  <2>1. run[k] = step[k][run[k - 1]]
    <3> HIDE DEF step, solution
    <3> QED
      BY <1>8 DEF Runs
  <2>2. run[k - 1] \in A
    BY <1>1
  <2> HIDE DEF n, A, solution
  <2> QED
    BY <2>1, <2>2
<1>10. run[0] = r /\ run[n] = FoldLeft(Execute, r, program)
  <2> HIDE DEF solution
  <2> QED
    BY <1>2, <1>8 DEF Runs
<1>11. Executes(run, r, program)
  BY <1>9, <1>10 DEF Executes
<1> QED
  BY <1>11

\* What one instruction does to the registers.
Effect(r, i, q) ==
  /\ ~r.going => q = r
  /\ i[1] = "UniversalOrigin" => ~q.going
  /\ \/ q.origin \in {r.origin, {}}
     \/ i[1] = "DescendOrigin" /\ q.origin = {Append(l, i[2]) : l \in r.origin}
  /\ \/ q.dispatched = r.dispatched
     \/ /\ i[1] = "Transact"
        /\ q.dispatched = r.dispatched \cup
             UNION {XcmOriginToTransactDispatchOrigin(l, i[2]) : l \in r.origin}
  /\ \/ q.holding = r.holding
     \/ /\ q.holding = r.holding \cup {i[2]}
        /\ \/ i[1] = "WithdrawAsset" /\ \E l \in r.origin : l \in {Account, Parent}
           \/ i[1] = "ReserveAssetDeposited" /\ i[2] \in r.origin
  /\ i[1] = "BuyExecution" /\ Parent \notin r.holding => ~q.going

LEMMA ExecuteEffect ==
  ASSUME NEW program, NEW r \in RegistersOf(program), NEW i, i[2] \in Places(program),
         NEW q, q = Execute(r, i)
  PROVE  Effect(r, i, q) /\ q \in RegistersOf(program)
<1> USE DEF RegistersOf, Failed, Effect
<1>1. q \in RegistersOf(program)
  BY ExecuteKeepsRegisters
<1>2. CASE /\ q = r
            /\ \/ ~r.going
               \/ /\ i[1] # "UniversalOrigin"
                  /\ i[1] = "BuyExecution" => Trader(i[2], r.holding)
  BY <1>2 DEF Trader
<1>3. CASE q = Failed(r) /\ r.going
  BY <1>1, <1>3
<1>4. CASE q = [r EXCEPT !.origin = {}] /\ r.going /\ i[1] = "ClearOrigin"
  BY <1>1, <1>4
<1>5. CASE q = [r EXCEPT !.origin = {Append(l, i[2]) : l \in r.origin}] /\ r.going
             /\ i[1] = "DescendOrigin"
  BY <1>1, <1>5
<1>6. CASE /\ q = [r EXCEPT !.holding = r.holding \cup {i[2]}] /\ r.going
            /\ \/ i[1] = "WithdrawAsset" /\ \E l \in r.origin : LocationToAccountId(l) # {}
               \/ i[1] = "ReserveAssetDeposited" /\ \E l \in r.origin : IsReserve(i[2], l)
  <2>1. \/ i[1] = "WithdrawAsset" /\ \E l \in r.origin : l \in {Account, Parent}
        \/ i[1] = "ReserveAssetDeposited" /\ i[2] \in r.origin
    BY <1>6 DEF LocationToAccountId, IsReserve
  <2> QED
    BY <1>1, <1>6, <2>1
<1>7. CASE q = [r EXCEPT !.dispatched = r.dispatched \cup
                 UNION {XcmOriginToTransactDispatchOrigin(l, i[2]) : l \in r.origin}] /\ r.going
             /\ i[1] = "Transact"
  BY <1>1, <1>7
<1> QED
  BY <1>2, <1>3, <1>4, <1>5, <1>6, <1>7 DEF Execute, UniversalAliases

\* Only the Defense body's location dispatches as the update origin, and only the
\* relay chain's as the relay chain.
LEMMA TransactOrigins ==
  ASSUME NEW l, NEW kind, NEW d \in XcmOriginToTransactDispatchOrigin(l, kind)
  PROVE  /\ UpdateOrigin(d) => l = <<"Defense">>
         /\ d = Relay => l = <<>>
<1>1. \/ \E a : d = Signed(a)
      \/ d \in {Relay, SiblingPara, Signed(Account)} /\ d[2] = l
      \/ d = Passed(l)
  BY Zenon DEF XcmOriginToTransactDispatchOrigin
<1>2. CASE \E a : d = Signed(a)
  BY <1>2 DEF Signed, UpdateOrigin, Root, Passed, Relay
<1>3. CASE d = Relay /\ d[2] = l
  BY <1>3 DEF UpdateOrigin, Root, Passed, Relay, Parent
<1>4. CASE d \in {SiblingPara, Signed(Account)}
  BY <1>4 DEF UpdateOrigin, Root, Passed, Relay, SiblingPara, Signed
<1>5. CASE d = Passed(l)
  BY <1>5 DEF UpdateOrigin, Root, Passed, Relay
<1> QED
  BY <1>1, <1>2, <1>3, <1>4, <1>5

LEMMA Appended ==
  ASSUME NEW S, NEW l \in Seq(S), NEW x \in S
  PROVE  /\ l = <<>> => Append(l, x)[1] = x
         /\ l # <<>> => Append(l, x)[1] = l[1]
         /\ Append(l, x) # <<>>
OBVIOUS

LEMMA AccountIsHere == Account # <<>> /\ Account[1] = "here"
<1>1. Here \in Seq({"here", "account"}) /\ Here # <<>> /\ Here[1] = "here"
  BY DEF Here
<1> QED
  BY <1>1, Appended DEF Account

LEMMA RegistersAtStart ==
  ASSUME NEW program, NEW origin \in {Parent, Sibling, Account}
  PROVE  Registers(origin) \in RegistersOf(program)
<1>1. "sibling" \in Places(program) /\ "here" \in Places(program) /\ "account" \in Places(program)
  BY DEF Places
<1>2. \A x \in Places(program) : <<x>> \in Seq(Places(program))
  OBVIOUS
<1>3. origin \in Seq(Places(program))
  <2>1. CASE origin = Parent
    BY <2>1 DEF Parent
  <2>2. CASE origin = Sibling
    BY <1>1, <1>2, <2>2 DEF Sibling
  <2>3. CASE origin = Account
    <3>1. Here \in Seq(Places(program))
      BY <1>1, <1>2 DEF Here
    <3> QED
      BY <1>1, <2>3, <3>1 DEF Account
  <2> QED
    BY <2>1, <2>2, <2>3
<1> QED
  BY <1>3 DEF Registers, RegistersOf

\* An account of this chain stays below it.
LEMMA AccountsDoNotGovern ==
  ASSUME NEW program, IsProgram(program), NEW d \in Dispatched(Account, program, TRUE)
  PROVE  ~UpdateOrigin(d) /\ d # Relay
<1> DEFINE n == Len(program)
           Below(r) == /\ \A l \in r.origin : l # <<>> /\ l[1] = "here"
                       /\ \A o \in r.dispatched : ~UpdateOrigin(o) /\ o # Relay
<1>0. PICK run : Executes(run, Registers(Account), program)
  BY RegistersAtStart, ExecuteRuns
<1>1. /\ run \in [0..n -> RegistersOf(program)]
      /\ run[0] = Registers(Account) /\ run[n] = FoldLeft(Execute, Registers(Account), program)
      /\ \A k \in 1..n : run[k] = Execute(run[k - 1], program[k])
  BY <1>0 DEF Executes
<1>2. n \in Nat /\ \A k \in 1..n : program[k][2] \in Places(program)
  BY InstructionAt
<1> DEFINE T == {k \in 0..n : Below(run[k])}
<1>3. 0 \in T
  BY <1>1, <1>2, AccountIsHere DEF Registers
<1>4. ASSUME NEW k \in 1..n, k - 1 \in T PROVE k \in T
  <2> DEFINE r == run[k - 1]
             q == run[k]
             i == program[k]
  <2>1. r \in RegistersOf(program) /\ q = Execute(r, i) /\ i[2] \in Places(program) /\ Below(r)
    BY <1>1, <1>2, <1>4
  <2>2. k \in 0..n
    OBVIOUS
  <2> HIDE DEF r, q, i
  <2>e. Effect(r, i, q)
    BY <2>1, ExecuteEffect
  <2>3. \A l \in q.origin : l # <<>> /\ l[1] = "here"
    <3>1. \A l \in r.origin : l \in Seq(Places(program)) /\ l # <<>> /\ l[1] = "here"
      BY <2>1 DEF RegistersOf
    <3>2. \A l \in r.origin : Append(l, i[2]) # <<>> /\ Append(l, i[2])[1] = "here"
      BY <2>1, <3>1, Appended
    <3>3. q.origin \in {r.origin, {}} \/ q.origin = {Append(l, i[2]) : l \in r.origin}
      BY <2>e DEF Effect
    <3> QED
      BY <3>1, <3>2, <3>3
  <2>4. \A o \in q.dispatched : ~UpdateOrigin(o) /\ o # Relay
    <3>1. \A l \in r.origin : l # <<>> /\ l # <<"Defense">>
      BY <2>1
    <3>2. \A l \in r.origin : \A o \in XcmOriginToTransactDispatchOrigin(l, i[2]) :
            ~UpdateOrigin(o) /\ o # Relay
      BY <3>1, TransactOrigins
    <3>3. \/ q.dispatched = r.dispatched
          \/ q.dispatched = r.dispatched \cup
               UNION {XcmOriginToTransactDispatchOrigin(l, i[2]) : l \in r.origin}
      BY <2>e DEF Effect
    <3> QED
      BY <2>1, <3>2, <3>3
  <2> QED
    BY <2>2, <2>3, <2>4 DEF q
<1>5. n \in T
  <2>1. 0..n \subseteq T
    <3> HIDE DEF T, n
    <3> QED
      BY <1>2, <1>3, <1>4, UpTo
  <2>2. n \in 0..n
    BY <1>2
  <2> HIDE DEF T
  <2> QED
    BY <2>1, <2>2
<1>6. d \in run[n].dispatched
  BY <1>1 DEF Dispatched
<1> QED
  BY <1>5, <1>6

\* The relay chain is its Defense body only when it has descended into it.
LEMMA RelayDescendsToGovern ==
  ASSUME NEW program, IsProgram(program), NEW d \in Dispatched(Parent, program, FALSE),
         UpdateOrigin(d)
  PROVE  <<"DescendOrigin", "Defense">> \in ToSet(program)
<1> DEFINE n == Len(program)
           Descended(x) == <<"DescendOrigin", x>> \in ToSet(program)
           Traced(r) == /\ \A l \in r.origin : l = <<>> \/ Descended(l[1])
                        /\ \A o \in r.dispatched : UpdateOrigin(o) => Descended("Defense")
<1>0. PICK run : Executes(run, Registers(Parent), program)
  BY RegistersAtStart, ExecuteRuns
<1>1. /\ run \in [0..n -> RegistersOf(program)]
      /\ run[0] = Registers(Parent) /\ run[n] = FoldLeft(Execute, Registers(Parent), program)
      /\ \A k \in 1..n : run[k] = Execute(run[k - 1], program[k])
  BY <1>0 DEF Executes
<1>2. n \in Nat /\ \A k \in 1..n :
        /\ program[k][2] \in Places(program) /\ program[k] \in ToSet(program)
        /\ program[k] = <<program[k][1], program[k][2]>>
  BY InstructionAt
<1> DEFINE T == {k \in 0..n : Traced(run[k])}
<1>3. 0 \in T
  BY <1>1, <1>2 DEF Registers, Parent
<1>4. ASSUME NEW k \in 1..n, k - 1 \in T PROVE k \in T
  <2> DEFINE r == run[k - 1]
             q == run[k]
             i == program[k]
  <2>1. /\ r \in RegistersOf(program) /\ q = Execute(r, i) /\ i[2] \in Places(program) /\ Traced(r)
        /\ i \in ToSet(program) /\ i = <<i[1], i[2]>>
    BY <1>1, <1>2, <1>4
  <2>2. k \in 0..n
    OBVIOUS
  <2> HIDE DEF r, q, i
  <2>e. Effect(r, i, q)
    BY <2>1, ExecuteEffect
  <2>3. \A l \in q.origin : l = <<>> \/ Descended(l[1])
    <3>1. \A l \in r.origin : l \in Seq(Places(program)) /\ (l = <<>> \/ Descended(l[1]))
      BY <2>1 DEF RegistersOf
    <3>2. i[1] = "DescendOrigin" => Descended(i[2])
      BY <2>1
    <3>3. \A l \in r.origin : Append(l, i[2])[1] = i[2] \/ Descended(Append(l, i[2])[1])
      BY <2>1, <3>1, Appended
    <3>4. \/ q.origin \in {r.origin, {}}
          \/ i[1] = "DescendOrigin" /\ q.origin = {Append(l, i[2]) : l \in r.origin}
      BY <2>e DEF Effect
    <3> HIDE DEF Descended
    <3> QED
      BY <3>1, <3>2, <3>3, <3>4
  <2>4. \A o \in q.dispatched : UpdateOrigin(o) => Descended("Defense")
    <3>1. \A l \in r.origin : l = <<"Defense">> => Descended("Defense")
      BY <2>1
    <3>2. \A l \in r.origin : \A o \in XcmOriginToTransactDispatchOrigin(l, i[2]) :
            UpdateOrigin(o) => l = <<"Defense">>
      BY TransactOrigins
    <3>3. \/ q.dispatched = r.dispatched
          \/ q.dispatched = r.dispatched \cup
               UNION {XcmOriginToTransactDispatchOrigin(l, i[2]) : l \in r.origin}
      BY <2>e DEF Effect
    <3> HIDE DEF Descended
    <3> QED
      BY <2>1, <3>1, <3>2, <3>3
  <2> QED
    BY <2>2, <2>3, <2>4 DEF q
<1>5. n \in T
  <2>1. 0..n \subseteq T
    <3> HIDE DEF T, n
    <3> QED
      BY <1>2, <1>3, <1>4, UpTo
  <2>2. n \in 0..n
    BY <1>2
  <2> HIDE DEF T
  <2> QED
    BY <2>1, <2>2
<1>6. d \in run[n].dispatched
  BY <1>1 DEF Dispatched
<1> QED
  BY <1>5, <1>6

\* What the barrier looks at is the program without a trailing topic.
LEMMA WithoutTopic ==
  ASSUME NEW program, IsProgram(program), NEW p, p = TrailingSetTopicAsId(program)
  PROVE  /\ p \in Seq(ToSet(program)) /\ Len(p) \in Nat /\ Len(p) <= Len(program)
         /\ \A i \in 1..Len(p) : p[i] = program[i]
<1>1. program \in Seq(ToSet(program)) /\ Len(program) \in Nat
  BY DEF IsProgram
<1>2. CASE p = program
  BY <1>1, <1>2
<1>3. CASE p = Front(program) /\ program # <<>>
  <2>1. Len(program) - 1 \in Nat /\ p = SubSeq(program, 1, Len(program) - 1)
    BY <1>1, <1>3 DEF Front
  <2> QED
    BY <1>1, <2>1
<1> QED
  BY <1>2, <1>3 DEF TrailingSetTopicAsId

\* The leading instructions that claim an origin.
LEMMA LeadingClaims ==
  ASSUME NEW program, IsProgram(program), NEW p, p = TrailingSetTopicAsId(program),
         NEW k, k = Max(OriginPrefixes(p))
  PROVE  /\ k \in Nat /\ k <= Len(p)
         /\ \A i \in 1..k : p[i][1] \in {"UniversalOrigin", "DescendOrigin"}
<1>1. OriginPrefixes(p) \in SUBSET (0..MaxPrefixes)
  BY DEF OriginPrefixes
<1>2. 0 \in OriginPrefixes(p)
  <2>1. 0 <= Len(p) /\ 0 \in 0..MaxPrefixes /\ 1..0 = {}
    BY WithoutTopic, PrefixesAreNatural
  <2> QED
    BY <2>1 DEF OriginPrefixes
<1>3. k \in OriginPrefixes(p)
  <2> HIDE DEF OriginPrefixes
  <2> QED
    BY <1>1, <1>2, PrefixesAreNatural, MaxOf
<1> QED
  BY <1>3, PrefixesAreNatural DEF OriginPrefixes

\* The origin claimed before the first of some instructions and after each.
Claims(run, r, s, P) ==
  /\ run \in [0..Len(s) -> Seq(P)]
  /\ run[0] = r /\ run[Len(s)] = FoldLeft(Claim, r, s)
  /\ \A k \in 1..Len(s) : run[k] = Claim(run[k - 1], s[k])

LEMMA ClaimRuns ==
  ASSUME NEW S, NEW s \in Seq(S), NEW P, \A k \in 1..Len(s) : s[k][2] \in P, NEW r \in Seq(P)
  PROVE  \E run : Claims(run, r, s, P)
<1> DEFINE n == Len(s)
           A == Seq(P)
           step == [k \in 1..n |-> [q \in A |-> Claim(q, s[k])]]
           Solves(it) == it = [R \in SUBSET (1..n) |->
             IF R = {} THEN r ELSE Claim(it[R \ {Max(R)}], s[Max(R)])]
           solution == CHOOSE it : Solves(it)
<1>1. n \in Nat /\ DOMAIN s = 1..n /\ r \in A /\ \A k \in 1..n : s[k][2] \in P
  OBVIOUS
<1>2. FoldLeft(Claim, r, s) = solution[1..n]
  BY <1>1 DEF FoldLeft, MapThenFoldSet
<1>3. step \in [1..n -> [A -> A]]
  <2>1. \A k \in 1..n : \A q \in A : Claim(q, s[k]) \in A
    BY <1>1 DEF Claim
  <2> HIDE DEF n, A
  <2> QED
    BY <2>1
<1>4. \A R \in SUBSET (1..n) : R # {} => Max(R) \in 1..n
  BY <1>1, MaxOfPositions
<1>5. \E it : Solves(it)
  <2>1. PICK it \in [SUBSET (1..n) -> A] : Folds(it, n, r, step)
    <3> HIDE DEF n, A, step
    <3> QED
      BY <1>1, <1>3, FoldExists, Zenon
  <2>2. ASSUME NEW R \in SUBSET (1..n), R # {}
        PROVE  step[Max(R)][it[R \ {Max(R)}]] = Claim(it[R \ {Max(R)}], s[Max(R)])
    <3>1. it[R \ {Max(R)}] \in A /\ Max(R) \in 1..n
      BY <1>4, <2>2
    <3> HIDE DEF n, A
    <3> QED
      BY <3>1
  <2>3. Solves(it)
    <3> HIDE DEF n, A, step
    <3> QED
      BY <2>1, <2>2 DEF Folds
  <2> QED
    BY <2>3
<1>6. Solves(solution)
  <2> HIDE DEF Solves
  <2> QED
    BY <1>5
<1>7. FoldsWithin(solution, n, A, r, step)
  <2> HIDE DEF solution, n, A
  <2>1. solution[{}] = r
    BY <1>6
  <2>2. ASSUME NEW R \in SUBSET (1..n), R # {}, solution[R \ {Max(R)}] \in A
        PROVE  solution[R] = step[Max(R)][solution[R \ {Max(R)}]]
    <3>1. solution[R] = Claim(solution[R \ {Max(R)}], s[Max(R)])
      BY <1>6, <2>2
    <3>2. Max(R) \in 1..n
      BY <1>4, <2>2
    <3> QED
      BY <2>2, <3>1, <3>2
  <2> QED
    BY <2>1, <2>2 DEF FoldsWithin
<1>8. PICK run \in [0..n -> A] : Runs(run, n, r, step, solution[1..n])
  <2> HIDE DEF n, A, step, solution
  <2> QED
    BY <1>1, <1>3, <1>7, FoldRuns, Zenon
<1>9. \A k \in 1..n : run[k] = Claim(run[k - 1], s[k])
  <2> SUFFICES ASSUME NEW k \in 1..n PROVE run[k] = Claim(run[k - 1], s[k])
    OBVIOUS
  <2>1. run[k] = step[k][run[k - 1]]
    <3> HIDE DEF step, solution
    <3> QED
      BY <1>8 DEF Runs
  <2>2. run[k - 1] \in A
    BY <1>1
  <2> HIDE DEF n, A, solution
  <2> QED
    BY <2>1, <2>2
<1>10. run[0] = r /\ run[n] = FoldLeft(Claim, r, s)
  <2> HIDE DEF solution
  <2> QED
    BY <1>2, <1>8 DEF Runs
<1>11. Claims(run, r, s, P)
  BY <1>9, <1>10 DEF Claims
<1> QED
  BY <1>11

\* A location that leads into the sibling chain.
FromSibling(l) == l # <<>> /\ l[1] = "sibling"

LEMMA AppendedFromSibling ==
  ASSUME NEW S, NEW l \in Seq(S), NEW x \in S, FromSibling(l)
  PROVE  FromSibling(Append(l, x))
BY Appended DEF FromSibling

\* A sibling is believed to be the relay chain only if it claims a universal origin.
LEMMA SiblingClaims ==
  ASSUME NEW S, NEW s \in Seq(S), NEW P, \A k \in 1..Len(s) : s[k][2] \in P, Sibling \in Seq(P),
         ParentOrParentsPlurality(FoldLeft(Claim, Sibling, s))
  PROVE  \E u \in 1..Len(s) : s[u][1] = "UniversalOrigin"
<1> SUFFICES ASSUME \A u \in 1..Len(s) : s[u][1] # "UniversalOrigin" PROVE FALSE
  OBVIOUS
<1> DEFINE n == Len(s)
<1>1. PICK run : Claims(run, Sibling, s, P)
  BY ClaimRuns
<1>2. /\ n \in Nat /\ run \in [0..n -> Seq(P)]
      /\ run[0] = Sibling /\ run[n] = FoldLeft(Claim, Sibling, s)
      /\ \A k \in 1..n : run[k] = Claim(run[k - 1], s[k])
  BY <1>1 DEF Claims
<1> DEFINE T == {k \in 0..n : FromSibling(run[k])}
<1>3. 0 \in T
  BY <1>2 DEF FromSibling, Sibling
<1>4. ASSUME NEW k \in 1..n, k - 1 \in T PROVE k \in T
  <2>1. k - 1 \in 0..n /\ k \in 0..n /\ k \in 1..Len(s)
    BY <1>2
  <2>2. run[k] = Claim(run[k - 1], s[k]) /\ run[k - 1] \in Seq(P) /\ s[k][2] \in P
    BY <1>2, <2>1
  <2>3. FromSibling(run[k - 1])
    BY <1>4
  <2>4. s[k][1] # "UniversalOrigin"
    BY <2>1
  <2> DEFINE l == run[k - 1]
             x == s[k][2]
  <2>5. run[k] = Append(l, x) /\ l \in Seq(P) /\ x \in P /\ FromSibling(l)
    BY <2>2, <2>3, <2>4 DEF Claim
  <2> HIDE DEF l, x
  <2>6. FromSibling(Append(l, x))
    BY <2>5, AppendedFromSibling
  <2> QED
    BY <2>1, <2>5, <2>6
<1>5. FromSibling(run[n])
  <2>1. 0..n \subseteq T
    <3> HIDE DEF T, n
    <3> QED
      BY <1>2, <1>3, <1>4, UpTo
  <2>2. n \in 0..n
    BY <1>2
  <2> QED
    BY <2>1, <2>2
<1>6. run[n] = <<>> \/ run[n] = <<"Defense">> \/ run[n] = <<"Executive">>
  BY <1>2 DEF ParentOrParentsPlurality, Parent, Plurality
<1> QED
  BY <1>5, <1>6 DEF FromSibling

\* A program that claims a universal origin has failed before it can dispatch.
LEMMA UniversalClaimFails ==
  ASSUME NEW program, IsProgram(program), NEW u \in 1..Len(program),
         program[u][1] = "UniversalOrigin",
         \A i \in 1..u : program[i][1] \in {"UniversalOrigin", "DescendOrigin"}
  PROVE  FoldLeft(Execute, Registers(Sibling), program).dispatched = {}
<1> DEFINE n == Len(program)
<1>0. PICK run : Executes(run, Registers(Sibling), program)
  BY RegistersAtStart, ExecuteRuns
<1>1. /\ run \in [0..n -> RegistersOf(program)]
      /\ run[0] = Registers(Sibling) /\ run[n] = FoldLeft(Execute, Registers(Sibling), program)
      /\ \A k \in 1..n : run[k] = Execute(run[k - 1], program[k])
  BY <1>0 DEF Executes
<1>2. n \in Nat /\ \A k \in 1..n : program[k][2] \in Places(program)
  BY InstructionAt
<1> DEFINE T == {k \in 0..n : run[k].dispatched = {} /\ (k >= u => ~run[k].going)}
<1>3. 0 \in T
  BY <1>1, <1>2 DEF Registers
<1>4. ASSUME NEW k \in 1..n, k - 1 \in T PROVE k \in T
  <2> DEFINE r == run[k - 1]
             q == run[k]
             i == program[k]
  <2>1. /\ r \in RegistersOf(program) /\ q = Execute(r, i) /\ i[2] \in Places(program)
        /\ r.dispatched = {} /\ (k - 1 >= u => ~r.going)
    BY <1>1, <1>2, <1>4
  <2>2. /\ k \in 0..n
        /\ k < u => i[1] # "Transact"
        /\ k = u => i[1] = "UniversalOrigin"
    <3>1. k < u => k \in 1..u
      BY <1>2
    <3> QED
      BY <1>2, <3>1
  <2>3. k < u \/ k = u \/ k - 1 >= u
    BY <1>2
  <2> HIDE DEF r, q, i
  <2>4. Effect(r, i, q)
    BY <2>1, ExecuteEffect
  <2>5. k >= u => ~q.going
    BY <2>1, <2>2, <2>3, <2>4 DEF Effect
  <2>6. q.dispatched = {}
    BY <2>1, <2>2, <2>3, <2>4 DEF Effect
  <2> QED
    BY <2>2, <2>5, <2>6 DEF q
<1>5. n \in T
  <2>1. 0..n \subseteq T
    <3> HIDE DEF T, n
    <3> QED
      BY <1>2, <1>3, <1>4, UpTo
  <2>2. n \in 0..n
    BY <1>2
  <2> HIDE DEF T
  <2> QED
    BY <2>1, <2>2
<1> QED
  BY <1>1, <1>5

\* A sibling cannot pay: it has no account here, and its own asset buys nothing.
LEMMA SiblingCannotPay ==
  ASSUME NEW program, IsProgram(program), NEW k \in Nat, NEW m \in Nat,
         m >= 2, k + m <= Len(program),
         \A i \in 1..k : program[i][1] \in {"UniversalOrigin", "DescendOrigin"},
         program[k + 1][1] \in {"WithdrawAsset", "ReserveAssetDeposited"},
         \A i \in (k + 2)..(k + m - 1) : program[i][1] = "ClearOrigin",
         program[k + m][1] = "BuyExecution"
  PROVE  FoldLeft(Execute, Registers(Sibling), program).dispatched = {}
<1> DEFINE n == Len(program)
           Poor(r, j) ==
             /\ r.dispatched = {}
             /\ j <= k => \A l \in r.origin : FromSibling(l)
             /\ j < k + m => Parent \notin r.holding
             /\ j >= k + m => ~r.going
<1>0. PICK run : Executes(run, Registers(Sibling), program)
  BY RegistersAtStart, ExecuteRuns
<1>1. /\ run \in [0..n -> RegistersOf(program)]
      /\ run[0] = Registers(Sibling) /\ run[n] = FoldLeft(Execute, Registers(Sibling), program)
      /\ \A j \in 1..n : run[j] = Execute(run[j - 1], program[j])
  BY <1>0 DEF Executes
<1>2. n \in Nat /\ \A j \in 1..n : program[j][2] \in Places(program)
  BY InstructionAt
<1> DEFINE T == {j \in 0..n : Poor(run[j], j)}
<1>3. 0 \in T
  <2>1. ~(0 >= k + m) /\ 0 \in 0..n
    BY <1>2
  <2> QED
    BY <1>1, <2>1 DEF Registers, FromSibling, Sibling
<1>4. ASSUME NEW j \in 1..n, j - 1 \in T PROVE j \in T
  <2> DEFINE r == run[j - 1]
             q == run[j]
             i == program[j]
  <2>1. r \in RegistersOf(program) /\ q = Execute(r, i) /\ i[2] \in Places(program)
    BY <1>1, <1>2, <1>4
  <2>2. Poor(r, j - 1)
    BY <1>4
  <2>3. \/ j <= k /\ i[1] \in {"UniversalOrigin", "DescendOrigin"}
        \/ j = k + 1 /\ i[1] \in {"WithdrawAsset", "ReserveAssetDeposited"}
        \/ j > k + 1 /\ j < k + m /\ i[1] = "ClearOrigin"
        \/ j = k + m /\ i[1] = "BuyExecution"
        \/ j > k + m
    <3>1. j <= k => j \in 1..k
      OBVIOUS
    <3>2. j > k + 1 /\ j < k + m => j \in (k + 2)..(k + m - 1)
      OBVIOUS
    <3>3. j <= k \/ j = k + 1 \/ (j > k + 1 /\ j < k + m) \/ j = k + m \/ j > k + m
      OBVIOUS
    <3> QED
      BY <3>1, <3>2, <3>3
  <2> HIDE DEF r, q, i
  <2>4. Effect(r, i, q)
    BY <2>1, ExecuteEffect
  <2>5. \A l \in r.origin : l \in Seq(Places(program))
    BY <2>1 DEF RegistersOf
  <2>6. CASE j <= k /\ i[1] \in {"UniversalOrigin", "DescendOrigin"}
    <3>1. j - 1 <= k /\ j - 1 < k + m /\ ~(j >= k + m)
      BY <2>6
    <3>2. q.dispatched = {} /\ q.holding = r.holding
      BY <2>2, <2>4, <2>6 DEF Effect
    <3>3. \A l \in r.origin : FromSibling(l)
      BY <2>2, <3>1
    <3>4. \A l \in r.origin : FromSibling(Append(l, i[2]))
      BY <2>1, <2>5, <3>3, AppendedFromSibling
    <3>5. q.origin \in {r.origin, {}} \/ q.origin = {Append(l, i[2]) : l \in r.origin}
      BY <2>4 DEF Effect
    <3>6. \A l \in q.origin : FromSibling(l)
      <4>1. CASE q.origin \in {r.origin, {}}
        BY <3>3, <4>1
      <4>2. CASE q.origin = {Append(l, i[2]) : l \in r.origin}
        BY <3>4, <4>2, Zenon
      <4> QED
        BY <3>5, <4>1, <4>2
    <3> QED
      BY <2>2, <3>1, <3>2, <3>6 DEF q
  <2>7. CASE j = k + 1 /\ i[1] \in {"WithdrawAsset", "ReserveAssetDeposited"}
    <3>1. j - 1 <= k /\ j - 1 < k + m /\ ~(j <= k) /\ ~(j >= k + m)
      BY <2>7
    <3>2. \A l \in r.origin : FromSibling(l) /\ l # Parent /\ l # Account
      BY <2>2, <3>1, AccountIsHere DEF FromSibling, Parent
    <3>3. q.dispatched = {} /\ Parent \notin q.holding
      BY <2>2, <2>4, <2>7, <3>1, <3>2 DEF Effect
    <3> QED
      BY <3>1, <3>3 DEF q
  <2>8. CASE j > k + 1 /\ j < k + m /\ i[1] = "ClearOrigin"
    <3>1. j - 1 < k + m /\ ~(j <= k) /\ ~(j >= k + m)
      BY <2>8
    <3>2. q.dispatched = {} /\ Parent \notin q.holding
      BY <2>2, <2>4, <2>8, <3>1 DEF Effect
    <3> QED
      BY <3>1, <3>2 DEF q
  <2>9. CASE j = k + m /\ i[1] = "BuyExecution"
    <3>1. j - 1 < k + m /\ ~(j <= k) /\ ~(j < k + m)
      BY <2>9
    <3>2. q.dispatched = {} /\ ~q.going
      BY <2>2, <2>4, <2>9, <3>1 DEF Effect
    <3> QED
      BY <3>1, <3>2 DEF q
  <2>10. CASE j > k + m
    <3>1. j - 1 >= k + m /\ ~(j <= k) /\ ~(j < k + m)
      BY <2>10
    <3>2. q.dispatched = {} /\ ~q.going
      BY <2>2, <2>4, <3>1 DEF Effect
    <3> QED
      BY <3>1, <3>2 DEF q
  <2> QED
    BY <2>3, <2>6, <2>7, <2>8, <2>9, <2>10
<1>5. n \in T
  <2>1. 0..n \subseteq T
    <3> HIDE DEF T, n
    <3> QED
      BY <1>2, <1>3, <1>4, UpTo
  <2>2. n \in 0..n
    BY <1>2
  <2> HIDE DEF T
  <2> QED
    BY <2>1, <2>2
<1> QED
  BY <1>1, <1>5

LEMMA SiblingDispatchesNothing ==
  ASSUME NEW program, IsProgram(program)
  PROVE  Dispatched(Sibling, program, FALSE) = {}
<1> SUFFICES ASSUME Barrier(Sibling, program, FALSE)
             PROVE  FoldLeft(Execute, Registers(Sibling), program).dispatched = {}
  BY DEF Dispatched
<1> DEFINE p == TrailingSetTopicAsId(program)
           k == Max(OriginPrefixes(p))
           lead == SubSeq(p, 1, k)
           rest == SubSeq(p, k + 1, Len(p))
           computed == FoldLeft(Claim, Sibling, lead)
<1>1. \/ AllowTopLevelPaidExecutionFrom(rest)
      \/ AllowExplicitUnpaidExecutionFrom(computed, rest)
  BY DEF Barrier, WithComputedOrigin
<1>2. /\ p \in Seq(ToSet(program)) /\ Len(p) \in Nat /\ Len(p) <= Len(program)
      /\ \A i \in 1..Len(p) : p[i] = program[i]
  <2> HIDE DEF p
  <2> QED
    BY WithoutTopic DEF p
<1>3. /\ k \in Nat /\ k <= Len(p)
      /\ \A i \in 1..k : p[i][1] \in {"UniversalOrigin", "DescendOrigin"}
  <2> HIDE DEF p, k
  <2> QED
    BY LeadingClaims DEF p, k
<1>4. Len(program) \in Nat
  BY InstructionAt
<1> HIDE DEF p, k
<1>5. /\ Len(rest) = Len(p) - k
      /\ \A i \in 1..(Len(p) - k) : rest[i] = p[k + i]
  BY <1>2, <1>3
<1>6. /\ lead \in Seq(ToSet(program)) /\ Len(lead) = k
      /\ \A i \in 1..k : lead[i] = p[i]
  BY <1>2, <1>3
<1>7. \A i \in 1..k : program[i][1] \in {"UniversalOrigin", "DescendOrigin"}
  <2> SUFFICES ASSUME NEW i \in 1..k
               PROVE  program[i][1] \in {"UniversalOrigin", "DescendOrigin"}
    OBVIOUS
  <2>1. i \in 1..Len(p)
    BY <1>2, <1>3
  <2> QED
    BY <1>2, <1>3, <2>1
<1>8. ASSUME NEW i \in 1..Len(rest)
      PROVE  rest[i] = program[k + i] /\ k + i \in 1..Len(program)
  <2>1. i \in 1..(Len(p) - k) /\ k + i \in 1..Len(p) /\ k + i \in 1..Len(program)
    BY <1>2, <1>3, <1>4, <1>5
  <2> HIDE DEF rest
  <2> QED
    BY <1>2, <1>5, <2>1
<1> HIDE DEF rest, lead, computed
<1>9. CASE AllowTopLevelPaidExecutionFrom(rest)
  <2>1. Len(rest) \in Nat /\ DOMAIN rest = 1..Len(rest)
    BY <1>2, <1>3, <1>5 DEF rest
  <2>2. PICK m \in 2..5 :
          /\ m \in DOMAIN rest /\ rest[m][1] = "BuyExecution"
          /\ \A i \in 2..(m - 1) : rest[i][1] = "ClearOrigin"
    BY <1>9 DEF AllowTopLevelPaidExecutionFrom
  <2>3. rest[1][1] \in {"WithdrawAsset", "ReserveAssetDeposited"}
    BY <1>9 DEF AllowTopLevelPaidExecutionFrom
  <2>4. m \in 1..Len(rest) /\ 1 \in 1..Len(rest) /\ m \in Nat /\ m >= 2
    BY <2>1, <2>2
  <2>5. /\ program[k + 1][1] \in {"WithdrawAsset", "ReserveAssetDeposited"}
        /\ program[k + m][1] = "BuyExecution" /\ k + m <= Len(program)
    BY <1>3, <1>4, <1>8, <2>2, <2>3, <2>4
  <2>6. \A j \in (k + 2)..(k + m - 1) : program[j][1] = "ClearOrigin"
    <3> SUFFICES ASSUME NEW j \in (k + 2)..(k + m - 1) PROVE program[j][1] = "ClearOrigin"
      OBVIOUS
    <3>1. j - k \in 2..(m - 1) /\ j - k \in 1..Len(rest) /\ k + (j - k) = j
      BY <1>3, <2>1, <2>4
    <3>2. rest[j - k] = program[k + (j - k)]
      BY <1>8, <3>1
    <3> QED
      BY <2>2, <3>1, <3>2
  <2> QED
    BY <1>3, <1>7, <2>4, <2>5, <2>6, SiblingCannotPay
<1>10. CASE AllowExplicitUnpaidExecutionFrom(computed, rest)
  <2>1. ParentOrParentsPlurality(FoldLeft(Claim, Sibling, lead))
    BY <1>10 DEF AllowExplicitUnpaidExecutionFrom, computed
  <2>2. \A i \in 1..k : i \in 1..Len(program) /\ lead[i] = program[i]
    <3> SUFFICES ASSUME NEW i \in 1..k PROVE i \in 1..Len(program) /\ lead[i] = program[i]
      OBVIOUS
    <3>1. i \in 1..Len(p) /\ i \in 1..Len(program)
      BY <1>2, <1>3, <1>4
    <3> QED
      BY <1>2, <1>6, <3>1
  <2>3. \A i \in 1..Len(lead) : lead[i][2] \in Places(program)
    BY <1>6, <2>2, InstructionAt
  <2>4. Sibling \in Seq(Places(program))
    <3>1. "sibling" \in Places(program)
      BY DEF Places
    <3> QED
      BY <3>1 DEF Sibling
  <2>5. PICK u \in 1..Len(lead) : lead[u][1] = "UniversalOrigin"
    BY <1>6, <2>1, <2>3, <2>4, SiblingClaims
  <2>6. u \in 1..Len(program) /\ program[u][1] = "UniversalOrigin"
    BY <1>6, <2>2, <2>5
  <2>7. \A i \in 1..u : program[i][1] \in {"UniversalOrigin", "DescendOrigin"}
    <3>1. 1..u \subseteq 1..k
      BY <1>3, <1>6
    <3> QED
      BY <1>7, <3>1
  <2> QED
    BY <2>6, <2>7, UniversalClaimFails
<1> QED
  BY <1>1, <1>9, <1>10 DEF rest, computed, lead

LEMMA ProgramsAreGovernedByRelay ==
  ASSUME NEW program, IsProgram(program)
  PROVE  GovernedByRelay(program)
BY SiblingDispatchesNothing, AccountsDoNotGovern, RelayDescendsToGovern DEF GovernedByRelay

\* No program governs for anyone but the relay chain, however long and whatever it
\* claims: the barrier lets a sibling run what claims to be the relay's
\* (xcm_config.rs:124), and the executor's refusal of such claims (141) and of a
\* sibling's payment (100, 129) is what stops it.
THEOREM OnlyTheRelayGoverns == Spec => []OnlyRelayGoverns
<1>1. BlockInv => OnlyRelayGoverns
  <2> SUFFICES ASSUME BlockInv,
                      NEW program \in IF now = 0 THEN Programs
                                      ELSE {queue[k].program : k \in DOMAIN queue}
               PROVE  GovernedByRelay(program)
    BY DEF OnlyRelayGoverns
  <2>1. queue \in Seq(Messages)
    BY DEF BlockInv, QueueInv
  <2>2. \A k \in DOMAIN queue : queue[k] \in Messages
    BY <2>1
  <2>3. program \in Programs \cup {m.program : m \in Messages}
    BY <2>2
  <2>4. IsProgram(program)
    BY <2>3, ProgramsAreLists DEF IsProgram
  <2> QED
    BY <2>4, ProgramsAreGovernedByRelay
<1> QED
  BY <1>1, BlockInvariant, PTL
=============================================================================
