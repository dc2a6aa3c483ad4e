------------------------------ MODULE Collators ------------------------------
(***************************************************************************)
(* Who authors the parachain's blocks: the collator selection, session,    *)
(* aura and authorship pallets as parachain-runtime/src/lib.rs configures  *)
(* and orders them, from the genesis of node/src/chain_spec.rs.  A set of  *)
(* collators chosen at the end of a session is queued during the next and  *)
(* authors in the one after.                                               *)
(*                                                                         *)
(* The pallets are library code; their calls are modelled with the checks  *)
(* that the configured limits enter.  Deposits are left out: they decide   *)
(* which candidates come first, which is any choice here.  The keys of an  *)
(* account are represented by the account.                                 *)
(***************************************************************************)
EXTENDS Naturals, SequencesExt

CONSTANTS
  Accounts,
  GenesisInvulnerables,   \* a sequence; Alice and Bob
  Period,                 \* blocks of a session
  KickThreshold,          \* blocks after which a candidate is lazy
  MinEligibleCollators, MaxCandidates, MaxInvulnerables

ASSUME PeriodIsPositive == Period \in Nat \ {0}
ASSUME AccountsAreFinite == IsFiniteSet(Accounts)
ASSUME LimitsAreNatural == {MinEligibleCollators, MaxCandidates, MaxInvulnerables} \subseteq Nat

\* "KickThreshold = Period": a session at least.
ASSUME ThresholdCoversSession == KickThreshold \in Nat /\ KickThreshold >= Period
ASSUME GenesisHasCollators ==
  GenesisInvulnerables \in Seq(Accounts) \ {<<>>} /\ IsInjective(GenesisInvulnerables)

VARIABLES
  now,            \* the number of the block being executed
  invulnerables, candidates,
  desired,        \* number of candidates that are wanted
  last,           \* LastAuthoredBlock
  registered,     \* accounts with session keys
  validators,     \* of the current session, in order
  queued,         \* of the next one
  authorities,    \* aura's, in order
  authors         \* who has authored since the session began

collatorVars ==
  <<now, invulnerables, candidates, desired, last, registered, validators, queued, authorities, authors>>

\* Nobody wants candidates until the update origin says how many.
testnet_genesis ==
  /\ now = 0
  /\ invulnerables = ToSet(GenesisInvulnerables) /\ candidates = {} /\ desired = 0
  /\ last = [a \in Accounts |-> 0]
  /\ registered = invulnerables
  /\ validators = GenesisInvulnerables
  /\ queued = GenesisInvulnerables
  /\ authorities = GenesisInvulnerables
  /\ authors = {}

Min2(m, n) == IF m < n THEN m ELSE n
eligible_collators == Cardinality(invulnerables) + Cardinality(candidates)

\* A call leaves the sessions alone.
SessionsUnchanged == UNCHANGED <<now, validators, queued, authorities, authors>>

-----------------------------------------------------------------------------
(* The beginning of a block *)

\* Mutated: blocks are not noted.
note_author_nobody(i) == last

\* The author is found by its place among the authorities, at the same place
\* among the validators of the session.
note_author(i) ==
  IF i \in DOMAIN validators THEN [last EXCEPT ![validators[i]] = now + 1] ELSE last

Lazy(written) ==
  {c \in candidates \ invulnerables : written[c] + KickThreshold <= now + 1}

\* What the minimum allows to remove from a number of collators.
Spare(eligible) == IF eligible > MinEligibleCollators THEN eligible - MinEligibleCollators ELSE 0

\* kick_stale_candidates: along the list, a lazy candidate goes while the count
\* is above the minimum; one that is invulnerable goes in any case, and counts
\* twice until the list has come to it.
Kicked(written) ==
  LET doubles == Cardinality(candidates \cap invulnerables)
      lazy    == Cardinality(Lazy(written))
  IN  {k \in SUBSET Lazy(written) :
         Cardinality(k) \in Min2(lazy, Spare(eligible_collators - doubles))..Min2(lazy, Spare(eligible_collators))}

\* assemble_collators: the invulnerables and then the wanted candidates, of
\* which the session keeps those with keys.
Assembled(remaining) ==
  UNION {{s \in SetToSeqs((invulnerables \cup chosen) \cap registered) :
            \A i, j \in DOMAIN s : s[i] \in chosen /\ s[j] \in invulnerables => j < i} :
         chosen \in {c \in SUBSET remaining : Cardinality(c) = Min2(desired, Cardinality(remaining))}}

\* Aura ignores a change to nobody.
change_authorities(new) == IF new = <<>> THEN authorities ELSE new

\* rotate_session: the queued collators become the validators and authorities,
\* and the next ones are queued.
RotateSession(written) ==
  /\ validators' = queued
  /\ authorities' = change_authorities(queued)
  /\ \E kicked \in Kicked(written) :
       LET remaining == candidates \ (invulnerables \cup kicked) IN
         /\ candidates' = remaining
         /\ last' = [a \in Accounts |-> IF a \in kicked THEN 0 ELSE written[a]]
         /\ queued' \in Assembled(remaining)
  /\ authors' = {}

\* A block by the i-th authority: authorship notes its author before a session
\* ends and rotates, as the order of the pallets has it.
AuthorBlock(i) ==
  /\ i \in DOMAIN authorities
  /\ now' = now + 1
  /\ IF (now + 1) % Period = 0
       THEN RotateSession(note_author(i))
       ELSE /\ last' = note_author(i)
            /\ authors' = authors \cup {authorities[i]}
            /\ UNCHANGED <<candidates, validators, queued, authorities>>
  /\ UNCHANGED <<invulnerables, desired, registered>>

-----------------------------------------------------------------------------
(* The calls of a signed account *)

set_keys(a) ==
  /\ registered' = registered \cup {a}
  /\ UNCHANGED <<candidates, last>>

purge_keys(a) ==
  /\ a \in registered
  /\ registered' = registered \ {a}
  /\ UNCHANGED <<candidates, last>>

register_as_candidate(a) ==
  /\ Cardinality(candidates) < MaxCandidates
  /\ a \in registered \ (invulnerables \cup candidates)
  /\ candidates' = candidates \cup {a}
  /\ last' = [last EXCEPT ![a] = now + KickThreshold]
  /\ UNCHANGED registered

\* A higher deposit takes the place of another candidate.
take_candidate_slot(a, target) ==
  /\ a \in registered \ (invulnerables \cup candidates)
  /\ target \in candidates
  /\ candidates' = (candidates \ {target}) \cup {a}
  /\ last' = [last EXCEPT ![a] = now + KickThreshold, ![target] = 0]
  /\ UNCHANGED registered

\* Mutated: at the minimum one may still leave.
leave_intent_at_minimum(a) ==
  /\ eligible_collators >= MinEligibleCollators
  /\ a \in candidates
  /\ candidates' = candidates \ {a}
  /\ last' = [last EXCEPT ![a] = 0]
  /\ UNCHANGED registered

leave_intent(a) ==
  /\ eligible_collators > MinEligibleCollators
  /\ a \in candidates
  /\ candidates' = candidates \ {a}
  /\ last' = [last EXCEPT ![a] = 0]
  /\ UNCHANGED registered

SignedCall(a) ==
  /\ \/ set_keys(a) \/ purge_keys(a) \/ register_as_candidate(a) \/ leave_intent(a)
     \/ \E target \in Accounts : take_candidate_slot(a, target)
  /\ UNCHANGED <<invulnerables, desired>>
  /\ SessionsUnchanged

-----------------------------------------------------------------------------
(* The calls of the update origin, <<name, argument>> *)

\* An empty list needs enough candidates, whatever a list without keys is
\* filtered to.
Accepted(call) ==
  CASE call[1] = "set_invulnerables" ->
         /\ call[2] = {} => Cardinality(candidates) >= MinEligibleCollators
         /\ Cardinality(call[2]) <= MaxInvulnerables
    [] call[1] = "add_invulnerable" ->
         /\ call[2] \in registered \ invulnerables
         /\ Cardinality(invulnerables) < MaxInvulnerables
    [] call[1] = "remove_invulnerable" ->
         call[2] \in invulnerables /\ eligible_collators > MinEligibleCollators
    [] call[1] = "set_desired_candidates" -> TRUE

UpdateCall(call) ==
  /\ Accepted(call)
  /\ invulnerables' =
       CASE call[1] = "set_invulnerables" -> call[2] \cap registered
         [] call[1] = "add_invulnerable" -> invulnerables \cup {call[2]}
         [] call[1] = "remove_invulnerable" -> invulnerables \ {call[2]}
         [] OTHER -> invulnerables
  /\ candidates' = IF call[1] = "add_invulnerable" THEN candidates \ {call[2]} ELSE candidates
  /\ desired' = IF call[1] = "set_desired_candidates" THEN call[2] ELSE desired
  /\ UNCHANGED <<last, registered>>
  /\ SessionsUnchanged
=============================================================================
