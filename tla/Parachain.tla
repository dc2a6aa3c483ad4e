------------------------------ MODULE Parachain ------------------------------
(***************************************************************************)
(* The parachain runtime (parachain-runtime/src/lib.rs) block by block:    *)
(* the hooks of its pallets in construct_runtime's order, the authorship   *)
(* and sessions of Collators first and the message queue, which executes   *)
(* the programs of Xcm, last; then the inherent that brings new messages;  *)
(* then extrinsics, as long as CheckWeight of BlockWeights admits them.    *)
(*                                                                         *)
(* Nonces and fees are left out: they decide which extrinsics come, not    *)
(* what they may do.  A call that fails is an extrinsic like any other.    *)
(***************************************************************************)
EXTENDS Collators, Xcm, BlockWeights

CONSTANTS
  Messages,         \* [from, program, call] that may arrive
  Programs,         \* what is asked of every program is asked of these
  Calls,            \* calls of the update origin that sudo makes
  ExtrinsicWeights, \* declared weights
  UnitWeightCost,   \* of an instruction
  MaxQueue,         \* bound: messages waiting
  MaxExtrinsics,    \* bound: extrinsics, in all
  MaxBlock          \* bound: number of blocks

ASSUME UnitIsPositive == UnitWeightCost \in Nat \ {0}
ASSUME ExtrinsicWeightsAreNatural == ExtrinsicWeights \subseteq Nat
ASSUME QueueAndExtrinsicsAreBounded == MaxQueue \in Nat /\ MaxExtrinsics \in Nat
ASSUME DesiredAreNatural ==
  \A call \in Calls \cup {m.call : m \in Messages} :
    call[1] = "set_desired_candidates" => call[2] \in Nat

ASSUME ProgramsAreLists ==
  \A program \in Programs \cup {m.program : m \in Messages} :
    program \in Seq(ToSet(program)) /\ \A i \in ToSet(program) : i = <<i[1], i[2]>>

VARIABLES
  phase,      \* of the block: hooks, inherents, extrinsics
  consumed,   \* its weight so far, by class
  served,     \* of which the message queue has used
  queue,      \* messages waiting, in order of arrival
  extrinsics  \* number of extrinsics so far

blockVars == <<phase, consumed, served, extrinsics>>
vars == <<collatorVars, blockVars, queue>>

MessageQueueServiceWeight == (35 * MAXIMUM_BLOCK_WEIGHT) \div 100

Weigher(program) == Len(program) * UnitWeightCost

Init ==
  /\ testnet_genesis
  /\ phase = "extrinsics"
  /\ consumed = Initialized(0)
  /\ served = 0
  /\ queue = <<>>
  /\ extrinsics = 0

-----------------------------------------------------------------------------
(* The hooks *)

\* initialize_block, by the i-th authority: the block so far is complete.
InitializeBlock(i) ==
  /\ phase = "extrinsics"
  /\ now < MaxBlock
  /\ AuthorBlock(i)
  /\ phase' = "hooks"
  /\ consumed' = Initialized(0)
  /\ served' = 0
  /\ UNCHANGED <<queue, extrinsics>>

\* A message dispatches its call with every origin it has a Transact for; the
\* call is made if one of them is the update origin and it is accepted.
Dispatch(m) ==
  IF Accepted(m.call) /\ \E o \in Dispatched(m.from, m.program, FALSE) : UpdateOrigin(o)
    THEN UpdateCall(m.call)
    ELSE UNCHANGED collatorVars

\* Each sender has a queue of its own.
Foremost == {k \in DOMAIN queue : \A j \in 1..(k - 1) : queue[j].from # queue[k].from}

TooHeavy(m) == Weigher(m.program) > MessageQueueServiceWeight
Fits(m) == served + Weigher(m.program) <= MessageQueueServiceWeight

\* Mutated: the share of the block is not looked at.
ProcessUnmetered ==
  /\ phase = "hooks"
  /\ \E k \in Foremost :
       /\ ~TooHeavy(queue[k])
       /\ Dispatch(queue[k])
       /\ served' = served + Weigher(queue[k].program)
       /\ consumed' = [consumed EXCEPT !.Mandatory = @ + Weigher(queue[k].program)]
       /\ queue' = RemoveAt(queue, k)
  /\ UNCHANGED <<phase, extrinsics>>

\* service_queues: a message runs if the queue's share of the block still has
\* its weight.
ProcessMessage ==
  /\ phase = "hooks"
  /\ \E k \in Foremost :
       /\ Fits(queue[k])
       /\ Dispatch(queue[k])
       /\ served' = served + Weigher(queue[k].program)
       /\ consumed' = [consumed EXCEPT !.Mandatory = @ + Weigher(queue[k].program)]
       /\ queue' = RemoveAt(queue, k)
  /\ UNCHANGED <<phase, extrinsics>>

\* One heavier than the whole share is set aside, for somebody to execute by
\* hand.
SetAside ==
  /\ phase = "hooks"
  /\ \E k \in Foremost : TooHeavy(queue[k]) /\ queue' = RemoveAt(queue, k)
  /\ UNCHANGED <<collatorVars, blockVars>>

\* Nothing that waits fits: the hooks end.
EndHooks ==
  /\ phase = "hooks"
  /\ \A k \in Foremost : ~TooHeavy(queue[k]) /\ ~Fits(queue[k])
  /\ phase' = "inherents"
  /\ UNCHANGED <<collatorVars, consumed, served, queue, extrinsics>>

\* set_validation_data brings the messages that the relay chain has.
SetValidationData ==
  /\ phase = "inherents"
  /\ \E batch \in BoundedSeq(Messages, MaxQueue - Len(queue)) : queue' = queue \o batch
  /\ phase' = "extrinsics"
  /\ UNCHANGED <<collatorVars, consumed, served, extrinsics>>

-----------------------------------------------------------------------------
(* The extrinsics *)

\* apply_extrinsic: an extrinsic that CheckWeight does not admit is not in the
\* block.  What it did not use is given back.
ApplyExtrinsic(class) ==
  /\ phase = "extrinsics" /\ now > 0
  /\ extrinsics < MaxExtrinsics
  /\ \E weight \in ExtrinsicWeights :
       /\ CheckWeight(consumed, class, weight)
       /\ \E unspent \in {0, weight} :
            consumed' = Refunded(Accrued(consumed, class, weight), class, unspent)
  /\ extrinsics' = extrinsics + 1
  /\ UNCHANGED <<phase, served, queue>>

SignedExtrinsic ==
  /\ ApplyExtrinsic("Normal")
  /\ \E a \in Accounts : SignedCall(a)

\* Calls of the update origin by way of sudo.
SudoExtrinsic ==
  /\ ApplyExtrinsic("Normal")
  /\ \E call \in Calls : UpdateCall(call)

\* Any other call, or one that fails; only calls of other pallets are operational.
OtherExtrinsic ==
  /\ \E class \in {"Normal", "Operational"} : ApplyExtrinsic(class)
  /\ UNCHANGED collatorVars

Next ==
  \/ \E i \in DOMAIN authorities : InitializeBlock(i)
  \/ ProcessMessage \/ SetAside \/ EndHooks
  \/ SetValidationData
  \/ SignedExtrinsic \/ SudoExtrinsic \/ OtherExtrinsic

Spec == Init /\ [][Next]_vars

-----------------------------------------------------------------------------
(* Properties *)

\* The lists that authoring goes by name each account once, and the message
\* queue keeps to its share of the block (lib.rs:391) while a message that can
\* never run does not stay in it.
TypeOK ==
  /\ phase \in {"hooks", "inherents", "extrinsics"}
  /\ now \in Nat /\ desired \in Nat /\ extrinsics \in 0..MaxExtrinsics
  /\ {invulnerables, candidates, registered, authors} \subseteq SUBSET Accounts
  /\ last \in [Accounts -> Nat]
  /\ \A s \in {validators, queued, authorities} : s \in Seq(Accounts) /\ IsInjective(s)
  /\ consumed \in Weights
  /\ served \in 0..MessageQueueServiceWeight /\ served <= consumed.Mandatory
  /\ Len(queue) <= MaxQueue /\ ToSet(queue) \subseteq Messages
  /\ phase = "inherents" => \A k \in Foremost : ~TooHeavy(queue[k])

\* Whatever a block's messages have used before its extrinsics, the normal ones
\* keep within three quarters of it and never push it over the maximum; only the
\* reserve of the operational ones does (lib.rs:249-274).
LimitsAreKept == WithinLimits(consumed)

\* Aura's authorities are the validators of the session, by whose list authorship
\* looks an author up (lib.rs:316-319, 445), unless the session has none: then
\* the last ones go on.
AuthoritiesAreValidators ==
  /\ authorities # <<>>
  /\ validators = authorities \/ validators = <<>>

\* A candidate that has authored a block since the first one of its session is
\* not kicked at the end of it, as KickThreshold is no less than a session
\* (lib.rs:480-481) and an author is noted before the session rotates
\* (lib.rs:516-520).
AuthorsAreKept ==
  [][now' # now /\ validators # <<>> =>
       (authors \cap candidates) \ invulnerables \subseteq candidates']_vars

\* Neither kicking nor leaving takes the collators below the minimum
\* (lib.rs:477), as long as no candidate is counted twice.
EligibleFloor ==
  [][/\ invulnerables' = invulnerables /\ invulnerables \cap candidates = {}
     /\ Cardinality(candidates') < Cardinality(candidates)
     => Cardinality(invulnerables') + Cardinality(candidates') >= MinEligibleCollators]_vars

\* No program governs for anyone but the relay chain.  What a program may do does
\* not depend on the state: the long list is asked at genesis, the messages at
\* hand always.
OnlyRelayGoverns ==
  \A program \in IF now = 0 THEN Programs ELSE {queue[k].program : k \in DOMAIN queue} :
    GovernedByRelay(program)
=============================================================================
