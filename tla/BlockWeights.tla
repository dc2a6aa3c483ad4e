---------------------------- MODULE BlockWeights ----------------------------
(***************************************************************************)
(* The limits RuntimeBlockWeights puts on a block, in both runtimes        *)
(* (runtime/src/lib.rs, parachain-runtime/src/lib.rs), and what the signed *)
(* extension CheckWeight makes of them.  A weight has two dimensions that  *)
(* are limited in the same way, independently of each other; one is        *)
(* modelled.                                                               *)
(***************************************************************************)
EXTENDS Integers

CONSTANTS
  MAXIMUM_BLOCK_WEIGHT,
  AVERAGE_ON_INITIALIZE,  \* its share for the hooks: 10%, in the parachain 5%
  BlockExecutionWeight,   \* consumed by every block
  ExtrinsicBaseWeight     \* consumed by every extrinsic

ASSUME WeightsArePositive ==
  /\ MAXIMUM_BLOCK_WEIGHT \in Nat /\ AVERAGE_ON_INITIALIZE \in Nat
  /\ BlockExecutionWeight \in Nat /\ ExtrinsicBaseWeight \in Nat \ {0}

Classes == {"Normal", "Operational", "Mandatory"}
Weights == [Classes -> Nat]

NormalLimit == (75 * MAXIMUM_BLOCK_WEIGHT) \div 100

\* Mandatory extrinsics, inherents and hooks, are limited by nothing.
max_total == [Normal |-> NormalLimit, Operational |-> MAXIMUM_BLOCK_WEIGHT]

\* What a class may use beyond the maximum: the builder's default is nothing.
reserved == [Normal |-> 0, Operational |-> MAXIMUM_BLOCK_WEIGHT - NormalLimit]

max_extrinsic(class) ==
  max_total[class] - AVERAGE_ON_INITIALIZE - ExtrinsicBaseWeight

Total(consumed) == consumed.Normal + consumed.Operational + consumed.Mandatory

\* A block starts with its base weight and what its hooks use.
Initialized(hooks) ==
  [Normal |-> 0, Operational |-> 0, Mandatory |-> BlockExecutionWeight + hooks]

Accrued(consumed, class, weight) ==
  [consumed EXCEPT ![class] = @ + weight + ExtrinsicBaseWeight]

\* Mutated: a class is checked against its own limit only.
AdmitsByClass(consumed, class, weight) ==
  /\ weight <= max_extrinsic(class)
  /\ Accrued(consumed, class, weight)[class] <= max_total[class]

\* An extrinsic is admitted by its declared weight: within what one extrinsic
\* may have, within its class, and within the block or else the class's reserve.
CheckWeight(consumed, class, weight) ==
  LET after == Accrued(consumed, class, weight) IN
    /\ weight <= max_extrinsic(class)
    /\ after[class] <= max_total[class]
    /\ Total(after) > MAXIMUM_BLOCK_WEIGHT => after[class] <= reserved[class]

\* What a dispatch did not use of its declared weight is given back.
Refunded(consumed, class, unspent) == [consumed EXCEPT ![class] = @ - unspent]

\* The limits a block keeps: its normal extrinsics take three quarters at most
\* and never reach beyond the maximum together with the mandatory part; only
\* operational ones do, by their reserve at most.
WithinLimits(consumed) ==
  /\ consumed.Normal <= NormalLimit
  /\ consumed.Normal = 0 \/ consumed.Normal + consumed.Mandatory <= MAXIMUM_BLOCK_WEIGHT
  /\ \/ Total(consumed) <= MAXIMUM_BLOCK_WEIGHT
     \/ consumed.Operational <= reserved.Operational
=============================================================================
