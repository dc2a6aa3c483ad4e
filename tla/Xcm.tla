-------------------------------- MODULE Xcm --------------------------------
(***************************************************************************)
(* What the parachain lets a message do: the barrier, the executor and the *)
(* conversion of origins as parachain-runtime/src/xcm_config.rs composes   *)
(* them.  The instructions' own semantics are the library's.               *)
(*                                                                         *)
(* A location is the sequence of junctions that leads to it from the relay *)
(* chain; an asset is the location it is native to.  An instruction is its *)
(* name and what it is about; of an instruction's effect only the origin,  *)
(* the holding and the dispatches are kept, and accounts have the funds    *)
(* they spend.                                                             *)
(***************************************************************************)
EXTENDS Naturals, SequencesExt

CONSTANTS
  MaxInstructions,  \* the weigher refuses longer programs
  MaxPrefixes       \* origin changes the barrier looks through

ASSUME PrefixesAreNatural == MaxPrefixes \in Nat

Parent  == <<>>
Sibling == <<"sibling">>
Here    == <<"here">>
Account == Append(Here, "account")

\* The relay chain's bodies.
Plurality == {"Defense", "Executive"}

-----------------------------------------------------------------------------
(* The barrier *)

ParentOrParentsPlurality(location) ==
  location = Parent \/ location \in {<<body>> : body \in Plurality}

\* A trailing topic is no part of what the barrier sees.
TrailingSetTopicAsId(program) ==
  IF program # <<>> /\ Last(program)[1] = "SetTopic" THEN Front(program) ELSE program

DenyReserveTransferToRelayChain(program) ==
  \E i \in DOMAIN program : program[i] = <<"InitiateReserveWithdraw", Parent>>

\* Assets come first, then their use as a fee, with nothing but ClearOrigin
\* between, within the first five instructions.
AllowTopLevelPaidExecutionFrom(program) ==
  /\ program # <<>>
  /\ Head(program)[1] \in {"WithdrawAsset", "ReserveAssetDeposited"}
  /\ \E k \in 2..5 :
       /\ k \in DOMAIN program /\ program[k][1] = "BuyExecution"
       /\ \A i \in 2..(k - 1) : program[i][1] = "ClearOrigin"

AllowExplicitUnpaidExecutionFrom(origin, program) ==
  /\ ParentOrParentsPlurality(origin)
  /\ program # <<>> /\ Head(program)[1] = "UnpaidExecution"

OriginPrefixes(program) ==
  {k \in 0..MaxPrefixes :
     k <= Len(program)
       /\ \A i \in 1..k : program[i][1] \in {"UniversalOrigin", "DescendOrigin"}}

\* The origin an instruction claims, true or not: the executor refuses a false one.
Claim(claimed, i) ==
  IF i[1] = "UniversalOrigin" THEN <<i[2]>> ELSE Append(claimed, i[2])

\* The rest is judged for the origin that its leading instructions claim.
WithComputedOrigin(origin, program) ==
  LET k == Max(OriginPrefixes(program))
      computed == FoldLeft(Claim, origin, SubSeq(program, 1, k))
      rest     == SubSeq(program, k + 1, Len(program))
  IN  \/ AllowTopLevelPaidExecutionFrom(rest)
      \/ AllowExplicitUnpaidExecutionFrom(computed, rest)

\* A message from a queue brings no weight credit; a local execution pays for
\* its weight as an extrinsic.
Barrier(origin, program, credit) ==
  LET p == TrailingSetTopicAsId(program) IN
    /\ ~DenyReserveTransferToRelayChain(p)
    /\ credit \/ WithComputedOrigin(origin, p)

-----------------------------------------------------------------------------
(* Origins *)

\* The locations that have an account here: its own accounts and the parent.
LocationToAccountId(location) == {l \in {Account, Parent} : l = location}

Signed(of) == <<"Signed", of>>
Relay == <<"Relay", Parent>>
SiblingPara == <<"SiblingPara", Sibling>>
Passed(location) == <<"Xcm", location>>
Root == <<"Root", Here>>

\* The runtime origins a location becomes for a Transact of a kind.
XcmOriginToTransactDispatchOrigin(location, kind) ==
  CASE kind = "SovereignAccount" -> {Signed(a) : a \in LocationToAccountId(location)}
    [] kind = "Native" ->
         {o \in {Relay, SiblingPara, Signed(Account)} : o[2] = location}
    [] kind = "Xcm" -> {Passed(location)}
    [] OTHER -> {}

\* CollatorSelectionUpdateOrigin: root, or the voice of the relay's Defense body.
UpdateOrigin(origin) == origin \in {Root, Passed(<<"Defense">>)}

-----------------------------------------------------------------------------
(* The executor *)

\* Its registers: the origin, an Option; the assets in holding; whether it goes
\* on; and the origins that were dispatched with.
Registers(origin) ==
  [origin |-> {origin}, holding |-> {}, going |-> TRUE, dispatched |-> {}]

Failed(r) == [r EXCEPT !.going = FALSE]

\* NativeAsset: an asset is accepted from the chain it is native to.
IsReserve(asset, origin) == asset = origin

\* The trader takes the relay chain's token only.
Trader(asset, holding) == asset = Parent /\ asset \in holding

\* Mutated: any universal origin may be assumed.
UniversalAliasesAny(r, junction) == [r EXCEPT !.origin = {<<junction>>}]

\* UniversalAliases = Nothing.
UniversalAliases(r, junction) == Failed(r)

Execute(r, i) ==
  IF ~r.going THEN r ELSE
  CASE i[1] \in {"UnpaidExecution", "SetTopic"} -> r
    [] i[1] = "ClearOrigin" -> [r EXCEPT !.origin = {}]
    [] i[1] = "UniversalOrigin" -> UniversalAliases(r, i[2])
    [] i[1] = "DescendOrigin" /\ r.origin # {} ->
         [r EXCEPT !.origin = {Append(o, i[2]) : o \in @}]
    [] i[1] = "WithdrawAsset" /\ \E o \in r.origin : LocationToAccountId(o) # {} ->
         [r EXCEPT !.holding = @ \cup {i[2]}]
    [] i[1] = "ReserveAssetDeposited" /\ \E o \in r.origin : IsReserve(i[2], o) ->
         [r EXCEPT !.holding = @ \cup {i[2]}]
    [] i[1] = "BuyExecution" /\ Trader(i[2], r.holding) -> r
    [] i[1] = "Transact" /\ \E o \in r.origin : XcmOriginToTransactDispatchOrigin(o, i[2]) # {} ->
         [r EXCEPT !.dispatched =
            @ \cup UNION {XcmOriginToTransactDispatchOrigin(o, i[2]) : o \in r.origin}]
    [] OTHER -> Failed(r)

\* The origins with which a message dispatches its calls.
Dispatched(origin, program, credit) ==
  IF Len(program) <= MaxInstructions /\ Barrier(origin, program, credit)
    THEN FoldLeft(Execute, Registers(origin), program).dispatched
    ELSE {}

-----------------------------------------------------------------------------
(* What holds of a program *)

\* Only the relay chain governs: with no program does a sibling dispatch
\* anything, or an account of this chain anything as more than itself; and what
\* the relay chain dispatches as its Defense body it has descended into.  The
\* barrier alone does not see to it: it believes a claimed origin that the
\* executor refuses (xcm_config.rs:100, 124, 129, 141).
GovernedByRelay(program) ==
  /\ Dispatched(Sibling, program, FALSE) = {}
  /\ \A o \in Dispatched(Account, program, TRUE) : ~UpdateOrigin(o) /\ o # Relay
  /\ (\E o \in Dispatched(Parent, program, FALSE) : UpdateOrigin(o)) =>
       <<"DescendOrigin", "Defense">> \in ToSet(program)
=============================================================================
