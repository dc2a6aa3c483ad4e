----------------------------- MODULE MCParachain -----------------------------
(* One genesis collator, two more accounts, sessions of two blocks, and      *)
(* messages of the relay chain and of a sibling.                             *)
EXTENDS Parachain

MCGenesis == <<"alice">>

Junctions == {"sibling", "account", "Defense"}

Instructions ==
  ({"UniversalOrigin", "DescendOrigin"} \X Junctions)
  \cup ({"WithdrawAsset", "ReserveAssetDeposited", "BuyExecution"} \X {Parent, Sibling})
  \cup ({"Transact"} \X {"SovereignAccount", "Native", "Xcm"})
  \cup {<<"ClearOrigin", "">>, <<"UnpaidExecution", "">>, <<"SetTopic", "">>,
        <<"InitiateReserveWithdraw", Parent>>}

\* All of up to three instructions, and each of them followed by a Transact.
MCPrograms ==
  LET short == UNION {[1..n -> Instructions] : n \in 0..3} IN
    short \cup {Append(p, <<"Transact", "Xcm">>) : p \in short}

Govern == << <<"DescendOrigin", "Defense">>, <<"UnpaidExecution", "">>, <<"Transact", "Xcm">> >>

MCCalls == {<<"set_invulnerables", {}>>, <<"set_invulnerables", {"bob", "charlie"}>>,
            <<"add_invulnerable", "bob">>, <<"remove_invulnerable", "alice">>,
            <<"set_desired_candidates", 1>>}

\* A program the weigher accepts and no block has room for.
Long == [i \in 1..5 |-> <<"UnpaidExecution", "">>]

\* Of the relay chain, one that runs and one that never fits; of the sibling, one
\* that dispatches nothing.
MCMessages ==
  { [from |-> Parent, program |-> Govern, call |-> <<"set_desired_candidates", 1>>],
    [from |-> Sibling, program |-> << <<"UnpaidExecution", "">>, <<"Transact", "Native">> >>,
     call |-> <<"set_invulnerables", {}>>],
    [from |-> Parent, program |-> Long, call |-> <<"set_invulnerables", {}>>] }
=============================================================================
