---------------------------- MODULE MCNodeService ----------------------------
(* Command lines for NodeService: every kind of run, and the subcommands on  *)
(* the chains and directories those runs use.                                *)
EXTENDS NodeService

NoFlags == [command |-> "run", chain |-> "", base |-> "", dev |-> FALSE,
            tmp |-> FALSE, collator |-> FALSE, relay_base |-> ""]

Collating == [NoFlags EXCEPT !.chain = "contracts-parachain-local", !.collator = TRUE]

Runs ==
  { NoFlags,
    [NoFlags EXCEPT !.base = "p"],
    [NoFlags EXCEPT !.chain = "dev"],
    Collating,
    [Collating EXCEPT !.base = "p"],
    [Collating EXCEPT !.relay_base = "p", !.tmp = TRUE],
    [NoFlags EXCEPT !.chain = "contracts-parachain-local", !.dev = TRUE, !.base = "p"],
    [NoFlags EXCEPT !.chain = JsonPath, !.base = "p"] }

\* On the default chain in both directories, on the local testnet in one.
Operations ==
  {[NoFlags EXCEPT !.command = c, !.chain = where[1], !.base = where[2]] :
     c \in {"build-spec", "purge-chain", "export-blocks", "import-blocks", "revert", "check-block"},
     where \in {<<"", "p">>, <<"dev", "">>, <<"contracts-parachain-local", "p">>}}

MCInvocations ==
  Runs \cup Operations \cup
    {[NoFlags EXCEPT !.command = c] : c \in {"export-genesis-wasm", "try-runtime"}}
=============================================================================
