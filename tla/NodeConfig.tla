----------------------------- MODULE NodeConfig -----------------------------
(***************************************************************************)
(* What the node makes of its command line (node/src/cli.rs, command.rs    *)
(* and the two chain_spec modules): the chain specification, the role, and *)
(* the databases of the chain and of its relay chain.                      *)
(*                                                                         *)
(* An Option is a set with at most one element, a directory is the         *)
(* sequence of its path's components, and an empty string is a flag that   *)
(* was not given.  Of a specification only what the node decides on is     *)
(* kept; its genesis is in Collators.                                      *)
(***************************************************************************)
EXTENDS Sequences

CONSTANTS
  BasePaths,  \* directories that can be given with --base-path
  JsonPath    \* the path of the one specification file

ASSUME BasePathsAreOther == {"", "default", "temporary"} \cap BasePaths = {}

\* Subcommands that need a client of the chain, made by service::new_partial.
ChainOperations ==
  {"check-block", "export-blocks", "export-state", "import-blocks", "revert",
   "export-genesis-head", "benchmark-block"}

\* Subcommands that touch no chain (and try-runtime, which only fails).
OtherCommands ==
  {"export-genesis-wasm", "benchmark-pallet", "benchmark-storage",
   "benchmark-machine", "try-runtime"}

Subcommands == {"build-spec", "purge-chain"} \cup ChainOperations \cup OtherCommands

Chains == {"", "dev", "contracts-parachain-local", JsonPath}

\* A command line.  The arguments of a run, those of the relay chain among them,
\* cannot be combined with a subcommand, which has the first three of its own.
Args == [command : Subcommands \cup {"run"}, chain : Chains, base : BasePaths \cup {""},
         dev : BOOLEAN, tmp : BOOLEAN, collator : BOOLEAN, relay_base : BasePaths \cup {""}]

-----------------------------------------------------------------------------
(* Chain specifications *)

development_config ==
  [name |-> "Development", id |-> "dev", runtime |-> "contracts", extensions |-> {}]

local_testnet_config ==
  [name |-> "Local Testnet", id |-> "local_testnet", runtime |-> "parachain",
   extensions |-> {[relay_chain |-> "rococo-local", para_id |-> 1000]}]

\* The extensions, from which a parachain node takes its id and its relay chain.
try_get(spec) == spec.extensions

\* A path is read as the specification of a parachain, which cannot be without
\* its extensions: a development chain's own file is refused.
load_spec(id, json) ==
  CASE id \in {"", "dev"} -> {development_config}
    [] id = "contracts-parachain-local" -> {local_testnet_config}
    [] OTHER -> {spec \in json : try_get(spec) # {}}

-----------------------------------------------------------------------------
(* The configuration of a command *)

\* A run without a chain is forced into development mode; a subcommand is not.
is_dev(a) == a.dev \/ (a.command = "run" /\ a.chain = "")

chain_id(a) == IF a.chain = "" /\ is_dev(a) THEN "dev" ELSE a.chain

Directory(base) == IF base = "" THEN <<"default">> ELSE <<base>>
Temporary == <<"temporary">>

\* Mutated: development mode keeps to the default directory.
base_path_kept(a) == IF a.tmp THEN Temporary ELSE Directory(a.base)

\* Only a run in development mode or with --tmp gets a temporary directory.
base_path(a) ==
  IF a.command = "run" /\ (a.tmp \/ (a.base = "" /\ is_dev(a)))
    THEN Temporary
    ELSE Directory(a.base)

is_authority(a) == a.command = "run" /\ (a.collator \/ is_dev(a))

Configurations(a, json) ==
  {[spec |-> spec, dir |-> base_path(a), dev |-> is_dev(a), authority |-> is_authority(a)] :
     spec \in load_spec(chain_id(a), json)}

Database(config) == [dir |-> config.dir, chain |-> config.spec.id]

\* The relay chain's arguments can name a directory; otherwise it is below the
\* parachain's.
relay_base_path(a, config) ==
  IF a.relay_base # "" THEN <<a.relay_base>> ELSE Append(config.dir, "polkadot")

\* The relay chain is the one of the extensions, or polkadot's default.
relay_chain_id(config) ==
  IF try_get(config.spec) = {} THEN "polkadot"
  ELSE (CHOOSE e \in try_get(config.spec) : TRUE).relay_chain

RelayDatabase(a, config) ==
  [dir |-> relay_base_path(a, config), chain |-> relay_chain_id(config)]

IsTemporary(db) == Head(db.dir) = "temporary"

\* Mutated: the mode decides.
IsDevelopmentMode(config) == config.dev

\* The service a run starts: the name of its chain decides.
IsDevelopment(config) == config.spec.name = "Development"
=============================================================================
