----------------------------- MODULE NodeService -----------------------------
(***************************************************************************)
(* The life of the node's process: command.rs's run() on one command line  *)
(* after the other, and the start-up of the two services (service/dev.rs   *)
(* new_full, service.rs start_node_impl) step by step, up to the tasks     *)
(* they leave running.  The disk and the exported specification survive a  *)
(* process; everything else dies with it.                                  *)
(*                                                                         *)
(* A database is its number of blocks, genesis included, and how many of   *)
(* them are finalized.  The pool of the development service is the number  *)
(* of transactions in its ready queue (DevNode has them in detail).  Steps *)
(* of the start-up that change none of this are only places where it can   *)
(* fail.                                                                   *)
(***************************************************************************)
EXTENDS NodeConfig, Naturals, FiniteSetsExt, Functions

CONSTANTS
  Invocations,  \* the command lines that are used
  MaxRuns,      \* bound: number of commands
  MaxBlocks,    \* bound: blocks of a chain, ready transactions included
  BlockCapacity \* transactions that fit into any one block (see DevNode)

ASSUME InvocationsAreArgs == Invocations \subseteq Args
ASSUME SubcommandsAreNoRuns ==
  \A a \in Invocations : a.command # "run" => ~a.tmp /\ ~a.collator /\ a.relay_base = ""
ASSUME BoundsAreNatural == MaxRuns \in Nat /\ MaxBlocks \in Nat \ {0}
ASSUME BlockCapacityIsPositive == BlockCapacity \in Nat \ {0}

VARIABLES
  args,      \* the command being executed, {} between commands
  config,    \* its configuration
  step,      \* how far it has come
  tasks,     \* the tasks the process is running
  key,       \* the key to collate with, if the relay chain interface gave one
  outcome,   \* how the last command ended
  ready,     \* transactions in the ready queue of the development service
  notified,  \* import notifications instant sealing has not consumed
  timers,    \* blocks waiting for their delayed finalization
  disk,      \* the databases
  json,      \* the specification exported last
  exported,  \* number of blocks in the file exported last
  runs       \* number of commands so far

process  == <<args, config, step, tasks, key, outcome>>
volatile == <<ready, notified, timers>>
files    == <<disk, json, exported>>
vars     == <<process, volatile, files, runs>>

Genesis == [height |-> 1, finalized |-> 1]

Cfg == CHOOSE c \in config : TRUE
Arg == CHOOSE a \in args : TRUE
chain == Database(Cfg)

Init ==
  /\ args = {} /\ config = {} /\ step = "idle"
  /\ tasks = {} /\ key = {} /\ outcome = "none"
  /\ ready = 0 /\ notified = 0 /\ timers = {}
  /\ disk = <<>> /\ json = {} /\ exported = 0
  /\ runs = 0

-----------------------------------------------------------------------------
(* The end of a process *)

\* What is in memory is gone, and so is every temporary directory; how the
\* command ended is its exit status.
End(result) ==
  /\ args' = {} /\ config' = {} /\ step' = "idle"
  /\ tasks' = {} /\ key' = {} /\ outcome' = result
  /\ ready' = 0 /\ notified' = 0 /\ timers' = {}

Persistent(dbs) == Restrict(dbs, {d \in DOMAIN dbs : ~IsTemporary(d)})

\* A signal, a crash, or a failing step of the start-up.
Stop(result) ==
  /\ step # "idle"
  /\ End(result)
  /\ disk' = Persistent(disk)
  /\ UNCHANGED <<json, exported, runs>>

-----------------------------------------------------------------------------
(* The command line *)

\* run() up to the match on the subcommand: create_runner makes the
\* configuration, or fails when the specification does not load.
Invoke(a) ==
  /\ step = "idle"
  /\ runs < MaxRuns
  /\ runs' = runs + 1
  /\ args' = {a}
  /\ config' = Configurations(a, json)
  /\ step' = "configured"
  /\ outcome' = "none"
  /\ UNCHANGED <<tasks, key, volatile, files>>

At(commands) == step = "configured" /\ Arg.command \in commands

\* The specification did not load, or the command is the try-runtime stub.
CommandRefused ==
  /\ step = "configured"
  /\ config = {} \/ Arg.command = "try-runtime"
  /\ Stop("error")

\* build-spec prints the specification; the user keeps it as a file.
BuildSpec ==
  /\ At({"build-spec"}) /\ config # {}
  /\ End("ok")
  /\ json' = {Cfg.spec}
  /\ UNCHANGED <<disk, exported, runs>>

\* Commands that read or measure and leave everything as it is.
OtherCommand ==
  /\ At(OtherCommands \ {"try-runtime"}) /\ config # {}
  /\ \E result \in {"ok", "error"} : End(result)
  /\ UNCHANGED <<files, runs>>

\* purge-chain removes the two databases one after the other, whether they are
\* there or not: the chain's own first,
PurgeParachain ==
  /\ At({"purge-chain"}) /\ config # {}
  /\ step' = "purged"
  /\ disk' = Restrict(disk, DOMAIN disk \ {chain})
  /\ UNCHANGED <<args, config, tasks, key, outcome, volatile, json, exported, runs>>

\* Mutated: the relay chain's database is forgotten.
PurgeNoRelayChain ==
  /\ step = "purged"
  /\ End("ok")
  /\ UNCHANGED <<files, runs>>

\* then the one of its relay chain.
PurgeRelayChain ==
  /\ step = "purged"
  /\ End("ok")
  /\ disk' = Restrict(disk, DOMAIN disk \ {RelayDatabase(Arg, Cfg)})
  /\ UNCHANGED <<json, exported, runs>>

PurgeChain == PurgeParachain \/ PurgeRelayChain

\* The user declines, or a directory cannot be removed: those before it are gone.
PurgeGivenUp ==
  /\ config # {}
  /\ \/ At({"purge-chain"}) /\ Stop("ok")
     \/ At({"purge-chain"}) /\ Stop("error")
     \/ step = "purged" /\ Stop("error")

\* The disk with a content written to one database.
Written(db, c) == [d \in DOMAIN disk \cup {db} |-> IF d = db THEN c ELSE disk[d]]

\* Mutated: opening a database starts the chain again.
OpenedAfresh(db) == Written(db, Genesis)

\* new_full_parts opens the database and writes the genesis of a new one.
Opened(db) == IF db \in DOMAIN disk THEN disk ELSE Written(db, Genesis)

\* The slot duration is asked of the runtime, and only the parachain's has it.
build_import_queue(c) == c.spec.runtime = "parachain"

\* Mutated: a revert does not look at finality.
OperatedBelowFinality(command, c, file) ==
  IF command = "revert" THEN {<<[c EXCEPT !.height = h], file>> : h \in 1..c.height} ELSE {<<c, file>>}

\* What a chain operation makes of its chain and of the exported file.  A revert
\* stops at the last finalized block; imported blocks may be on another branch.
Operated(command, c, file) ==
  CASE command = "export-blocks" -> {<<c, c.height>>}
    [] command = "import-blocks" ->
         {<<[c EXCEPT !.height = h], file>> : h \in {g \in c.height..MaxBlocks : g <= file \/ g = c.height}}
    [] command = "revert" -> {<<[c EXCEPT !.height = h], file>> : h \in c.finalized..c.height}
    [] OTHER -> {<<c, file>>}

\* Every one of them makes the parachain's partial components first.
ChainOperation ==
  /\ At(ChainOperations) /\ config # {}
  /\ \/ /\ build_import_queue(Cfg)
        /\ \E r \in Operated(Arg.command, Opened(chain)[chain], exported) :
             /\ disk' = Written(chain, r[1])
             /\ exported' = r[2]
        /\ End("ok")
     \/ /\ ~build_import_queue(Cfg)
        /\ disk' = Opened(chain)
        /\ End("error")
        /\ UNCHANGED exported
  /\ UNCHANGED <<json, runs>>

-----------------------------------------------------------------------------
(* The start of the development service *)

Advance(from, to, started) ==
  /\ step = from
  /\ step' = to
  /\ tasks' = tasks \cup started
  /\ UNCHANGED <<args, config, outcome, runs>>

Development == config # {} /\ IsDevelopment(Cfg)
Parachain   == config # {} /\ ~IsDevelopment(Cfg)

\* new_partial of service/dev.rs.
OpenDevelopment ==
  /\ At({"run"}) /\ Development
  /\ Advance("configured", "opened", {"import-queue", "pool"})
  /\ disk' = Opened(chain)
  /\ UNCHANGED <<key, volatile, json, exported>>

\* spawn_tasks, of either service: the RPC server answers from here on.
SpawnTasks ==
  /\ Advance(IF Development THEN "opened" ELSE "connected", "served", {"rpc"})
  /\ UNCHANGED <<key, volatile, files>>

\* run_instant_seal subscribes to the pool's import notifications.
StartSealing ==
  /\ Development
  /\ Advance("served", "sealing", {"instant-seal"})
  /\ UNCHANGED <<key, volatile, files>>

\* run_delayed_finalize subscribes to the client's; the network is started and
\* the service returns its task manager.
StartFinalizing ==
  /\ Development
  /\ Advance("sealing", "running", {"delayed_finalize", "network"})
  /\ UNCHANGED <<key, volatile, files>>

-----------------------------------------------------------------------------
(* The start of the parachain service *)

\* new_partial of service.rs, which fails after opening the database when the
\* runtime knows no slots.
OpenParachain ==
  /\ At({"run"}) /\ Parachain
  /\ build_import_queue(Cfg)
  /\ Advance("configured", "opened", {"import-queue", "pool"})
  /\ disk' = Opened(chain)
  /\ UNCHANGED <<key, volatile, json, exported>>

\* The embedded relay chain makes a key for an authority.
CollatorKey(a, c) == c.authority

\* build_relay_chain_interface starts the relay chain in the same process.
BuildRelayChainInterface ==
  /\ Parachain
  /\ Advance("opened", "connected", {"relay-chain"})
  /\ key' = IF CollatorKey(Arg, Cfg) THEN {"collator"} ELSE {}
  /\ disk' = Opened(RelayDatabase(Arg, Cfg))
  /\ UNCHANGED <<volatile, json, exported>>

StartRelayChainTasks ==
  /\ Parachain
  /\ Advance("served", "following", {"cumulus-consensus"})
  /\ UNCHANGED <<key, volatile, files>>

\* start_consensus, of an authority only, takes the key out of its option, which
\* is expected to hold one; then the network is started and the service returns.
StartConsensus ==
  /\ Parachain
  /\ Cfg.authority => key # {}
  /\ Advance("following", "running", {"network"} \cup IF Cfg.authority THEN {"aura"} ELSE {})
  /\ UNCHANGED <<key, volatile, files>>

\* Any fallible call of a start-up: the port or the directory is taken, the
\* relay chain's arguments do not parse, the relay chain does not start.
StartFails ==
  /\ config # {} /\ Arg.command = "run" /\ step # "running"
  /\ Stop("error")

Start ==
  \/ OpenDevelopment \/ SpawnTasks \/ StartSealing \/ StartFinalizing
  \/ OpenParachain \/ BuildRelayChainInterface \/ StartRelayChainTasks
  \/ StartConsensus

-----------------------------------------------------------------------------
(* The development service at work *)

SetChain(c) == disk' = Written(chain, c)
Height    == disk[chain].height
Finalized == disk[chain].finalized

\* A transaction comes in over RPC, from the moment the server answers; its
\* notification goes to whoever has subscribed.
Submit ==
  /\ Development /\ "rpc" \in tasks
  /\ Height + ready < MaxBlocks
  /\ ready' = ready + 1
  /\ notified' = IF "instant-seal" \in tasks THEN notified + 1 ELSE notified
  /\ UNCHANGED <<process, timers, files, runs>>

\* A block of the first k transactions of the queue, or nothing when it is empty;
\* the import of the block starts its timer if the finalizer has subscribed by then.
SealFirst(k) ==
  /\ "instant-seal" \in tasks /\ notified > 0
  /\ notified' = notified - 1
  /\ ready' = ready - k
  /\ IF k = 0
       THEN UNCHANGED <<timers, disk>>
       ELSE /\ SetChain([disk[chain] EXCEPT !.height = @ + 1])
            /\ timers' = IF "delayed_finalize" \in tasks THEN timers \cup {Height + 1} ELSE timers
  /\ UNCHANGED <<process, json, exported, runs>>

\* Mutated: the notifications that have piled up make one block.
SealOnce ==
  \E k \in 0..ready :
    /\ k >= BlockCapacity \/ k = ready
    /\ "instant-seal" \in tasks /\ notified > 0
    /\ notified' = 0
    /\ ready' = ready - k
    /\ IF k = 0
         THEN UNCHANGED <<timers, disk>>
         ELSE /\ SetChain([disk[chain] EXCEPT !.height = @ + 1])
              /\ timers' = IF "delayed_finalize" \in tasks THEN timers \cup {Height + 1} ELSE timers
    /\ UNCHANGED <<process, json, exported, runs>>

\* A notification seals the whole queue, or as much of it as fits into a block.
Seal ==
  \E k \in 0..ready : (k >= BlockCapacity \/ k = ready) /\ SealFirst(k)

\* A timer runs out: its block is finalized with all before it.
Finalize ==
  /\ \E b \in timers :
       /\ timers' = timers \ {b}
       /\ SetChain([disk[chain] EXCEPT !.finalized = Max({@, b})])
  /\ UNCHANGED <<process, ready, notified, json, exported, runs>>

(* The parachain service at work *)

\* A block is authored by the collator or imported from the network.
Grow ==
  /\ Parachain /\ tasks \cap {"aura", "network"} # {}
  /\ Height < MaxBlocks
  /\ SetChain([disk[chain] EXCEPT !.height = @ + 1])
  /\ UNCHANGED <<process, volatile, json, exported, runs>>

\* cumulus-consensus finalizes what the relay chain has finalized.
FollowFinality ==
  /\ "cumulus-consensus" \in tasks
  /\ Finalized < Height
  /\ SetChain([disk[chain] EXCEPT !.finalized = @ + 1])
  /\ UNCHANGED <<process, volatile, json, exported, runs>>

-----------------------------------------------------------------------------
(* The end of a service *)

\* Mutated: instant sealing is an ordinary task.
EssentialWithoutSealing ==
  {"import-queue", "pool", "delayed_finalize", "aura", "relay-chain", "cumulus-consensus"}

Essential == EssentialWithoutSealing \cup {"instant-seal"}

Expected ==
  {"import-queue", "pool"} \cup
    IF Development THEN {"instant-seal", "delayed_finalize"}
    ELSE {"relay-chain", "cumulus-consensus"} \cup IF Cfg.authority THEN {"aura"} ELSE {}

\* A task ends: it panicked, or a stream it reads was closed.  One at a time.
TaskEnds ==
  /\ step = "running" /\ Expected \subseteq tasks
  /\ \E t \in Expected : tasks' = tasks \ {t}
  /\ UNCHANGED <<args, config, step, key, outcome, volatile, files, runs>>

\* run_node_until_exit watches the task manager: when an essential task has
\* ended the node goes down.
Exit ==
  /\ step = "running"
  /\ ~(Expected \cap Essential \subseteq tasks)
  /\ Stop("error")

Next ==
  \/ \E a \in Invocations : Invoke(a)
  \/ CommandRefused \/ BuildSpec \/ OtherCommand \/ PurgeChain \/ PurgeGivenUp \/ ChainOperation
  \/ Start \/ StartFails
  \/ Submit \/ Seal \/ Finalize \/ Grow \/ FollowFinality
  \/ TaskEnds \/ Exit
  \/ Stop("stopped")

\* A start-up goes on, the sealing task and the timers run, and the process is
\* ended once an essential task is.  Commands, transactions, failures and
\* signals come or do not.
Fairness == WF_vars(Start) /\ WF_vars(Seal) /\ WF_vars(Finalize) /\ WF_vars(Exit)

Spec == Init /\ [][Next]_vars /\ Fairness

-----------------------------------------------------------------------------
(* Properties *)

Databases == [height : 1..MaxBlocks, finalized : 1..MaxBlocks]

\* Between commands there is no process: no configuration, task, key, queue or
\* timer, and no temporary directory, is left of the last one (End, Stop).
TypeOK ==
  /\ args \subseteq Invocations /\ Cardinality(args) <= 1
  /\ Cardinality(config) <= 1 /\ key \subseteq {"collator"} /\ runs \in 0..MaxRuns
  /\ \A d \in DOMAIN disk : disk[d] \in Databases /\ disk[d].finalized <= disk[d].height
  /\ ready \in Nat /\ notified \in Nat /\ exported \in 0..MaxBlocks
  /\ timers # {} => timers \subseteq 1..Height
  /\ json \subseteq {development_config, local_testnet_config}
  /\ step = "idle" =>
       /\ args = {} /\ config = {} /\ tasks = {} /\ key = {} /\ timers = {}
       /\ ready = 0 /\ notified = 0
       /\ disk = Persistent(disk)

\* The service that serves a chain is the one built for its runtime, and a
\* parachain service always finds the id of its parachain (command.rs:227-240).
\* The choice is made by the chain's name, before anything looks at its runtime.
ServiceFitsRuntime ==
  "rpc" \in tasks =>
    /\ Development <=> (Cfg.spec.runtime = "contracts")
    /\ Parachain => try_get(Cfg.spec) # {}

\* The key service.rs:301 expects is there when consensus is to be started: what
\* the relay chain interface and the service make of the role agrees.
ExpectHolds == Parachain /\ step = "following" /\ Cfg.authority => key # {}

\* A chain in a directory of its own outlives the process that made it: no crash
\* and no later command takes a finalized block back, and only revert takes
\* blocks and only purge-chain the whole chain.
PersistentChainsAreKept ==
  [][\A d \in DOMAIN Persistent(disk) :
       \/ PurgeChain
       \/ /\ d \in DOMAIN disk'
          /\ disk'[d].finalized >= disk[d].finalized
          /\ At({"revert"}) \/ disk'[d].height >= disk[d].height]_vars

\* A development chain run without a base path starts from genesis, whatever was
\* run before (README.md:29): what other programs remember of it is void.
RunsWithoutBasePathStartAfresh ==
  [][OpenDevelopment /\ Arg.base = "" /\ Arg.chain = "" => disk'[chain] = Genesis]_vars

\* A purge-chain that comes to its end has removed all that a run with the same
\* chain and base path has put on the disk, as long as that run did not name a
\* directory for its relay chain (cli.rs:104, command.rs:308).
PurgeIsComplete ==
  [][PurgeRelayChain =>
       \A a \in Invocations :
         /\ a.command = "run" /\ a.relay_base = ""
         /\ a.chain = Arg.chain /\ a.base = Arg.base
         => \A c \in Configurations(a, json) :
              {Database(c), RelayDatabase(a, c)} \cap DOMAIN disk' = {}]_vars

\* A node does not stay up without the task that seals its blocks, that finalizes
\* them, or that collates (dev.rs:203, dev.rs:212, service.rs:407).
NoServiceWithoutItsTasks ==
  (step = "running" /\ ~(Expected \subseteq tasks)) ~> step = "idle"

\* Transactions that came in before instant sealing had subscribed, and blocks
\* sealed before the finalizer had or before a crash, have nobody to wake them.
\* A notification to come takes them along to finality: all the blocks, and all
\* the transactions if the notifications to come reach to the end of the queue.
NextTransactionReleasesAll ==
  (step = "running" /\ ready \in 1..(notified * BlockCapacity))
    ~> (step # "running" \/ ~(Expected \subseteq tasks) \/ (ready = 0 /\ Finalized = Height))
=============================================================================
