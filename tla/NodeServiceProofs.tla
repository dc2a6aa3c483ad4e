------------------------- MODULE NodeServiceProofs -------------------------
(***************************************************************************)
(* Theorems about NodeService, for every set of command lines and any      *)
(* bounds on commands and blocks.                                          *)
(***************************************************************************)
EXTENDS NodeService, FiniteSetTheorems, TLAPS

Specifications == {development_config, local_testnet_config}

Starting == {"opened", "connected", "served", "sealing", "following", "running"}

\* Between commands, and in a command that is no run.
Quiet == {"idle", "configured", "purged"}

-----------------------------------------------------------------------------
(* The service that is started *)

\* Every specification that can be loaded is one of the two built in.
SpecsKnown ==
  /\ json \subseteq Specifications
  /\ \A c \in config : c.spec \in Specifications

\* A task runs only in a service that is starting or running, and that service
\* has a configuration.
Configured ==
  /\ step \in Quiet \cup Starting
  /\ tasks # {} => step \in Starting
  /\ step \in Starting => config # {}

\* From the moment the relay chain interface is there, a collator has its key.
KeyGiven ==
  Parachain /\ step \in {"connected", "served", "following", "running"} /\ Cfg.authority
    => key # {}

ServiceInv == SpecsKnown /\ Configured /\ KeyGiven

\* load_spec gives a built-in specification, or a file that build-spec wrote.
LEMMA LoadedSpec ==
  ASSUME NEW a, NEW j, j \subseteq Specifications, NEW c \in Configurations(a, j)
  PROVE  c.spec \in Specifications
<1>1. \A id : load_spec(id, j) \subseteq {development_config, local_testnet_config} \cup j
  BY DEF load_spec
<1>2. QED
  BY <1>1 DEF Configurations, Specifications

\* The configuration of a process is one of those its command line gives.
LEMMA CfgIsConfigured == config # {} => Cfg \in config
BY DEF Cfg

LEMMA ServiceInit == Init => ServiceInv
BY DEF Init, ServiceInv, SpecsKnown, Configured, KeyGiven, Parachain, Starting, Quiet

\* A process that ends leaves nothing of it behind.
LEMMA EndKeeps ==
  ASSUME ServiceInv, NEW r, End(r), json' \subseteq Specifications
  PROVE  ServiceInv'
BY DEF ServiceInv, SpecsKnown, Configured, KeyGiven, Parachain, End, Starting, Quiet

LEMMA ServiceNext == ServiceInv /\ [Next]_vars => ServiceInv'
<1> SUFFICES ASSUME ServiceInv, [Next]_vars PROVE ServiceInv'
  OBVIOUS
<1> USE DEF ServiceInv
<1>1. ASSUME NEW a \in Invocations, Invoke(a) PROVE ServiceInv'
  <2>1. SpecsKnown'
    BY <1>1, LoadedSpec DEF Invoke, SpecsKnown, files
  <2>2. Configured'
    BY <1>1 DEF Invoke, Configured, Starting, Quiet
  <2>3. KeyGiven'
    BY <1>1 DEF Invoke, KeyGiven
  <2>4. QED
    BY <2>1, <2>2, <2>3
<1>2. CASE CommandRefused
  BY <1>2, EndKeeps DEF CommandRefused, Stop, SpecsKnown
<1>3. CASE BuildSpec
  <2>1. Cfg.spec \in Specifications
    BY <1>3, CfgIsConfigured DEF BuildSpec, SpecsKnown
  <2>2. QED
    BY <1>3, <2>1, EndKeeps DEF BuildSpec
<1>4. CASE OtherCommand
  BY <1>4, EndKeeps DEF OtherCommand, SpecsKnown, files
<1>5. CASE PurgeParachain
  BY <1>5 DEF PurgeParachain, At, SpecsKnown, Configured, KeyGiven, Starting, Quiet
<1>24. CASE PurgeRelayChain
  BY <1>24, EndKeeps DEF PurgeRelayChain, SpecsKnown
<1>25. CASE PurgeGivenUp
  BY <1>25, EndKeeps DEF PurgeGivenUp, Stop, SpecsKnown
<1>6. CASE ChainOperation
  BY <1>6, EndKeeps DEF ChainOperation, SpecsKnown
<1>7. CASE StartFails
  BY <1>7, EndKeeps DEF StartFails, Stop, SpecsKnown
<1>8. CASE Exit
  BY <1>8, EndKeeps DEF Exit, Stop, SpecsKnown
<1>9. CASE Stop("stopped")
  BY <1>9, EndKeeps DEF Stop, SpecsKnown
<1>10. ASSUME NEW from \in {"configured"} \cup Starting, NEW to \in Starting, NEW started,
              Advance(from, to, started), config # {}, UNCHANGED json
       PROVE  SpecsKnown' /\ Configured'
  BY <1>10 DEF Advance, SpecsKnown, Configured, Starting
<1>11. CASE OpenDevelopment
  <2>1. SpecsKnown' /\ Configured'
    BY <1>11, <1>10 DEF OpenDevelopment, Development, Starting
  <2>2. KeyGiven'
    BY <1>11 DEF OpenDevelopment, KeyGiven, Advance
  <2>3. QED
    BY <2>1, <2>2
<1>12. CASE SpawnTasks
  <2>1. config # {}
    BY <1>12 DEF SpawnTasks, Advance, Configured, Starting
  <2>2. SpecsKnown' /\ Configured'
    BY <1>12, <1>10, <2>1 DEF SpawnTasks, files, Starting
  <2>3. KeyGiven'
    BY <1>12 DEF SpawnTasks, KeyGiven, Advance, Development, Parachain, Cfg
  <2>4. QED
    BY <2>2, <2>3
<1>13. CASE StartSealing
  <2>1. SpecsKnown' /\ Configured'
    BY <1>13, <1>10 DEF StartSealing, Development, files, Starting
  <2>2. KeyGiven'
    BY <1>13 DEF StartSealing, KeyGiven, Advance
  <2>3. QED
    BY <2>1, <2>2
<1>14. CASE StartFinalizing
  <2>1. SpecsKnown' /\ Configured'
    BY <1>14, <1>10 DEF StartFinalizing, Development, files, Starting
  <2>2. KeyGiven'
    BY <1>14 DEF StartFinalizing, KeyGiven, Advance, Development, Parachain, Cfg
  <2>3. QED
    BY <2>1, <2>2
<1>15. CASE OpenParachain
  <2>1. SpecsKnown' /\ Configured'
    BY <1>15, <1>10 DEF OpenParachain, Parachain, Starting
  <2>2. KeyGiven'
    BY <1>15 DEF OpenParachain, KeyGiven, Advance
  <2>3. QED
    BY <2>1, <2>2
<1>16. CASE BuildRelayChainInterface
  <2>1. SpecsKnown' /\ Configured'
    BY <1>16, <1>10 DEF BuildRelayChainInterface, Parachain, Starting
  <2>2. KeyGiven'
    BY <1>16 DEF BuildRelayChainInterface, KeyGiven, Advance, CollatorKey, Cfg
  <2>3. QED
    BY <2>1, <2>2
<1>17. CASE StartRelayChainTasks
  <2>1. SpecsKnown' /\ Configured'
    BY <1>17, <1>10 DEF StartRelayChainTasks, Parachain, files, Starting
  <2>2. KeyGiven'
    BY <1>17 DEF StartRelayChainTasks, KeyGiven, Advance, Parachain, Cfg
  <2>3. QED
    BY <2>1, <2>2
<1>18. CASE StartConsensus
  <2>1. SpecsKnown' /\ Configured'
    BY <1>18, <1>10 DEF StartConsensus, Parachain, files, Starting
  <2>2. KeyGiven'
    BY <1>18 DEF StartConsensus, KeyGiven, Advance, Parachain, Cfg
  <2>3. QED
    BY <2>1, <2>2
<1>19. ASSUME UNCHANGED <<process, json>> PROVE ServiceInv'
  BY <1>19 DEF process, SpecsKnown, Configured, KeyGiven, Parachain, Cfg
<1>20. CASE Submit \/ Seal \/ Finalize \/ Grow \/ FollowFinality
  BY <1>20, <1>19 DEF Submit, Seal, SealFirst, Finalize, Grow, FollowFinality, files
<1>21. CASE TaskEnds
  BY <1>21 DEF TaskEnds, SpecsKnown, Configured, KeyGiven, Parachain, Cfg, files, Starting
<1>22. CASE UNCHANGED vars
  BY <1>22, <1>19 DEF vars, files
<1>23. QED
  BY <1>1, <1>2, <1>3, <1>4, <1>5, <1>6, <1>7, <1>8, <1>9, <1>11, <1>12, <1>13, <1>14,
     <1>15, <1>16, <1>17, <1>18, <1>20, <1>21, <1>22, <1>24, <1>25 DEF Next, Start, PurgeChain

\* The inductive invariant, for every set of command lines.
THEOREM ServiceInvariant == Spec => []ServiceInv
BY ServiceInit, ServiceNext, PTL DEF Spec

\* The service that answers over RPC is the one built for the runtime of its
\* chain, and a parachain service has its parachain's id, although
\* command.rs:227 looks at the chain's name only.
THEOREM ServiceAlwaysFits == Spec => []ServiceFitsRuntime
<1>1. ServiceInv => ServiceFitsRuntime
  <2> SUFFICES ASSUME ServiceInv, "rpc" \in tasks
      PROVE  /\ Development <=> (Cfg.spec.runtime = "contracts")
             /\ Parachain => try_get(Cfg.spec) # {}
    BY DEF ServiceFitsRuntime
  <2>1. config # {} /\ Cfg.spec \in Specifications
    BY CfgIsConfigured DEF ServiceInv, Configured, SpecsKnown
  <2>2. /\ development_config.name = "Development"
        /\ development_config.runtime = "contracts"
        /\ local_testnet_config.name # "Development"
        /\ local_testnet_config.runtime # "contracts"
    BY DEF development_config, local_testnet_config
  <2>3. [relay_chain |-> "rococo-local", para_id |-> 1000] \in local_testnet_config.extensions
    BY DEF local_testnet_config
  <2>4. CASE Cfg.spec = development_config
    <3>1. Development /\ ~Parachain
      BY <2>1, <2>2, <2>4 DEF Development, Parachain, IsDevelopment
    <3>2. QED
      BY <2>2, <2>4, <3>1
  <2>5. CASE Cfg.spec = local_testnet_config
    <3>1. ~Development
      BY <2>2, <2>5 DEF Development, IsDevelopment
    <3>2. try_get(Cfg.spec) # {}
      BY <2>3, <2>5 DEF try_get
    <3>3. QED
      BY <2>2, <2>5, <3>1, <3>2
  <2>6. QED
    BY <2>1, <2>4, <2>5 DEF Specifications
<1>2. QED
  BY <1>1, ServiceInvariant, PTL

\* The expect at service.rs:301 never fails: a collator that comes to its
\* consensus has been given a key.
THEOREM KeyIsExpected == Spec => []ExpectHolds
<1>1. ServiceInv => ExpectHolds
  BY DEF ServiceInv, KeyGiven, ExpectHolds
<1>2. QED
  BY <1>1, ServiceInvariant, PTL
-----------------------------------------------------------------------------
(* What survives on the disk *)

Sound(c) == c \in [height : Nat, finalized : Nat] /\ c.finalized <= c.height

\* A service has its database open, and timers belong to blocks of it.
DiskInv ==
  /\ Configured
  /\ \A d \in DOMAIN disk : Sound(disk[d])
  /\ step \in Starting => chain \in DOMAIN disk
  /\ timers # {} => step \in Starting /\ timers \subseteq 1..Height

\* The part of PersistentChainsAreKept that all but a revert and a purge keep.
Kept ==
  \A d \in DOMAIN Persistent(disk) :
    /\ d \in DOMAIN disk'
    /\ disk'[d].finalized >= disk[d].finalized
    /\ disk'[d].height >= disk[d].height

\* Writing one database leaves the others as they are.
LEMMA WriteOne ==
  ASSUME NEW d, NEW c, disk' = Written(d, c)
  PROVE  /\ DOMAIN disk' = {d} \cup DOMAIN disk
         /\ disk'[d] = c
         /\ \A e \in DOMAIN disk \ {d} : disk'[e] = disk[e]
BY DEF Written

\* Opening a database changes no other, and itself only if it is new.
LEMMA OpenOne ==
  ASSUME NEW d, disk' = Opened(d)
  PROVE  /\ DOMAIN disk' = {d} \cup DOMAIN disk
         /\ d \notin DOMAIN disk => disk'[d] = Genesis
         /\ \A e \in DOMAIN disk : disk'[e] = disk[e]
BY DEF Opened, Written

LEMMA PersistentOnes ==
  ASSUME NEW f
  PROVE  /\ DOMAIN Persistent(f) = {d \in DOMAIN f : ~IsTemporary(d)}
         /\ \A d \in DOMAIN Persistent(f) : Persistent(f)[d] = f[d]
BY DEF Persistent, Restrict

LEMMA GenesisIsSound == Sound(Genesis)
BY DEF Sound, Genesis

LEMMA SameDisk ==
  ASSUME disk' = disk, \A d \in DOMAIN disk : Sound(disk[d])
  PROVE  Kept
<1>1. ASSUME NEW d \in DOMAIN Persistent(disk)
      PROVE  d \in DOMAIN disk /\ Sound(disk[d])
  BY PersistentOnes
<1>2. ASSUME NEW c, Sound(c) PROVE c.finalized >= c.finalized /\ c.height >= c.height
  BY <1>2 DEF Sound
<1>3. QED
  BY <1>1, <1>2 DEF Kept

\* The end of a process takes temporary databases only.
LEMMA EndLosesNothing ==
  ASSUME DiskInv, NEW r, End(r), disk' = disk \/ disk' = Persistent(disk)
  PROVE  DiskInv' /\ Kept
<1>1. \A d \in DOMAIN disk' : d \in DOMAIN disk /\ disk'[d] = disk[d]
  BY PersistentOnes
<1>2. \A d \in DOMAIN Persistent(disk) : d \in DOMAIN disk' /\ d \in DOMAIN disk
  BY PersistentOnes
<1>3. \A d \in DOMAIN disk' : Sound(disk'[d])
  BY <1>1 DEF DiskInv
<1>4. DiskInv'
  BY <1>3 DEF DiskInv, Configured, End, Starting, Sound, Quiet
<1>5. Kept
  BY <1>1, <1>2 DEF Kept, DiskInv, Sound
<1>6. QED
  BY <1>4, <1>5

\* A new content of a database that has no less than the old one.
LEMMA WriteLosesNothing ==
  ASSUME NEW d, NEW c, Sound(c), disk' = Written(d, c),
         \A e \in DOMAIN disk : Sound(disk[e]),
         d \in DOMAIN disk =>
           c.finalized >= disk[d].finalized /\ c.height >= disk[d].height
  PROVE  (\A e \in DOMAIN disk' : Sound(disk'[e])) /\ Kept
<1>1. /\ DOMAIN disk' = {d} \cup DOMAIN disk
      /\ disk'[d] = c
      /\ \A e \in DOMAIN disk \ {d} : disk'[e] = disk[e]
  BY WriteOne
<1>2. \A e \in DOMAIN disk' : Sound(disk'[e])
  BY <1>1
<1>3. ASSUME NEW e \in DOMAIN Persistent(disk)
      PROVE  /\ e \in DOMAIN disk'
             /\ disk'[e].finalized >= disk[e].finalized
             /\ disk'[e].height >= disk[e].height
  <2>1. e \in DOMAIN disk
    BY PersistentOnes
  <2>2. CASE e = d
    BY <2>1, <2>2, <1>1
  <2>3. CASE e # d
    BY <2>1, <2>3, <1>1 DEF Sound
  <2>4. QED
    BY <2>2, <2>3
<1>4. QED
  BY <1>2, <1>3 DEF Kept

LEMMA OpenLosesNothing ==
  ASSUME NEW d, disk' = Opened(d), \A e \in DOMAIN disk : Sound(disk[e])
  PROVE  /\ \A e \in DOMAIN disk' : Sound(disk'[e])
         /\ d \in DOMAIN disk'
         /\ \A e \in DOMAIN disk : e \in DOMAIN disk' /\ disk'[e] = disk[e]
         /\ Kept
<1>1. /\ DOMAIN disk' = {d} \cup DOMAIN disk
      /\ d \notin DOMAIN disk => disk'[d] = Genesis
      /\ \A e \in DOMAIN disk : disk'[e] = disk[e]
  BY OpenOne
<1>2. \A e \in DOMAIN disk' : Sound(disk'[e])
  BY <1>1, GenesisIsSound
<1>3. \A e \in DOMAIN Persistent(disk) : e \in DOMAIN disk
  BY PersistentOnes
<1>4. Kept
  BY <1>1, <1>3 DEF Kept, Sound
<1>5. QED
  BY <1>1, <1>2, <1>4

\* No chain operation takes a finalized block, and only revert takes blocks.
LEMMA OperationKeepsFinality ==
  ASSUME NEW command, NEW c, Sound(c), NEW file, NEW r \in Operated(command, c, file)
  PROVE  /\ Sound(r[1])
         /\ r[1].finalized = c.finalized
         /\ command = "revert" \/ r[1].height >= c.height
<1>1. /\ c.height \in Nat /\ c.finalized \in Nat /\ c.finalized <= c.height
      /\ c \in [height : Nat, finalized : Nat]
  BY DEF Sound
<1>2. ASSUME NEW h \in Nat, h >= c.finalized, r[1] = [c EXCEPT !.height = h]
      PROVE  Sound(r[1]) /\ r[1].finalized = c.finalized /\ r[1].height = h
  BY <1>1, <1>2 DEF Sound
<1>3. CASE command = "import-blocks"
  <2>1. PICK h \in {g \in c.height..MaxBlocks : g <= file \/ g = c.height} :
          r = <<[c EXCEPT !.height = h], file>>
    BY <1>3 DEF Operated
  <2>2. h \in Nat /\ h >= c.height /\ r[1] = [c EXCEPT !.height = h]
    BY <1>1, <2>1, BoundsAreNatural
  <2>3. QED
    BY <1>1, <1>2, <2>2
<1>4. CASE command = "revert"
  <2>1. PICK h \in c.finalized..c.height : r = <<[c EXCEPT !.height = h], file>>
    BY <1>4 DEF Operated
  <2>2. h \in Nat /\ h >= c.finalized /\ r[1] = [c EXCEPT !.height = h]
    BY <1>1, <2>1
  <2>3. QED
    BY <1>2, <1>4, <2>2
<1>5. CASE command \notin {"import-blocks", "revert"}
  <2>1. r[1] = c
    BY <1>5 DEF Operated
  <2>2. QED
    BY <1>1, <2>1
<1>6. QED
  BY <1>3, <1>4, <1>5

\* What PersistentChainsAreKept asks of a step.
KeptStep ==
  \A d \in DOMAIN Persistent(disk) :
    \/ PurgeChain
    \/ /\ d \in DOMAIN disk'
       /\ disk'[d].finalized >= disk[d].finalized
       /\ At({"revert"}) \/ disk'[d].height >= disk[d].height

LEMMA MaxOfTwo ==
  ASSUME NEW a \in Nat, NEW b \in Nat
  PROVE  Max({a, b}) \in {a, b} /\ Max({a, b}) >= a /\ Max({a, b}) >= b
<1>1. \E x \in {a, b} : \A y \in {a, b} : x >= y
  OBVIOUS
<1>2. Max({a, b}) \in {a, b} /\ \A y \in {a, b} : Max({a, b}) >= y
  BY <1>1 DEF Max
<1>3. QED
  BY <1>2

LEMMA DiskInit == Init => DiskInv
BY DEF Init, DiskInv, Configured, Starting, Quiet

LEMMA ChainOperationKeeps ==
  ASSUME DiskInv, ChainOperation PROVE DiskInv' /\ KeptStep
<1>1. PICK result : End(result)
  BY DEF ChainOperation
<1>2. CASE \E r \in Operated(Arg.command, Opened(chain)[chain], exported) : disk' = Written(chain, r[1])
  <2>1. PICK r \in Operated(Arg.command, Opened(chain)[chain], exported) : disk' = Written(chain, r[1])
    BY <1>2
  <2> DEFINE c == Opened(chain)[chain]
  <2>2. /\ Sound(c)
        /\ chain \in DOMAIN disk => c = disk[chain]
    BY GenesisIsSound DEF Opened, Written, DiskInv
  <2> HIDE DEF c
  <2>3. /\ Sound(r[1]) /\ r[1].finalized = c.finalized
        /\ Arg.command = "revert" \/ r[1].height >= c.height
    BY <2>1, <2>2, OperationKeepsFinality DEF c
  <2>4. /\ DOMAIN disk' = {chain} \cup DOMAIN disk
        /\ disk'[chain] = r[1]
        /\ \A e \in DOMAIN disk \ {chain} : disk'[e] = disk[e]
    BY <2>1, WriteOne
  <2>5. \A d \in DOMAIN disk' : Sound(disk'[d])
    BY <2>3, <2>4 DEF DiskInv
  <2>6. DiskInv'
    BY <1>1, <2>5 DEF DiskInv, Configured, End, Starting, Quiet
  <2>7. ASSUME NEW d \in DOMAIN Persistent(disk)
        PROVE  /\ d \in DOMAIN disk'
               /\ disk'[d].finalized >= disk[d].finalized
               /\ At({"revert"}) \/ disk'[d].height >= disk[d].height
    <3>1. d \in DOMAIN disk /\ Sound(disk[d])
      BY PersistentOnes DEF DiskInv
    <3>2. CASE d = chain
      BY <3>1, <3>2, <2>2, <2>3, <2>4 DEF At, ChainOperation, Sound
    <3>3. CASE d # chain
      BY <3>1, <3>3, <2>4 DEF Sound
    <3>4. QED
      BY <3>2, <3>3
  <2>8. QED
    BY <2>6, <2>7 DEF KeptStep
<1>3. CASE disk' = Opened(chain)
  <2>1. (\A e \in DOMAIN disk' : Sound(disk'[e])) /\ Kept
    BY <1>3, OpenLosesNothing DEF DiskInv
  <2>2. DiskInv'
    BY <1>1, <2>1 DEF DiskInv, Configured, End, Starting, Quiet
  <2>3. QED
    BY <2>1, <2>2 DEF Kept, KeptStep
<1>4. QED
  BY <1>2, <1>3 DEF ChainOperation

\* A step of a start-up opens a database at most.
LEMMA StartKeeps ==
  ASSUME DiskInv, Start PROVE DiskInv' /\ Kept
<1>1. \E from \in {"configured"} \cup Starting, to \in Starting :
        \E started : Advance(from, to, started)
  BY DEF Start, OpenDevelopment, SpawnTasks, StartSealing, StartFinalizing, OpenParachain,
    BuildRelayChainInterface, StartRelayChainTasks, StartConsensus, Starting
<1>2. PICK from \in {"configured"} \cup Starting, to \in Starting :
        \E started : Advance(from, to, started)
  BY <1>1
<1>3. config # {} /\ UNCHANGED timers
  BY DEF Start, OpenDevelopment, SpawnTasks, StartSealing, StartFinalizing, OpenParachain,
    BuildRelayChainInterface, StartRelayChainTasks, StartConsensus, Development, Parachain,
    volatile, Advance, DiskInv, Configured, Starting
<1>4. Configured'
  BY <1>2, <1>3 DEF Advance, Configured, DiskInv, Starting
<1>5. chain' = chain
  BY <1>2 DEF Advance, chain, Cfg
<1>6. PICK d : \/ disk' = disk /\ step \in Starting
               \/ disk' = Opened(d) /\ (d = chain \/ step \in Starting)
  <2>1. CASE OpenDevelopment \/ OpenParachain
    BY <2>1 DEF OpenDevelopment, OpenParachain
  <2>2. CASE BuildRelayChainInterface
    BY <2>2 DEF BuildRelayChainInterface, Advance, Starting
  <2>3. CASE SpawnTasks \/ StartSealing \/ StartFinalizing \/ StartRelayChainTasks \/ StartConsensus
    BY <2>3 DEF SpawnTasks, StartSealing, StartFinalizing, StartRelayChainTasks, StartConsensus,
      Advance, files, Starting
  <2>4. QED
    BY <2>1, <2>2, <2>3 DEF Start
<1>7. /\ \A e \in DOMAIN disk' : Sound(disk'[e])
      /\ \A e \in DOMAIN disk : e \in DOMAIN disk' /\ disk'[e] = disk[e]
      /\ chain \in DOMAIN disk'
      /\ Kept
  <2>1. CASE disk' = disk /\ step \in Starting
    <3>1. \A e \in DOMAIN disk : Sound(disk[e])
      BY DEF DiskInv
    <3>2. Kept
      BY <2>1, <3>1, SameDisk
    <3>3. QED
      BY <2>1, <3>1, <3>2 DEF DiskInv
  <2>2. CASE disk' = Opened(d) /\ (d = chain \/ step \in Starting)
    BY <2>2, OpenLosesNothing DEF DiskInv
  <2>3. QED
    BY <1>6, <2>1, <2>2
<1>8. timers' # {} => step' \in Starting /\ timers' \subseteq 1..disk'[chain'].height
  BY <1>2, <1>3, <1>5, <1>7 DEF Advance, DiskInv, Height
<1>9. DiskInv'
  BY <1>4, <1>5, <1>7, <1>8 DEF DiskInv, Height
<1>10. QED
  BY <1>7, <1>9

\* A step of a service at work adds to its chain.
LEMMA WorkKeeps ==
  ASSUME DiskInv, NEW c, step \in Starting, UNCHANGED process, SetChain(c), Sound(c),
         c.finalized >= Finalized, c.height >= Height,
         timers' \subseteq timers \cup {c.height}, c.height >= 1
  PROVE  DiskInv' /\ Kept
<1>1. /\ UNCHANGED <<step, tasks, config>>
      /\ chain' = chain
      /\ chain \in DOMAIN disk
      /\ Sound(disk[chain])
  BY DEF process, chain, Cfg, DiskInv
<1>2. (\A e \in DOMAIN disk' : Sound(disk'[e])) /\ Kept
  BY <1>1, WriteLosesNothing DEF SetChain, Finalized, Height, DiskInv
<1>3. chain \in DOMAIN disk' /\ disk'[chain] = c
  BY WriteOne DEF SetChain
<1>4. timers' \subseteq 1..c.height
  BY <1>1 DEF DiskInv, Height, Sound
<1>5. DiskInv'
  BY <1>1, <1>2, <1>3, <1>4 DEF DiskInv, Configured, Height
<1>6. QED
  BY <1>2, <1>5

LEMMA DiskNext == DiskInv /\ [Next]_vars => DiskInv' /\ KeptStep
<1> SUFFICES ASSUME DiskInv, [Next]_vars PROVE DiskInv' /\ KeptStep
  OBVIOUS
<1>1. Kept => KeptStep
  BY DEF Kept, KeptStep
<1>2. ASSUME UNCHANGED <<step, tasks, config, timers, disk>> PROVE DiskInv' /\ Kept
  <2>1. DiskInv'
    BY <1>2 DEF DiskInv, Configured, Height, chain, Cfg
  <2>2. \A d \in DOMAIN disk : Sound(disk[d])
    BY DEF DiskInv
  <2>3. Kept
    BY <1>2, <2>2, SameDisk
  <2>4. QED
    BY <2>1, <2>3
<1>3. ASSUME NEW a \in Invocations, Invoke(a) PROVE DiskInv' /\ Kept
  <2>1. tasks = {} /\ timers = {}
    BY <1>3 DEF Invoke, DiskInv, Configured, Starting
  <2>2. /\ step' = "configured" /\ tasks' = {} /\ timers' = {} /\ disk' = disk
    BY <1>3, <2>1 DEF Invoke, volatile, files
  <2>3. \A d \in DOMAIN disk : Sound(disk[d])
    BY DEF DiskInv
  <2>4. DiskInv'
    BY <2>2, <2>3 DEF DiskInv, Configured, Starting, Quiet
  <2>5. Kept
    BY <2>2, <2>3, SameDisk
  <2>6. QED
    BY <2>4, <2>5
<1>4. CASE \E result : Stop(result)
  BY <1>4, EndLosesNothing, <1>1 DEF Stop
<1>18. PurgeGivenUp => \E result : Stop(result)
  BY DEF PurgeGivenUp
<1>5. CASE BuildSpec \/ OtherCommand
  BY <1>5, EndLosesNothing, <1>1 DEF BuildSpec, OtherCommand, files
<1>6. CASE PurgeChain
  <2>1. /\ \A d \in DOMAIN disk' : d \in DOMAIN disk /\ disk'[d] = disk[d]
    BY <1>6 DEF PurgeChain, PurgeParachain, PurgeRelayChain, Restrict
  <2>2. \A d \in DOMAIN disk' : Sound(disk'[d])
    BY <2>1 DEF DiskInv
  <2>3. DiskInv'
    <3>1. tasks' = {} /\ timers' = {} /\ step' \in Quiet
      BY <1>6 DEF PurgeChain, PurgeParachain, PurgeRelayChain, At, DiskInv, Configured, End,
                  volatile, Starting, Quiet
    <3> QED
      BY <2>2, <3>1 DEF DiskInv, Configured, Starting, Quiet
  <2>4. QED
    BY <1>6, <2>3 DEF KeptStep
<1>7. CASE ChainOperation
  BY <1>7, ChainOperationKeeps
<1>8. CASE Start
  BY <1>8, StartKeeps, <1>1
<1>9. CASE Submit
  BY <1>9, <1>2, <1>1 DEF Submit, process, files
<1>10. ASSUME "instant-seal" \in tasks \/ "cumulus-consensus" \in tasks \/ timers # {}
              \/ tasks \cap {"aura", "network"} # {}
       PROVE  /\ step \in Starting
              /\ chain \in DOMAIN disk
              /\ disk[chain] \in [height : Nat, finalized : Nat]
              /\ Finalized \in Nat /\ Height \in Nat /\ Finalized <= Height
  <2>1. step \in Starting /\ chain \in DOMAIN disk
    BY <1>10 DEF DiskInv, Configured
  <2>2. QED
    BY <2>1 DEF DiskInv, Sound, Finalized, Height
<1>11. CASE Seal
  <2>0. PICK k \in 0..ready : SealFirst(k)
    BY <1>11 DEF Seal
  <2>1. CASE k = 0
    BY <2>0, <2>1, <1>2, <1>1 DEF SealFirst, process
  <2>2. CASE k # 0
    <3> DEFINE c == [disk[chain] EXCEPT !.height = @ + 1]
    <3>1. SetChain(c) /\ timers' \subseteq timers \cup {Height + 1} /\ UNCHANGED process
      BY <2>0, <2>2 DEF SealFirst
    <3>2. step \in Starting /\ disk[chain] \in [height : Nat, finalized : Nat] /\ Finalized <= Height
      BY <2>0, <1>10 DEF SealFirst
    <3>3. /\ Sound(c) /\ c.finalized >= Finalized /\ c.height >= Height
          /\ c.height = Height + 1 /\ c.height >= 1
      BY <3>2 DEF Sound, Finalized, Height
    <3>4. QED
      BY <3>1, <3>2, <3>3, WorkKeeps, <1>1
  <2>3. QED
    BY <2>1, <2>2
<1>12. CASE Finalize
  <2>1. PICK b \in timers :
          /\ timers' = timers \ {b}
          /\ SetChain([disk[chain] EXCEPT !.finalized = Max({@, b})])
    BY <1>12 DEF Finalize
  <2> DEFINE c == [disk[chain] EXCEPT !.finalized = Max({@, b})]
  <2>2. /\ step \in Starting /\ disk[chain] \in [height : Nat, finalized : Nat]
        /\ Finalized \in Nat /\ Height \in Nat /\ Finalized <= Height
    BY <2>1, <1>10
  <2>3. b \in 1..Height
    BY <2>1 DEF DiskInv
  <2>4. /\ Max({Finalized, b}) \in {Finalized, b}
        /\ Max({Finalized, b}) >= Finalized
    BY <2>2, <2>3, MaxOfTwo
  <2>5. /\ Sound(c) /\ c.finalized >= Finalized /\ c.height >= Height
        /\ c.height >= 1
    BY <2>2, <2>3, <2>4 DEF Sound, Finalized, Height
  <2>6. QED
    BY <1>12, <2>1, <2>2, <2>5, WorkKeeps, <1>1 DEF Finalize
<1>13. CASE Grow
  <2> DEFINE c == [disk[chain] EXCEPT !.height = @ + 1]
  <2>1. step \in Starting /\ disk[chain] \in [height : Nat, finalized : Nat] /\ Finalized <= Height
    BY <1>13, <1>10 DEF Grow
  <2>2. Sound(c) /\ c.finalized >= Finalized /\ c.height >= Height /\ c.height >= 1
    BY <2>1 DEF Sound, Finalized, Height
  <2>3. QED
    BY <1>13, <2>1, <2>2, WorkKeeps, <1>1 DEF Grow, volatile
<1>14. CASE FollowFinality
  <2> DEFINE c == [disk[chain] EXCEPT !.finalized = @ + 1]
  <2>1. /\ step \in Starting /\ disk[chain] \in [height : Nat, finalized : Nat]
        /\ Finalized < Height
    BY <1>14, <1>10 DEF FollowFinality
  <2>2. Sound(c) /\ c.finalized >= Finalized /\ c.height >= Height /\ c.height >= 1
    BY <2>1 DEF Sound, Finalized, Height
  <2>3. QED
    BY <1>14, <2>1, <2>2, WorkKeeps, <1>1 DEF FollowFinality, volatile
<1>15. CASE TaskEnds
  <2>0. disk' = disk
    BY <1>15 DEF TaskEnds, files
  <2>1. DiskInv'
    BY <1>15 DEF TaskEnds, DiskInv, Configured, Height, chain, Cfg, files, volatile, Starting
  <2>2. \A d \in DOMAIN disk : Sound(disk[d])
    BY DEF DiskInv
  <2>3. Kept
    BY <2>0, <2>2, SameDisk
  <2>4. QED
    BY <2>1, <2>3, <1>1
<1>16. CASE UNCHANGED vars
  BY <1>16, <1>2, <1>1 DEF vars, process, volatile, files
<1>17. QED
  BY <1>1, <1>3, <1>4, <1>5, <1>6, <1>7, <1>8, <1>9, <1>11, <1>12, <1>13, <1>14, <1>15, <1>16, <1>18
  DEF Next, CommandRefused, StartFails, Exit

\* No crash at any step of a service, and no later command but a purge, takes a
\* chain with a directory of its own, or a finalized block of it, away; blocks
\* that are not final go by a revert only (command.rs:143, dev.rs:63).
THEOREM ChainsPersist == Spec => PersistentChainsAreKept
<1>1. DiskInv /\ [Next]_vars => [KeptStep]_vars
  BY DiskNext
<1>2. DiskInv /\ [Next]_vars => DiskInv'
  BY DiskNext
<1>3. Spec => [][KeptStep]_vars
  BY DiskInit, <1>1, <1>2, PTL DEF Spec
<1>4. QED
  BY <1>3 DEF KeptStep, PersistentChainsAreKept
-----------------------------------------------------------------------------
(* Between commands *)

AtMostOne(S) == \A x, y \in S : x = y

\* A process has one command line and what it configures, and before its service
\* opens the database, nothing else.  A purge has its second step before it when
\* the first has removed the chain's own database.
ProcessInv ==
  /\ step = "idle" => args = {} /\ config = {}
  /\ step # "idle" => \E a \in Invocations : args = {a} /\ config = Configurations(a, json)
  /\ step \in Quiet => key = {} /\ timers = {} /\ ready = 0 /\ notified = 0
  /\ step = "purged" => Arg.command = "purge-chain" /\ config # {} /\ chain \notin DOMAIN disk
  /\ AtMostOne(json)
  /\ key \subseteq {"collator"}
  /\ runs \in 0..MaxRuns
  /\ ready \in Nat
  /\ notified \in Nat

\* There are blocks for every transaction that is ready, and no database is in a
\* temporary directory until a service opens one there.
BlocksInv ==
  /\ disk = [d \in DOMAIN disk |-> disk[d]]
  /\ \A d \in DOMAIN disk : disk[d] \in Databases
  /\ step \in Quiet => \A d \in DOMAIN disk : ~IsTemporary(d)
  /\ exported \in 0..MaxBlocks
  /\ ready # 0 => Development /\ Height + ready <= MaxBlocks

RunInv == ServiceInv /\ DiskInv /\ ProcessInv /\ BlocksInv

\* A command line names one specification at most.
LEMMA OneSpecification ==
  ASSUME NEW id, NEW j, AtMostOne(j) PROVE AtMostOne(load_spec(id, j))
<1>1. \/ load_spec(id, j) = {development_config}
      \/ load_spec(id, j) = {local_testnet_config}
      \/ load_spec(id, j) = {spec \in j : try_get(spec) # {}}
  <2>1. CASE id \in {"", "dev"}
    BY <2>1 DEF load_spec
  <2>2. CASE id = "contracts-parachain-local"
    BY <2>2 DEF load_spec
  <2>3. CASE id \notin {"", "dev"} /\ id # "contracts-parachain-local"
    BY <2>3 DEF load_spec
  <2> QED
    BY <2>1, <2>2, <2>3
<1> QED
  BY <1>1 DEF AtMostOne

LEMMA OneConfiguration ==
  ASSUME NEW a, NEW j, AtMostOne(j) PROVE AtMostOne(Configurations(a, j))
BY OneSpecification DEF Configurations, AtMostOne

LEMMA OneAtMost ==
  ASSUME NEW S, AtMostOne(S) PROVE Cardinality(S) <= 1
<1>1. CASE S = {}
  BY <1>1, FS_EmptySet
<1>2. CASE S # {}
  <2>1. PICK x : S = {x}
    BY <1>2 DEF AtMostOne
  <2>2. Cardinality({x}) = 1
    BY FS_Singleton
  <2>3. 1 <= 1
    OBVIOUS
  <2> QED
    BY <2>1, <2>2, <2>3
<1> QED
  BY <1>1, <1>2

\* The command line and the configuration of a process that is there.
LEMMA CurrentCommand ==
  ASSUME ProcessInv, step # "idle"
  PROVE  /\ args = {Arg} /\ Arg \in Invocations
         /\ config = Configurations(Arg, json)
         /\ config # {} => Cfg \in config /\ config = {Cfg} /\ Cfg.dir = base_path(Arg)
<1>1. PICK a \in Invocations : args = {a} /\ config = Configurations(a, json)
  BY DEF ProcessInv
<1>2. Arg = a
  BY <1>1 DEF Arg
<1>3. AtMostOne(config)
  BY <1>1, OneConfiguration DEF ProcessInv
<1>4. config # {} => Cfg \in config /\ config = {Cfg}
  BY <1>3, CfgIsConfigured DEF AtMostOne
<1>5. \A c \in config : c.dir = base_path(a)
  BY <1>1 DEF Configurations
<1> QED
  BY <1>1, <1>2, <1>4, <1>5

\* The first component of a path, and of one below it.
LEMMA HeadOfPath ==
  ASSUME NEW x, NEW y
  PROVE  Head(<<x>>) = x /\ Head(Append(<<x>>, y)) = x
<1>1. Head(<<x>>) = x
  OBVIOUS
<1>2. /\ <<x>> \in Seq({x, y}) /\ Append(<<x>>, y) \in Seq({x, y})
      /\ Append(<<x>>, y)[1] = x
  OBVIOUS
<1> QED
  BY <1>1, <1>2

\* Only a run has its databases in a temporary directory.
LEMMA OnlyRunsAreTemporary ==
  ASSUME NEW a \in Args
  PROVE  /\ Head(Directory(a.base)) # "temporary"
         /\ Head(Append(Directory(a.base), "polkadot")) # "temporary"
         /\ a.command # "run" => base_path(a) = Directory(a.base)
         /\ Head(Temporary) = "temporary"
         /\ Head(Append(Temporary, "polkadot")) = "temporary"
<1>1. a.base \in BasePaths \cup {""}
  BY DEF Args
<1> DEFINE b == IF a.base = "" THEN "default" ELSE a.base
<1>2. b # "temporary"
  BY <1>1, BasePathsAreOther
<1>3. Directory(a.base) = <<b>>
  BY DEF Directory
<1> HIDE DEF b
<1>4. Head(<<b>>) = b /\ Head(Append(<<b>>, "polkadot")) = b
  BY HeadOfPath
<1>5. Head(Temporary) = "temporary" /\ Head(Append(Temporary, "polkadot")) = "temporary"
  BY HeadOfPath DEF Temporary
<1>6. a.command # "run" => base_path(a) = Directory(a.base)
  BY DEF base_path
<1> QED
  BY <1>2, <1>3, <1>4, <1>5, <1>6

LEMMA RunInit == Init => RunInv
<1>1. Init => ProcessInv /\ BlocksInv
  BY BoundsAreNatural DEF Init, ProcessInv, BlocksInv, AtMostOne
<1> QED
  BY <1>1, ServiceInit, DiskInit DEF RunInv
\* A process that ends leaves nothing in memory, and no temporary directory if
\* its last act is to remove them or it has not opened one.
LEMMA EndKeepsRunInv ==
  ASSUME RunInv, NEW r, End(r), UNCHANGED runs, ServiceInv', DiskInv',
         AtMostOne(json'), exported' \in 0..MaxBlocks,
         disk' = [d \in DOMAIN disk' |-> disk'[d]],
         \A d \in DOMAIN disk' : disk'[d] \in Databases /\ ~IsTemporary(d)
  PROVE  RunInv'
<1>1. ProcessInv'
  BY DEF End, ProcessInv, RunInv
<1>2. BlocksInv'
  BY DEF End, BlocksInv
<1> QED
  BY <1>1, <1>2 DEF RunInv

\* A step of a service that is starting or at work, which keeps its command.
LEMMA ServiceKeepsProcess ==
  ASSUME RunInv, step \in {"configured"} \cup Starting, step' \in Starting,
         UNCHANGED <<args, config, json, runs>>, key' \subseteq {"collator"},
         ready' \in Nat, notified' \in Nat
  PROVE  ProcessInv'
<1> USE DEF RunInv
<1>1. step # "idle" /\ step' \notin Quiet
  BY DEF Starting, Quiet
<1> QED
  BY <1>1 DEF ProcessInv, Quiet

\* The same of its disk, when only one database is written.
LEMMA ServiceKeepsBlocks ==
  ASSUME RunInv, step' \in Starting, UNCHANGED <<config, exported>>, NEW d, NEW c \in Databases,
         disk' = Written(d, c), ready' # 0 => Development /\ disk'[chain].height + ready' <= MaxBlocks
  PROVE  BlocksInv'
<1>1. /\ DOMAIN disk' = {d} \cup DOMAIN disk
      /\ disk'[d] = c
      /\ \A e \in DOMAIN disk \ {d} : disk'[e] = disk[e]
  BY WriteOne
<1>2. disk' = [e \in DOMAIN disk' |-> disk'[e]]
  BY DEF Written
<1>3. \A e \in DOMAIN disk' : disk'[e] \in Databases
  BY <1>1 DEF RunInv, BlocksInv
<1>4. chain' = chain /\ (Development' <=> Development)
  BY DEF chain, Cfg, Development
<1>5. (ready # 0 => Development /\ Height + ready <= MaxBlocks)'
  BY <1>4 DEF Height
<1>6. step' \notin Quiet /\ exported' \in 0..MaxBlocks
  BY DEF Starting, RunInv, BlocksInv, Quiet
<1> QED
  BY <1>2, <1>3, <1>5, <1>6 DEF BlocksInv

\* Opening a database is writing the genesis to a new one, or nothing.
LEMMA OpeningKeepsBlocks ==
  ASSUME RunInv, step' \in Starting, UNCHANGED <<config, exported, ready>>, NEW d,
         disk' = Opened(d), ready # 0 => chain \in DOMAIN disk
  PROVE  BlocksInv'
<1>1. Genesis \in Databases
  BY BoundsAreNatural DEF Genesis, Databases
<1>2. chain' = chain /\ (Development' <=> Development)
  BY DEF chain, Cfg, Development
<1>3. \A e \in DOMAIN disk : e \in DOMAIN disk' /\ disk'[e] = disk[e]
  BY OpenOne
<1>4. ready' # 0 => Development /\ disk'[chain].height + ready' <= MaxBlocks
  BY <1>3 DEF RunInv, BlocksInv, Height
<1>5. CASE disk' = disk
  <2>1. step' \notin Quiet
    BY DEF Starting, Quiet
  <2> QED
    BY <1>2, <1>4, <1>5, <2>1 DEF RunInv, BlocksInv, Height
<1>6. CASE disk' = Written(d, Genesis)
  BY <1>1, <1>4, <1>6, ServiceKeepsBlocks
<1> QED
  BY <1>5, <1>6 DEF Opened
\* A chain operation keeps to the bounds.
LEMMA OperationKeepsBounds ==
  ASSUME NEW command, NEW c \in Databases, c.finalized <= c.height, NEW file \in 0..MaxBlocks,
         NEW r \in Operated(command, c, file)
  PROVE  r[1] \in Databases /\ r[2] \in 0..MaxBlocks
<1>1. c.height \in 1..MaxBlocks /\ c.finalized \in 1..MaxBlocks
  BY DEF Databases
<1>2. ASSUME NEW h \in 1..MaxBlocks PROVE [c EXCEPT !.height = h] \in Databases
  BY DEF Databases
<1>3. CASE command = "import-blocks"
  <2>1. PICK h \in {g \in c.height..MaxBlocks : g <= file \/ g = c.height} :
          r = <<[c EXCEPT !.height = h], file>>
    BY <1>3 DEF Operated
  <2> QED
    BY <1>1, <1>2, <2>1, BoundsAreNatural
<1>4. CASE command = "revert"
  <2>1. PICK h \in c.finalized..c.height : r = <<[c EXCEPT !.height = h], file>>
    BY <1>4 DEF Operated
  <2> QED
    BY <1>1, <1>2, <2>1, BoundsAreNatural
<1>5. CASE command = "export-blocks"
  BY <1>1, <1>5, BoundsAreNatural DEF Operated
<1>6. CASE command \notin {"import-blocks", "revert", "export-blocks"}
  BY <1>6 DEF Operated
<1> QED
  BY <1>3, <1>4, <1>5, <1>6

\* The steps that end a process.
LEMMA EndsKeepRunInv ==
  ASSUME RunInv, ServiceInv', DiskInv',
         (\E r : Stop(r)) \/ BuildSpec \/ OtherCommand \/ PurgeRelayChain
  PROVE  RunInv'
<1> USE DEF RunInv
<1>1. /\ disk = [d \in DOMAIN disk |-> disk[d]]
      /\ \A d \in DOMAIN disk : disk[d] \in Databases
      /\ exported \in 0..MaxBlocks /\ AtMostOne(json)
      /\ step \in {"configured", "purged"} => \A d \in DOMAIN disk : ~IsTemporary(d)
  BY DEF BlocksInv, ProcessInv, Quiet
<1>2. CASE \E r : Stop(r)
  <2>1. PICK r : Stop(r)
    BY <1>2
  <2>2. /\ disk' = [d \in DOMAIN disk' |-> disk'[d]]
        /\ \A d \in DOMAIN disk' : disk'[d] \in Databases /\ ~IsTemporary(d)
    BY <1>1, <2>1 DEF Stop, Persistent, Restrict
  <2>3. UNCHANGED <<runs, json, exported>> /\ End(r)
    BY <2>1 DEF Stop
  <2> QED
    BY <1>1, <2>2, <2>3, EndKeepsRunInv
<1>3. CASE BuildSpec
  <2>1. AtMostOne(json') /\ End("ok") /\ UNCHANGED <<disk, exported, runs>> /\ step = "configured"
    BY <1>3 DEF BuildSpec, AtMostOne, At
  <2> QED
    BY <1>1, <2>1, EndKeepsRunInv
<1>4. CASE OtherCommand
  <2>1. PICK r : End(r)
    BY <1>4 DEF OtherCommand
  <2>2. UNCHANGED <<disk, json, exported, runs>> /\ step = "configured"
    BY <1>4 DEF OtherCommand, At, files
  <2> QED
    BY <1>1, <2>1, <2>2, EndKeepsRunInv
<1>5. CASE PurgeRelayChain
  <2>1. /\ disk' = [d \in DOMAIN disk' |-> disk'[d]]
        /\ \A d \in DOMAIN disk' : disk'[d] \in Databases /\ d \in DOMAIN disk
    BY <1>1, <1>5 DEF PurgeRelayChain, Restrict
  <2>2. UNCHANGED <<json, exported, runs>> /\ End("ok") /\ step = "purged"
    BY <1>5 DEF PurgeRelayChain
  <2> QED
    BY <1>1, <2>1, <2>2, EndKeepsRunInv
<1> QED
  BY <1>2, <1>3, <1>4, <1>5

LEMMA PurgeParachainKeepsRunInv ==
  ASSUME RunInv, ServiceInv', DiskInv', PurgeParachain
  PROVE  RunInv'
<1> USE DEF RunInv
<1>1. /\ step = "configured" /\ step' = "purged" /\ Arg.command = "purge-chain" /\ config # {}
      /\ disk' = Restrict(disk, DOMAIN disk \ {chain})
      /\ UNCHANGED <<args, config, key, ready, notified, timers, json, exported, runs>>
  BY DEF PurgeParachain, At, volatile
<1>2. /\ DOMAIN disk' = DOMAIN disk \ {chain}
      /\ disk' = [d \in DOMAIN disk' |-> disk'[d]]
      /\ \A d \in DOMAIN disk' : d \in DOMAIN disk /\ disk'[d] = disk[d]
  BY <1>1 DEF Restrict
<1>3. ProcessInv'
  <2>1. Arg' = Arg /\ chain' = chain
    BY <1>1 DEF Arg, chain, Cfg
  <2> QED
    BY <1>1, <1>2, <2>1 DEF ProcessInv, Quiet
<1>4. BlocksInv'
  <2>1. ready' = 0
    BY <1>1 DEF ProcessInv, Quiet
  <2> QED
    BY <1>1, <1>2, <2>1 DEF BlocksInv, Quiet
<1> QED
  BY <1>3, <1>4

LEMMA ChainOperationKeepsRunInv ==
  ASSUME RunInv, ServiceInv', DiskInv', ChainOperation
  PROVE  RunInv'
<1> USE DEF RunInv
<1>1. PICK result : End(result)
  BY DEF ChainOperation
<1>2. step = "configured" /\ config # {} /\ Arg.command \in ChainOperations
  BY DEF ChainOperation, At
<1>3. ~IsTemporary(chain)
  <2>1. Cfg.dir = base_path(Arg) /\ Arg \in Args
    BY <1>2, CurrentCommand, InvocationsAreArgs
  <2>2. Arg.command # "run"
    BY <1>2 DEF ChainOperations
  <2>3. chain.dir = Directory(Arg.base)
    BY <2>1, <2>2, OnlyRunsAreTemporary DEF chain, Database
  <2> QED
    BY <2>1, <2>3, OnlyRunsAreTemporary DEF IsTemporary
<1>4. \A d \in DOMAIN disk : disk[d] \in Databases /\ Sound(disk[d]) /\ ~IsTemporary(d)
  BY <1>2 DEF BlocksInv, DiskInv, Quiet
<1> DEFINE c == Opened(chain)[chain]
<1>5. c \in Databases /\ c.finalized <= c.height
  <2>1. CASE chain \in DOMAIN disk
    BY <2>1, <1>4 DEF Opened, Sound
  <2>2. CASE chain \notin DOMAIN disk
    <3>1. c = Genesis
      BY <2>2 DEF Opened, Written
    <3> QED
      BY <3>1, BoundsAreNatural DEF Genesis, Databases
  <2> QED
    BY <2>1, <2>2
<1>6. PICK b \in Databases : disk' = disk \/ disk' = Written(chain, b)
  <2> HIDE DEF c
  <2>1. CASE \E r \in Operated(Arg.command, c, exported) : disk' = Written(chain, r[1])
    BY <1>5, <2>1, OperationKeepsBounds DEF BlocksInv
  <2>2. CASE disk' = Opened(chain)
    BY <1>5, <2>2, BoundsAreNatural DEF Opened, Genesis, Databases
  <2> QED
    BY <2>1, <2>2 DEF ChainOperation, c
<1>7. exported' \in 0..MaxBlocks
  <2> HIDE DEF c
  <2>1. CASE \E r \in Operated(Arg.command, c, exported) : exported' = r[2]
    BY <1>5, <2>1, OperationKeepsBounds DEF BlocksInv
  <2>2. CASE exported' = exported
    BY <2>2 DEF BlocksInv
  <2> QED
    BY <2>1, <2>2 DEF ChainOperation, c
<1>8. /\ disk' = [d \in DOMAIN disk' |-> disk'[d]]
      /\ \A d \in DOMAIN disk' : disk'[d] \in Databases /\ ~IsTemporary(d)
  <2>1. CASE disk' = disk
    BY <2>1, <1>4 DEF BlocksInv
  <2>2. CASE disk' = Written(chain, b)
    <3>1. disk' = [d \in DOMAIN disk' |-> disk'[d]]
      BY <2>2 DEF Written
    <3>2. /\ DOMAIN disk' = {chain} \cup DOMAIN disk
          /\ disk'[chain] = b
          /\ \A e \in DOMAIN disk \ {chain} : disk'[e] = disk[e]
      BY <2>2, WriteOne
    <3> QED
      BY <3>1, <3>2, <1>3, <1>4
  <2> QED
    BY <1>6, <2>1, <2>2
<1>9. UNCHANGED <<json, runs>> /\ AtMostOne(json)
  BY DEF ChainOperation, ProcessInv
<1> QED
  BY <1>1, <1>7, <1>8, <1>9, EndKeepsRunInv
LEMMA StartKeepsRunInv ==
  ASSUME RunInv, ServiceInv', DiskInv', Start
  PROVE  RunInv'
<1> USE DEF RunInv
<1>1. \E from \in {"configured"} \cup Starting, to \in Starting :
        \E started : Advance(from, to, started)
  BY DEF Start, OpenDevelopment, SpawnTasks, StartSealing, StartFinalizing, OpenParachain,
    BuildRelayChainInterface, StartRelayChainTasks, StartConsensus, Starting
<1>2. /\ step \in {"configured"} \cup Starting /\ step' \in Starting
      /\ UNCHANGED <<args, config, runs>>
  BY <1>1 DEF Advance
<1>3. UNCHANGED <<json, exported, ready, notified>>
  BY DEF Start, OpenDevelopment, SpawnTasks, StartSealing, StartFinalizing, OpenParachain,
    BuildRelayChainInterface, StartRelayChainTasks, StartConsensus, volatile, files
<1>4. key' = key \/ key' \in {{"collator"}, {}}
  BY DEF Start, OpenDevelopment, SpawnTasks, StartSealing, StartFinalizing, OpenParachain,
    BuildRelayChainInterface, StartRelayChainTasks, StartConsensus
<1>5. ProcessInv'
  <2>1. key' \subseteq {"collator"} /\ ready' \in Nat /\ notified' \in Nat
    BY <1>3, <1>4 DEF ProcessInv
  <2> QED
    BY <1>2, <1>3, <2>1, ServiceKeepsProcess
<1>6. ready # 0 => chain \in DOMAIN disk
  BY <1>2 DEF ProcessInv, DiskInv, Quiet
<1>7. \E d : disk' = Opened(d)
  <2>1. CASE OpenDevelopment \/ OpenParachain \/ BuildRelayChainInterface
    BY <2>1 DEF OpenDevelopment, OpenParachain, BuildRelayChainInterface
  <2>2. CASE SpawnTasks \/ StartSealing \/ StartFinalizing \/ StartRelayChainTasks \/ StartConsensus
    <3>1. disk' = disk /\ step \in Starting
      BY <2>2 DEF SpawnTasks, StartSealing, StartFinalizing, StartRelayChainTasks,
        StartConsensus, Advance, files, Starting
    <3>2. disk' = Opened(chain)
      BY <3>1 DEF Opened, DiskInv
    <3> QED
      BY <3>2
  <2> QED
    BY <2>1, <2>2 DEF Start
<1>8. BlocksInv'
  BY <1>2, <1>3, <1>6, <1>7, OpeningKeepsBlocks
<1> QED
  BY <1>5, <1>8

\* A block more or a block finalized; a transaction that comes in has room.
LEMMA WorkKeepsRunInv ==
  ASSUME RunInv, ServiceInv', DiskInv',
         Submit \/ Seal \/ Finalize \/ Grow \/ FollowFinality \/ TaskEnds
  PROVE  RunInv'
<1> USE DEF RunInv
<1>1. step \in Starting
  BY DEF Submit, Seal, SealFirst, Finalize, Grow, FollowFinality, TaskEnds, DiskInv, Configured, Starting
<1>2. UNCHANGED <<args, config, step, key, runs, json, exported>>
  BY DEF Submit, Seal, SealFirst, Finalize, Grow, FollowFinality, TaskEnds, process, files
<1>3. ready' \in Nat /\ notified' \in Nat
  BY DEF Submit, Seal, SealFirst, Finalize, Grow, FollowFinality, TaskEnds, volatile, ProcessInv
<1>4. ProcessInv'
  <2>1. key' \subseteq {"collator"}
    BY <1>2 DEF ProcessInv
  <2> QED
    BY <1>1, <1>2, <1>3, <2>1, ServiceKeepsProcess
<1>5. /\ chain \in DOMAIN disk /\ disk[chain] \in Databases /\ Finalized <= Height
      /\ Height \in 1..MaxBlocks /\ Finalized \in 1..MaxBlocks
  BY <1>1 DEF DiskInv, BlocksInv, Sound, Databases, Height, Finalized
<1>6. chain' = chain /\ (Development' <=> Development)
  BY <1>2 DEF chain, Cfg, Development
<1>7. ASSUME NEW c \in Databases, disk' = Written(chain, c),
             ready' # 0 => Development /\ c.height + ready' <= MaxBlocks
      PROVE  BlocksInv'
  <2>1. disk'[chain] = c
    BY <1>7, WriteOne
  <2> QED
    BY <1>1, <1>2, <1>7, <2>1, ServiceKeepsBlocks
<1>8. ASSUME UNCHANGED disk, ready' # 0 => Development /\ Height + ready' <= MaxBlocks
      PROVE  BlocksInv'
  BY <1>1, <1>2, <1>6, <1>8 DEF BlocksInv, Height, Starting
<1>9. ready # 0 => Development /\ Height + ready <= MaxBlocks
  BY DEF BlocksInv
<1>10. CASE Submit
  <2>1. UNCHANGED disk /\ Development /\ Height + ready' <= MaxBlocks
    BY <1>5, <1>10, BoundsAreNatural DEF Submit, files, ProcessInv
  <2> QED
    BY <1>4, <1>8, <2>1
<1>11. CASE Seal
  <2>0. PICK k \in 0..ready : SealFirst(k)
    BY <1>11 DEF Seal
  <2>3. ready \in Nat /\ k \in Nat /\ k <= ready /\ ready' = ready - k
    BY <2>0 DEF SealFirst, ProcessInv
  <2>1. CASE k = 0
    BY <1>4, <1>8, <1>9, <2>0, <2>1, <2>3 DEF SealFirst
  <2>2. CASE k # 0
    <3>0. ready # 0 /\ Height \in Nat /\ ready' + 1 <= ready
      BY <1>5, <2>2, <2>3
    <3>1. Height + 1 \in 1..MaxBlocks /\ (Height + 1) + ready' <= MaxBlocks /\ Development
      BY <1>5, <1>9, <2>3, <3>0, BoundsAreNatural
    <3> DEFINE c == [disk[chain] EXCEPT !.height = @ + 1]
    <3>2. c \in Databases /\ c.height = Height + 1
      BY <1>5, <3>1 DEF Databases, Height
    <3>3. disk' = Written(chain, c)
      BY <2>0, <2>2 DEF SealFirst, SetChain
    <3> HIDE DEF c
    <3> QED
      BY <1>4, <1>7, <3>1, <3>2, <3>3
  <2> QED
    BY <2>1, <2>2
<1>12. CASE Finalize
  <2>1. PICK b \in timers :
          disk' = Written(chain, [disk[chain] EXCEPT !.finalized = Max({@, b})])
    BY <1>12 DEF Finalize, SetChain
  <2> DEFINE c == [disk[chain] EXCEPT !.finalized = Max({@, b})]
  <2>2. b \in 1..Height
    BY <2>1 DEF DiskInv
  <2>3. Max({Finalized, b}) \in 1..MaxBlocks
    <3>1. Finalized \in Nat /\ b \in Nat
      BY <1>5, <2>2
    <3>2. Max({Finalized, b}) \in {Finalized, b}
      BY <3>1, MaxOfTwo
    <3> QED
      BY <1>5, <2>2, <3>2, BoundsAreNatural
  <2>4. c \in Databases /\ c.height = Height
    BY <1>5, <2>3 DEF Databases, Height, Finalized
  <2>5. ready' = ready
    BY <1>12 DEF Finalize
  <2> HIDE DEF c
  <2>6. disk' = Written(chain, c)
    BY <2>1 DEF c
  <2> QED
    BY <1>4, <1>7, <1>9, <2>4, <2>5, <2>6
<1>13. CASE Grow
  <2> DEFINE c == [disk[chain] EXCEPT !.height = @ + 1]
  <2>1. Height + 1 \in 1..MaxBlocks
    BY <1>5, <1>13, BoundsAreNatural DEF Grow
  <2>2. c \in Databases
    BY <1>5, <2>1 DEF Databases, Height
  <2>3. ready' = 0
    BY <1>9, <1>13 DEF Grow, volatile, Parachain, Development
  <2>4. disk' = Written(chain, c)
    BY <1>13 DEF Grow, SetChain
  <2> QED
    BY <1>4, <1>7, <2>2, <2>3, <2>4
<1>14. CASE FollowFinality
  <2> DEFINE c == [disk[chain] EXCEPT !.finalized = @ + 1]
  <2>1. Finalized + 1 \in 1..MaxBlocks
    BY <1>5, <1>14, BoundsAreNatural DEF FollowFinality
  <2>2. c \in Databases /\ c.height = Height
    BY <1>5, <2>1 DEF Databases, Height, Finalized
  <2>3. ready' = ready
    BY <1>14 DEF FollowFinality, volatile
  <2>4. disk' = Written(chain, c)
    BY <1>14 DEF FollowFinality, SetChain
  <2> QED
    BY <1>4, <1>7, <1>9, <2>2, <2>3, <2>4
<1>15. CASE TaskEnds
  BY <1>4, <1>8, <1>9, <1>15 DEF TaskEnds, volatile, files
<1> QED
  BY <1>10, <1>11, <1>12, <1>13, <1>14, <1>15

LEMMA RunNext == RunInv /\ [Next]_vars => RunInv'
<1> SUFFICES ASSUME RunInv, [Next]_vars PROVE RunInv'
  OBVIOUS
<1>1. ServiceInv' /\ DiskInv'
  BY ServiceNext, DiskNext DEF RunInv
<1>2. ASSUME NEW a \in Invocations, Invoke(a) PROVE RunInv'
  <2>1. ProcessInv'
    <3>1. /\ step = "idle" /\ step' = "configured" /\ args' = {a}
          /\ config' = Configurations(a, json') /\ json' = json
          /\ UNCHANGED <<key, timers, ready, notified>>
      BY <1>2 DEF Invoke, files, volatile
    <3>2. runs' \in 0..MaxRuns
      BY <1>2, BoundsAreNatural DEF Invoke, RunInv, ProcessInv
    <3> QED
      BY <3>1, <3>2 DEF RunInv, ProcessInv, Quiet
  <2>2. BlocksInv'
    BY <1>2 DEF Invoke, files, volatile, RunInv, ProcessInv, BlocksInv, Quiet
  <2> QED
    BY <1>1, <2>1, <2>2 DEF RunInv
<1>3. CASE UNCHANGED vars
  <2>1. UNCHANGED <<args, config, step, key, ready, notified, timers, disk, json, exported, runs>>
    BY <1>3 DEF vars, process, volatile, files
  <2>2. ProcessInv'
    BY <2>1 DEF RunInv, ProcessInv, Quiet, Arg, chain, Cfg
  <2>3. BlocksInv'
    BY <2>1 DEF RunInv, BlocksInv, Development, Height, chain, Cfg
  <2> QED
    BY <1>1, <2>2, <2>3 DEF RunInv
<1>4. CASE (\E r : Stop(r)) \/ BuildSpec \/ OtherCommand \/ PurgeRelayChain
  BY <1>1, <1>4, EndsKeepRunInv
<1>8. CASE PurgeParachain
  BY <1>1, <1>8, PurgeParachainKeepsRunInv
<1>9. PurgeGivenUp => \E r : Stop(r)
  BY DEF PurgeGivenUp
<1>5. CASE ChainOperation
  BY <1>1, <1>5, ChainOperationKeepsRunInv
<1>6. CASE Start
  BY <1>1, <1>6, StartKeepsRunInv
<1>7. CASE Submit \/ Seal \/ Finalize \/ Grow \/ FollowFinality \/ TaskEnds
  BY <1>1, <1>7, WorkKeepsRunInv
<1> QED
  BY <1>2, <1>3, <1>4, <1>5, <1>6, <1>7, <1>8, <1>9
  DEF Next, PurgeChain, CommandRefused, StartFails, Exit

LEMMA RunInvariant == Spec => []RunInv
BY RunInit, RunNext, PTL DEF Spec

\* Nothing of a process is left when the next command comes, no temporary
\* directory either, and chains keep to their bounds (command.rs:143).
THEOREM RunTypeCorrect == Spec => []TypeOK
<1>1. RunInv => TypeOK
  <2> SUFFICES ASSUME RunInv PROVE TypeOK
    OBVIOUS
  <2>1. args \subseteq Invocations /\ AtMostOne(args)
    BY CurrentCommand DEF RunInv, ProcessInv, AtMostOne
  <2>2. AtMostOne(config)
    BY OneConfiguration DEF RunInv, ProcessInv, AtMostOne
  <2>3. Cardinality(args) <= 1 /\ Cardinality(config) <= 1
    BY <2>1, <2>2, OneAtMost
  <2>4. \A d \in DOMAIN disk : disk[d] \in Databases /\ disk[d].finalized <= disk[d].height
    BY DEF RunInv, BlocksInv, DiskInv, Sound
  <2>5. timers # {} => timers \subseteq 1..Height
    BY DEF RunInv, DiskInv
  <2>6. json \subseteq {development_config, local_testnet_config}
    BY DEF RunInv, ServiceInv, SpecsKnown, Specifications
  <2>7. step = "idle" => disk = Persistent(disk)
    <3>1. step = "idle" => {d \in DOMAIN disk : ~IsTemporary(d)} = DOMAIN disk
      BY DEF RunInv, BlocksInv, Quiet
    <3> QED
      BY <3>1 DEF RunInv, BlocksInv, Persistent, Restrict
  <2>8. step = "idle" => tasks = {}
    BY DEF RunInv, DiskInv, Configured, Starting
  <2> QED
    BY <2>1, <2>3, <2>4, <2>5, <2>6, <2>7, <2>8 DEF TypeOK, RunInv, ProcessInv, BlocksInv, Quiet
<1> QED
  BY <1>1, RunInvariant, PTL
\* A development chain run without a base path starts from genesis, whatever the
\* commands before it left on the disk (README.md:29).
THEOREM DevelopmentStartsAfresh == Spec => RunsWithoutBasePathStartAfresh
<1>1. RunInv /\ [Next]_vars =>
        [OpenDevelopment /\ Arg.base = "" /\ Arg.chain = "" => disk'[chain] = Genesis]_vars
  <2> SUFFICES ASSUME RunInv, OpenDevelopment, Arg.base = "", Arg.chain = ""
               PROVE  disk'[chain] = Genesis
    OBVIOUS
  <2>1. step = "configured" /\ Arg.command = "run" /\ config # {} /\ disk' = Opened(chain)
    BY DEF OpenDevelopment, At, Development
  <2>2. Arg \in Args /\ Cfg.dir = base_path(Arg)
    BY <2>1, CurrentCommand, InvocationsAreArgs DEF RunInv
  <2>3. base_path(Arg) = Temporary
    BY <2>1 DEF base_path, is_dev
  <2>4. IsTemporary(chain)
    BY <2>2, <2>3, OnlyRunsAreTemporary DEF IsTemporary, chain, Database
  <2>5. chain \notin DOMAIN disk
    BY <2>1, <2>4 DEF RunInv, BlocksInv, Quiet
  <2> QED
    BY <2>1, <2>5, OpenOne
<1>2. Spec => [][OpenDevelopment /\ Arg.base = "" /\ Arg.chain = "" => disk'[chain] = Genesis]_vars
  BY <1>1, RunInvariant, PTL DEF Spec
<1> QED
  BY <1>2 DEF RunsWithoutBasePathStartAfresh

\* A run that could have made a database, and a purge, read the same chain.
LEMMA SameSpecification ==
  ASSUME NEW a, NEW b, a.chain = b.chain, NEW j
  PROVE  load_spec(chain_id(a), j) = load_spec(chain_id(b), j)
<1>1. CASE a.chain = ""
  <2>1. chain_id(a) \in {"", "dev"} /\ chain_id(b) \in {"", "dev"}
    BY <1>1 DEF chain_id
  <2>2. ASSUME NEW id \in {"", "dev"} PROVE load_spec(id, j) = {development_config}
    BY <2>2 DEF load_spec
  <2> QED
    BY <2>1, <2>2
<1>2. CASE a.chain # ""
  BY <1>2 DEF chain_id
<1> QED
  BY <1>1, <1>2

\* What a configuration has from its command line.
LEMMA ConfigurationOf ==
  ASSUME NEW a, NEW j, NEW c \in Configurations(a, j)
  PROVE  c.spec \in load_spec(chain_id(a), j) /\ c.dir = base_path(a)
BY DEF Configurations

\* What a purge leaves of the databases of a run with its chain and base path.
LEMMA PurgeTakesAll ==
  ASSUME RunInv, PurgeRelayChain, NEW a \in Invocations, a.command = "run", a.relay_base = "",
         a.chain = Arg.chain, a.base = Arg.base, NEW c \in Configurations(a, json)
  PROVE  {Database(c), RelayDatabase(a, c)} \cap DOMAIN disk' = {}
<1>1. /\ step = "purged" /\ Arg.command = "purge-chain" /\ config # {}
      /\ chain \notin DOMAIN disk
      /\ disk' = Restrict(disk, DOMAIN disk \ {RelayDatabase(Arg, Cfg)})
  BY DEF PurgeRelayChain, RunInv, ProcessInv
<1>2. /\ DOMAIN disk' = DOMAIN disk \ {RelayDatabase(Arg, Cfg)}
      /\ chain \notin DOMAIN disk'
  BY <1>1 DEF Restrict
<1>3. \A d \in DOMAIN disk : ~IsTemporary(d)
  BY <1>1 DEF RunInv, BlocksInv, Quiet
<1>4. a \in Args /\ Arg \in Args /\ Arg.relay_base = ""
  BY <1>1, CurrentCommand, InvocationsAreArgs, SubcommandsAreNoRuns DEF RunInv
<1>5. Cfg.dir = Directory(a.base)
  BY <1>1, <1>4, CurrentCommand, OnlyRunsAreTemporary DEF RunInv
<1>6. c.spec = Cfg.spec
  <2>1. Cfg \in Configurations(Arg, json)
    BY <1>1, CurrentCommand DEF RunInv
  <2>2. c.spec \in load_spec(chain_id(a), json) /\ Cfg.spec \in load_spec(chain_id(Arg), json)
    BY <2>1, ConfigurationOf, Zenon
  <2>3. load_spec(chain_id(a), json) = load_spec(chain_id(Arg), json)
    BY SameSpecification
  <2>4. \A s, t \in load_spec(chain_id(a), json) : s = t
    BY OneSpecification DEF RunInv, ProcessInv, AtMostOne
  <2> QED
    BY <2>2, <2>3, <2>4
<1>7. c.dir = base_path(a)
  BY ConfigurationOf, Zenon
<1>8. CASE base_path(a) = Temporary
  <2>1. IsTemporary(Database(c)) /\ IsTemporary(RelayDatabase(a, c))
    BY <1>4, <1>7, <1>8, OnlyRunsAreTemporary
    DEF IsTemporary, Database, RelayDatabase, relay_base_path
  <2> QED
    BY <1>2, <1>3, <2>1
<1>9. CASE base_path(a) = Directory(a.base)
  <2>1. c.dir = Cfg.dir
    BY <1>5, <1>7, <1>9
  <2>2. Database(c) = chain
    BY <1>6, <2>1 DEF Database, chain
  <2>3. RelayDatabase(a, c) = RelayDatabase(Arg, Cfg)
    BY <1>4, <1>6, <2>1 DEF RelayDatabase, relay_base_path, relay_chain_id
  <2> QED
    BY <1>2, <2>2, <2>3
<1> QED
  BY <1>8, <1>9 DEF base_path

\* A purge that ends well has removed what a run on the same chain and base path has put on the disk,
\* the relay chain's database included, whichever mode it ran in (command.rs:308).
THEOREM PurgeLeavesNothing == Spec => PurgeIsComplete
<1> DEFINE Purged ==
      PurgeRelayChain =>
        \A a \in Invocations :
          /\ a.command = "run" /\ a.relay_base = ""
          /\ a.chain = Arg.chain /\ a.base = Arg.base
          => \A c \in Configurations(a, json) :
               {Database(c), RelayDatabase(a, c)} \cap DOMAIN disk' = {}
<1>1. RunInv => Purged
  BY PurgeTakesAll
<1>2. RunInv /\ [Next]_vars => [Purged]_vars
  BY <1>1
<1>3. Spec => [][Purged]_vars
  <2> HIDE DEF Purged
  <2> QED
    BY <1>2, RunInvariant, PTL DEF Spec
<1> QED
  BY <1>3 DEF PurgeIsComplete
=============================================================================
