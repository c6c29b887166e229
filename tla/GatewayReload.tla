--------------------------- MODULE GatewayReload ---------------------------
(* The gateway process: the watcher that polls the configuration file, the    *)
(* main loop that reloads on a change or shuts down on a signal, and the      *)
(* services a reload stops and creates anew.  A version of the file stands    *)
(* for its contents, its modification time and its size; providers and        *)
(* services are named by their generation, the reload that made them.         *)
EXTENDS Naturals, FiniteSets

CONSTANTS MaxVersion,   \* writes of the configuration file
          BadFiles,     \* versions that do not load or validate
          BadProviders, \* versions CreateProvider rejects
          MaxReloads    \* reloads

ASSUME GwAssumption == MaxVersion \in Nat /\ MaxReloads \in Nat

Versions == 0..MaxVersion
NoVersion == MaxVersion + 1
Generations == 0..MaxReloads

VARIABLES gwDisk,    \* the version the file has
          gwKnown,   \* lastModTime and lastSize of the watcher
          gwWatch,   \* the version it has noticed and sleeps on, or NoVersion
          gwChan,    \* configChan, which holds one version, as a set
          gwMain,    \* where the main loop is
          gwNew,     \* the version being reloaded
          gwAgent,   \* the provider the agent loop has, with its configuration
          gwRef,     \* the provider the main loop holds
          gwOpen,    \* providers created and not closed
          gwTurn,    \* the provider a turn is calling, as a set
          gwGen,     \* generation of the newest services
          gwRuns,    \* <<service, generation>>: cron, heartbeat and media loops that run
          gwManager  \* [gen, state]: the channel manager

gwVars == <<gwDisk, gwKnown, gwWatch, gwChan, gwMain, gwNew, gwAgent, gwRef, gwOpen, gwTurn,
            gwGen, gwRuns, gwManager>>
gwWatcher == <<gwDisk, gwKnown, gwWatch>>
gwProviders == <<gwAgent, gwRef, gwOpen>>

LoopServices == {"cron", "heartbeat", "media"}

GwAlive == gwMain \notin {"exited", "panic"}

(* setupAndStartServices: StartAll has a context that is never cancelled. *)
GwInit ==
  /\ gwDisk = 0 /\ gwKnown = 0 /\ gwWatch = NoVersion /\ gwChan = {}
  /\ gwMain = "select" /\ gwNew = NoVersion
  /\ gwAgent = 0 /\ gwRef = 0 /\ gwOpen = {0} /\ gwTurn = {}
  /\ gwGen = 0 /\ gwRuns = LoopServices \X {0}
  /\ gwManager = [gen |-> 0, state |-> "serving"]

----------------------------------------------------------------------------
(* The file and its watcher *)

GwWrite ==
  /\ GwAlive /\ gwDisk < MaxVersion /\ gwDisk' = gwDisk + 1
  /\ UNCHANGED <<gwKnown, gwWatch, gwChan, gwMain, gwNew, gwProviders, gwTurn, gwGen, gwRuns,
                 gwManager>>

(* A tick finds the file changed: it sleeps before it reads. *)
GwNotice ==
  /\ GwAlive /\ gwWatch = NoVersion /\ gwDisk # gwKnown /\ gwWatch' = gwDisk
  /\ UNCHANGED <<gwDisk, gwKnown, gwChan, gwMain, gwNew, gwProviders, gwTurn, gwGen, gwRuns,
                 gwManager>>

(* Plausible defect: a change that was noticed is recorded before it is read. *)
GwLoad_RecordsFirst ==
  /\ GwAlive /\ gwWatch # NoVersion /\ gwWatch' = NoVersion /\ gwKnown' = gwDisk
  /\ gwChan' = IF gwDisk \in BadFiles \/ gwChan # {} THEN gwChan ELSE {gwKnown}
  /\ UNCHANGED <<gwDisk, gwMain, gwNew, gwProviders, gwTurn, gwGen, gwRuns, gwManager>>

(* The sleep is over: what the file holds now is loaded, and what it had      *)
(* before the sleep is recorded, unless it does not load.  If the channel is  *)
(* full the version is skipped.                                               *)
GwLoad ==
  /\ GwAlive /\ gwWatch # NoVersion /\ gwWatch' = NoVersion
  /\ IF gwDisk \in BadFiles THEN UNCHANGED <<gwKnown, gwChan>>
     ELSE /\ gwKnown' = gwWatch
          /\ gwChan' = IF gwChan = {} THEN {gwDisk} ELSE gwChan
  /\ UNCHANGED <<gwDisk, gwMain, gwNew, gwProviders, gwTurn, gwGen, gwRuns, gwManager>>

----------------------------------------------------------------------------
(* handleConfigReload *)

(* Plausible defect: the heartbeat of the old generation is not stopped. *)
Stopped_KeepsHeartbeat == {r \in gwRuns : r[1] = "heartbeat"}

(* stopAndCleanupServices: the loops that still run afterwards. *)
Stopped == {}

(* StopAll on a manager that was stopped closes its queues again and panics.  *)
StopServices(next) ==
  IF gwManager.state = "stopped"
    THEN /\ gwMain' = "panic" /\ UNCHANGED <<gwManager, gwRuns>>
    ELSE /\ gwMain' = next /\ gwRuns' = Stopped
         /\ gwManager' = [gwManager EXCEPT !.state = "stopped"]

GwReload ==
  /\ gwMain = "select" /\ gwChan # {} /\ gwGen < MaxReloads
  /\ \E v \in gwChan : gwNew' = v
  /\ gwChan' = {}
  /\ StopServices("create")
  /\ UNCHANGED <<gwWatcher, gwProviders, gwTurn, gwGen>>

(* CreateProvider: on an error the services restart on the old configuration. *)
GwCreate ==
  /\ gwMain = "create"
  /\ IF gwNew \in BadProviders THEN gwMain' = "restart" /\ UNCHANGED gwOpen
                               ELSE gwMain' = "adopt" /\ gwOpen' = gwOpen \cup {gwGen + 1}
  /\ UNCHANGED <<gwWatcher, gwChan, gwNew, gwAgent, gwRef, gwTurn, gwGen, gwRuns, gwManager>>

(* ReloadProviderAndConfig: it swaps registry and configuration and closes    *)
(* the old provider 100 ms later; or it failed, and the new one is closed.    *)
GwAdopt(ok) ==
  /\ gwMain = "adopt" /\ gwMain' = "restart"
  /\ IF ok THEN /\ gwAgent' = gwGen + 1 /\ gwRef' = gwGen + 1
                /\ gwOpen' = gwOpen \ {gwAgent}
           ELSE /\ gwOpen' = gwOpen \ {gwGen + 1} /\ UNCHANGED <<gwAgent, gwRef>>
  /\ UNCHANGED <<gwWatcher, gwChan, gwNew, gwTurn, gwGen, gwRuns, gwManager>>

(* restartServices: the cron service may fail to start, and nothing after it  *)
(* is created.  When it returns, its context ends, which is the one StartAll  *)
(* gave to the dispatchers, the workers and the channels.                     *)
GwRestart(cronStarts) ==
  /\ gwMain = "restart" /\ gwMain' = "select" /\ gwNew' = NoVersion
  /\ gwGen' = gwGen + 1
  /\ IF cronStarts THEN /\ gwRuns' = gwRuns \cup (LoopServices \X {gwGen + 1})
                        /\ gwManager' = [gen |-> gwGen + 1, state |-> "cancelled"]
                   ELSE UNCHANGED <<gwRuns, gwManager>>
  /\ UNCHANGED <<gwWatcher, gwChan, gwProviders, gwTurn>>

(* A signal: shutdownGateway closes the provider and stops the services. *)
GwShutdown ==
  /\ gwMain = "select" /\ StopServices("exited")
  /\ gwOpen' = gwOpen \ {gwRef}
  /\ UNCHANGED <<gwWatcher, gwChan, gwNew, gwAgent, gwRef, gwTurn, gwGen>>

----------------------------------------------------------------------------
(* A turn of the agent loop calls the provider of the registry it read. *)

GwTurn ==
  /\ GwAlive /\ gwTurn = {} /\ gwTurn' = {gwAgent}
  /\ UNCHANGED <<gwWatcher, gwChan, gwMain, gwNew, gwProviders, gwGen, gwRuns, gwManager>>

GwTurnEnds ==
  /\ GwAlive /\ gwTurn # {} /\ gwTurn' = {}
  /\ UNCHANGED <<gwWatcher, gwChan, gwMain, gwNew, gwProviders, gwGen, gwRuns, gwManager>>

GwWatching == GwNotice \/ GwLoad
GwReloading ==
  \/ GwReload \/ GwCreate
  \/ \E ok \in BOOLEAN : GwAdopt(ok) \/ GwRestart(ok)

GwNext == GwWrite \/ GwWatching \/ GwReloading \/ GwShutdown \/ GwTurn \/ GwTurnEnds

(* The watcher ticks and a reload that began goes on: every step of it has a  *)
(* timeout.                                                                   *)
GwFairness == WF_gwVars(GwWatching) /\ WF_gwVars(GwReloading)

GwSpec == GwInit /\ [][GwNext]_gwVars /\ GwFairness

----------------------------------------------------------------------------
(* The state is well typed. *)
GwTypeOK ==
  /\ {gwDisk, gwKnown} \subseteq Versions /\ {gwAgent, gwRef} \subseteq Generations
  /\ {gwWatch, gwNew} \subseteq Versions \cup {NoVersion}
  /\ gwChan \subseteq Versions /\ Cardinality(gwChan) <= 1
  /\ gwOpen \subseteq Generations /\ gwTurn \subseteq Generations
  /\ gwMain \in {"select", "create", "adopt", "restart", "exited", "panic"}
  /\ gwGen \in Generations /\ gwRuns \subseteq LoopServices \X Generations
  /\ gwManager \in [gen : Generations, state : {"serving", "cancelled", "stopped"}]

(* Between reloads the agent and the main loop have the same provider, it is  *)
(* open and it is the only one: no failure of a reload leaks a provider or    *)
(* leaves the agent with one that is closed.  At most one loop of each        *)
(* service runs, at any time.                                                 *)
OneOfEach ==
  /\ gwMain = "select" => gwRef = gwAgent /\ gwOpen = {gwAgent}
  /\ \A a, b \in gwRuns : a[1] = b[1] => a = b

(* One open provider, one loop of each service.                               *)
GwInv == GwTypeOK /\ OneOfEach

(* A configuration that is written and not followed by another one before the *)
(* watcher offered it is taken by the main loop.                              *)
OfferedIsTaken == gwChan # {} ~> (gwChan = {} \/ ~GwAlive \/ gwGen = MaxReloads)

(* "Provider, configuration, and services reloaded successfully", and of the  *)
(* context of restartServices: "This prevents cancellation from the main loop *)
(* context during reload".  Refuted: the context is cancelled on return.      *)
RestartedChannelsServe ==
  gwMain = "select" /\ gwRuns # {} => gwManager.state = "serving"

(* "Attempting to restart services with old provider and config": a reload    *)
(* that fails leaves a gateway that can reload again.  Refuted: when the cron *)
(* service does not start, the stopped manager is stopped again.              *)
ReloadsAgain == gwMain # "panic"

(* "prevent races with in-flight LLM calls": no turn calls a closed provider. *)
(* Refuted: 100 ms after the swap the old one is closed.                      *)
TurnsHaveProviders == gwMain = "select" => gwTurn \subseteq gwOpen

(* The newest valid configuration is taken in the end.  Refuted: what arrives *)
(* while a reload runs and the channel is full is recorded as seen.           *)
NewestIsTaken ==
  gwDisk = MaxVersion /\ gwWatch # NoVersion
    ~> gwNew = MaxVersion \/ ~GwAlive \/ gwGen = MaxReloads
=============================================================================
