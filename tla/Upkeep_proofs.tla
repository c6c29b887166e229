--------------------------- MODULE Upkeep_proofs ----------------------------
(***************************************************************************)
(* What holds of the work beside the conversation: commands, heartbeats,   *)
(* the gateway's reload, MCP servers and the choice of a provider.         *)
(***************************************************************************)
EXTENDS ExecTool, Heartbeat, GatewayReload, ProviderFallback, McpTools,
        FiniteSetTheorems, TLAPS

(***************************************************************************)
(* The exec tool.  An answer is given once, and only a shell that runs     *)
(* leaves processes behind.                                                *)
(***************************************************************************)
ExIInv ==
    /\ ExInv
    /\ exPc = "done" <=> exResult # "none"
    /\ exPc = "guard" => exShell = "none"
    /\ exShell = "none" => ~exGroup /\ ~exAway
    /\ exResult \in {"ok", "exit", "timeout"} => exShell # "running"

(* Every step preserves it.                                                   *)
LEMMA ExStepIInv == ExIInv /\ [ExNext]_exVars => ExIInv'
<1> SUFFICES ASSUME ExIInv, [ExNext]_exVars PROVE ExIInv'
  OBVIOUS
<1> USE DEF ExIInv, ExInv, ExTypeOK, ExAnswersTruly
<1>1. CASE ExGuard
  BY <1>1 DEF ExGuard, ExEnd
<1>2. CASE ExKill
  BY <1>2 DEF ExKill, TerminateProcessTree
<1>3. CASE ExGrace
  BY <1>3 DEF ExGrace
<1>4. CASE ExWaited
  BY <1>4 DEF ExWaited, ExEnd
<1>5. CASE ExCtxKills
  BY <1>5 DEF ExCtxKills
<1>6. CASE ExOthersEnd
  BY <1>6 DEF ExOthersEnd
<1>7. ASSUME NEW away \in BOOLEAN, ExForks(away) PROVE ExIInv'
  BY <1>7 DEF ExForks
<1>8. ASSUME NEW how \in {"ok", "failed"}, ExShellEnds(how) PROVE ExIInv'
  BY <1>8 DEF ExShellEnds
<1>9. ASSUME NEW why \in {"deadline", "canceled"}, ExCtxEnds(why) PROVE ExIInv'
  BY <1>9 DEF ExCtxEnds
<1>10. CASE UNCHANGED exVars
  BY <1>10 DEF exVars
<1>11. QED
  BY <1>1, <1>2, <1>3, <1>4, <1>5, <1>6, <1>7, <1>8, <1>9, <1>10 DEF ExNext

\* A refused command ran nothing, a success ended well, a timeout is one, and
\* the answer leaves no process that holds its output (Execute).
THEOREM ExecCorrect == ExSpec => []ExInv
<1>1. ExInit => ExIInv
  BY DEF ExInit, ExIInv, ExInv, ExTypeOK, ExAnswersTruly
<1>2. ExIInv => ExInv
  BY DEF ExIInv
<1>3. QED
  BY <1>1, <1>2, ExStepIInv, PTL DEF ExSpec

-----------------------------------------------------------------------------
(***************************************************************************)
(* Heartbeats.  What a service has loaded, and what the files say, is a    *)
(* chat a user wrote from, the internal channel or none.                   *)
(***************************************************************************)
HbKnown == hbSeen \cup {HbInternal, HbNone}

HbIInv ==
    /\ HbInv
    /\ hbFile \in HbKnown \cup {NoFile} /\ hbOld \in HbKnown \cup {NoFile}
    /\ \A g \in Gens : hbSvc[g].last \in HbKnown

(* What is loaded from the file is known.                                     *)
LEMMA LoadedIsKnown ==
    hbFile \in HbKnown \cup {NoFile} /\ hbOld \in HbKnown \cup {NoFile} => Loaded \in HbKnown
  BY DEF Loaded, HbKnown

(* The inductive invariant holds at first.                                    *)
LEMMA HbInitIInv == HbInit => HbIInv
<1> SUFFICES ASSUME HbInit PROVE HbIInv
  OBVIOUS
<1>1. hbFile \in HbKnown \cup {NoFile} /\ hbOld \in HbKnown \cup {NoFile}
  BY DEF HbInit, HbKnown, HbChannels
<1>2. Loaded \in HbKnown /\ Loaded \in HbChannels
  BY <1>1, LoadedIsKnown DEF HbInit, HbChannels, HbKnown
<1>3. /\ hbTasks \in {"missing", "empty", "tasks"} /\ hbFile \in HbChannels \cup {NoFile}
      /\ hbSeen \subseteq HbChats /\ hbLast = HbNone
  BY DEF HbInit
<1>4. hbGen = 1 /\ 1 \in Gens
  BY HbAssumption DEF HbInit, Gens
<1>5. /\ hbSvc \in [Gens -> [on : BOOLEAN, loop : BOOLEAN, last : HbChannels]]
      /\ \A g \in Gens : hbSvc[g].last \in HbKnown /\ (g # hbGen => ~hbSvc[g].on)
  BY <1>2, <1>4 DEF HbInit, HbChannels, HbKnown
<1>6. /\ hbBeat \in [Gens \X Sources ->
                       [pc : {"idle", "waiting", "begun", "prompted", "turn"}, chan : HbChannels]]
      /\ \A b \in DOMAIN hbBeat : hbBeat[b].chan = HbNone
  BY DEF HbInit, HbChannels
<1>7. hbAgent \in HbChannels
  BY <1>2 DEF HbInit
<1>8. QED
  BY <1>1, <1>3, <1>4, <1>5, <1>6, <1>7 DEF HbIInv, HbInv, HbTypeOK, TurnsAreOfUsers, OneServiceBeats

(* Every step preserves it.                                                   *)
LEMMA HbStepIInv == HbIInv /\ [HbNext]_hbVars => HbIInv'
<1> SUFFICES ASSUME HbIInv, [HbNext]_hbVars PROVE HbIInv'
  OBVIOUS
<1> DEFINE Svcs == [on : BOOLEAN, loop : BOOLEAN, last : HbChannels]
           Beats == [pc : {"idle", "waiting", "begun", "prompted", "turn"}, chan : HbChannels]
<1>a. /\ hbTasks \in {"missing", "empty", "tasks"} /\ hbFile \in HbChannels \cup {NoFile}
      /\ hbAgent \in HbChannels /\ hbSeen \subseteq HbChats /\ hbLast \in HbChats \cup {HbNone}
      /\ hbGen \in Gens /\ hbGen \in Nat /\ hbGen >= 1 /\ HbServices \in Nat
      /\ hbSvc \in [Gens -> Svcs] /\ hbBeat \in [Gens \X Sources -> Beats]
  BY HbAssumption DEF HbIInv, HbInv, HbTypeOK, Gens
<1>b. /\ \A g \in Gens : hbSvc[g].last \in HbKnown /\ (g # hbGen => ~hbSvc[g].on)
      /\ \A b \in Gens \X Sources : hbBeat[b].chan \in hbSeen \cup {HbNone}
      /\ hbFile \in HbKnown \cup {NoFile} /\ hbOld \in HbKnown \cup {NoFile}
  BY <1>a DEF HbIInv, HbInv, TurnsAreOfUsers, OneServiceBeats
<1>c. /\ HbKnown \subseteq HbChannels /\ HbNone \in HbChannels
      /\ Loaded \in HbKnown /\ Migrated \subseteq (HbKnown \cap HbChannels) \cup {NoFile}
  BY <1>a, <1>b, LoadedIsKnown DEF HbKnown, HbChannels, Migrated
\* The steps of one heartbeat, or of the services, leave the files known.
<1>1. ASSUME UNCHANGED <<hbOld, hbSeen, hbLast>>,
             hbTasks' \in {"missing", "empty", "tasks"}, hbAgent' \in HbChannels,
             hbFile' \in (HbKnown \cap HbChannels) \cup {NoFile},
             hbGen' \in Gens, hbSvc' \in [Gens -> Svcs], hbBeat' \in [Gens \X Sources -> Beats],
             \A g \in Gens : hbSvc'[g].last \in HbKnown /\ (g # hbGen' => ~hbSvc'[g].on),
             \A b \in Gens \X Sources : hbBeat'[b].chan \in hbSeen \cup {HbNone}
      PROVE HbIInv'
  <2>1. HbKnown' = HbKnown
    BY <1>1 DEF HbKnown
  <2>2. HbTypeOK'
    BY <1>a, <1>1 DEF HbTypeOK
  <2>3. TurnsAreOfUsers' /\ OneServiceBeats'
    BY <1>1 DEF TurnsAreOfUsers, OneServiceBeats
  <2>4. QED
    BY <1>b, <1>1, <2>1, <2>2, <2>3 DEF HbIInv, HbInv
<1>d. hbFile \in (HbKnown \cap HbChannels) \cup {NoFile}
  BY <1>b, <1>c
<1>2. ASSUME NEW c \in HbChats, HbUserTurn(c) PROVE HbIInv'
  <2>1. /\ UNCHANGED <<hbTasks, hbOld, hbGen, hbSvc, hbBeat>> /\ hbSeen' = hbSeen \cup {c}
        /\ hbLast' = c /\ hbAgent' = c /\ hbFile' \in {c, hbFile}
    BY <1>2, HbAssumption DEF HbUserTurn, Record
  <2>2. HbKnown' = HbKnown \cup {c} /\ c \in HbChannels
    BY <2>1 DEF HbKnown, HbChannels
  <2>3. HbTypeOK'
    BY <1>a, <2>1, <2>2 DEF HbTypeOK
  <2>4. TurnsAreOfUsers' /\ OneServiceBeats'
    BY <1>a, <1>b, <2>1 DEF TurnsAreOfUsers, OneServiceBeats
  <2>5. QED
    BY <1>b, <2>1, <2>2, <2>3, <2>4 DEF HbIInv, HbInv
<1>3. ASSUME NEW enabled \in BOOLEAN, HbReload(enabled) PROVE HbIInv'
  <2>1. /\ UNCHANGED <<hbTasks, hbOld, hbAgent, hbSeen, hbLast>> /\ hbFile' \in Migrated
        /\ hbGen < HbServices /\ StartService(hbGen + 1, enabled)
    BY <1>3 DEF HbReload
  <2>2. hbGen' = hbGen + 1 /\ hbGen' \in Gens
    BY <1>a, <2>1 DEF StartService, Gens
  <2>3. /\ hbSvc' \in [Gens -> Svcs]
        /\ \A g \in Gens : hbSvc'[g].last \in HbKnown /\ (g # hbGen' => ~hbSvc'[g].on)
    BY <1>a, <1>b, <1>c, <2>1, <2>2 DEF StartService
  <2>4. /\ hbBeat' \in [Gens \X Sources -> Beats]
        /\ \A b \in Gens \X Sources : hbBeat'[b].chan \in hbSeen \cup {HbNone}
    <3> DEFINE at == IF enabled THEN "waiting" ELSE "idle"
               b0 == <<hbGen + 1, "first">>
    <3>1. b0 \in Gens \X Sources
      BY <2>2 DEF Sources
    <3>2. hbBeat' = [hbBeat EXCEPT ![b0].pc = at] /\ at \in {"idle", "waiting"}
      BY <2>1 DEF StartService
    <3> HIDE DEF at, b0
    <3>3. hbBeat' = [hbBeat EXCEPT ![b0] = [hbBeat[b0] EXCEPT !.pc = at]]
      BY <3>2
    <3>4. /\ [hbBeat[b0] EXCEPT !.pc = at] \in Beats
          /\ [hbBeat[b0] EXCEPT !.pc = at].chan = hbBeat[b0].chan
      BY <1>a, <3>1, <3>2
    <3>5. QED
      BY <1>a, <1>b, <3>1, <3>3, <3>4
  <2>5. /\ UNCHANGED <<hbOld, hbSeen, hbLast>> /\ hbTasks' \in {"missing", "empty", "tasks"}
        /\ hbAgent' \in HbChannels /\ hbFile' \in (HbKnown \cap HbChannels) \cup {NoFile}
    BY <1>a, <1>c, <2>1
  <2>6. QED
    BY <1>1, <2>2, <2>3, <2>4, <2>5
<1>4. ASSUME NEW enabled \in BOOLEAN, HbRestart(enabled) PROVE HbIInv'
  <2>1. /\ UNCHANGED <<hbTasks, hbOld, hbSeen>> /\ hbFile' \in Migrated /\ hbLast' = HbNone
        /\ hbGen < HbServices /\ hbGen' = hbGen + 1 /\ hbAgent' = Loaded
    BY <1>4 DEF HbRestart
  <2>2. hbGen' \in Gens /\ hbAgent' \in HbChannels
    BY <1>a, <1>c, <2>1 DEF Gens
  <2>3. /\ hbSvc' \in [Gens -> Svcs]
        /\ \A g \in Gens : hbSvc'[g].last \in HbKnown /\ (g # hbGen' => ~hbSvc'[g].on)
    BY <1>4, <1>a, <1>b, <1>c, <2>1 DEF HbRestart
  <2>4. /\ hbBeat' \in [Gens \X Sources -> Beats]
        /\ \A b \in Gens \X Sources : hbBeat'[b].chan \in hbSeen \cup {HbNone}
    BY <1>4, <1>c DEF HbRestart
  <2>5. HbKnown' = HbKnown
    BY <2>1 DEF HbKnown
  <2>6. HbTypeOK'
    BY <1>a, <1>c, <2>1, <2>2, <2>3, <2>4 DEF HbTypeOK
  <2>7. TurnsAreOfUsers' /\ OneServiceBeats'
    BY <2>1, <2>3, <2>4 DEF TurnsAreOfUsers, OneServiceBeats
  <2>8. QED
    BY <1>b, <1>c, <2>1, <2>3, <2>5, <2>6, <2>7 DEF HbIInv, HbInv
<1>5. ASSUME NEW g \in Gens, HbLoopEnds(g) PROVE HbIInv'
  <2>1. UNCHANGED <<hbTasks, hbFile, hbOld, hbAgent, hbSeen, hbLast, hbGen, hbBeat>>
    BY <1>5 DEF HbLoopEnds
  <2>2. /\ hbSvc' \in [Gens -> Svcs]
        /\ \A h \in Gens : hbSvc'[h].last \in HbKnown /\ (h # hbGen => ~hbSvc'[h].on)
    BY <1>5, <1>a, <1>b DEF HbLoopEnds
  <2>3. QED
    BY <1>1, <1>a, <1>b, <1>d, <2>1, <2>2
<1>6. ASSUME NEW g \in Gens, NEW s \in Sources, HbBeatStep(g, s) PROVE HbIInv'
  <2>1. <<g, s>> \in Gens \X Sources
    OBVIOUS
  <2>2. CASE HbTick(g, s)
    <3>1. UNCHANGED <<hbTasks, hbFile, hbOld, hbAgent, hbSeen, hbLast, hbGen, hbSvc>>
      BY <2>2 DEF HbTick
    <3>2. /\ hbBeat' \in [Gens \X Sources -> Beats]
          /\ \A b \in Gens \X Sources : hbBeat'[b].chan \in hbSeen \cup {HbNone}
      BY <1>a, <1>b, <2>1, <2>2 DEF HbTick
    <3>3. QED
      BY <1>1, <1>a, <1>b, <1>d, <3>1, <3>2
  <2>3. CASE HbPrompt(g, s)
    <3>1. /\ UNCHANGED <<hbFile, hbOld, hbAgent, hbSeen, hbLast, hbGen, hbSvc>>
          /\ hbTasks' \in {"missing", "empty", "tasks"}
      BY <1>a, <2>3 DEF HbPrompt
    <3>2. /\ hbSvc[g].last \in HbKnown /\ ParseLast(hbSvc[g].last) \in hbSeen \cup {HbNone}
          /\ hbSeen \cup {HbNone} \subseteq HbChannels
      BY <1>a, <1>b DEF ParseLast, HbKnown, HbChannels
    <3>3. PICK r \in Beats : hbBeat' = [hbBeat EXCEPT ![<<g, s>>] = r] /\ r.chan \in hbSeen \cup {HbNone}
      <4>1. CASE hbTasks = "tasks"
        <5>1. [pc |-> "prompted", chan |-> ParseLast(hbSvc[g].last)] \in Beats
          BY <3>2
        <5>2. QED
          BY <2>3, <3>2, <4>1, <5>1 DEF HbPrompt
      <4>2. CASE hbTasks # "tasks"
        <5>1. [pc |-> "idle", chan |-> HbNone] \in Beats
          BY <3>2
        <5>2. QED
          BY <2>3, <4>2, <5>1 DEF HbPrompt
      <4>3. QED
        BY <4>1, <4>2
    <3>4. /\ hbBeat' \in [Gens \X Sources -> Beats]
          /\ \A b \in Gens \X Sources : hbBeat'[b].chan \in hbSeen \cup {HbNone}
      BY <1>a, <1>b, <2>1, <3>3
    <3>5. QED
      BY <1>1, <1>a, <1>b, <1>d, <3>1, <3>4
  <2>4. CASE HbTurn(g, s)
    <3>1. /\ UNCHANGED <<hbTasks, hbOld, hbSeen, hbLast, hbGen, hbSvc>>
          /\ Record(hbBeat[<<g, s>>].chan)
      BY <2>4 DEF HbTurn
    <3>2. hbBeat[<<g, s>>].chan \in HbKnown
      BY <1>b, <2>1 DEF HbKnown
    <3>3. hbAgent' \in HbChannels /\ hbFile' \in (HbKnown \cap HbChannels) \cup {NoFile}
      BY <1>a, <1>c, <1>d, <3>1, <3>2 DEF Record
    <3>4. /\ hbBeat' \in [Gens \X Sources -> Beats]
          /\ \A b \in Gens \X Sources : hbBeat'[b].chan \in hbSeen \cup {HbNone}
      BY <1>a, <1>b, <2>1, <2>4 DEF HbTurn
    <3>5. QED
      BY <1>1, <1>a, <1>b, <3>1, <3>3, <3>4
  <2>5. CASE HbTurnEnds(g, s)
    <3>1. UNCHANGED <<hbTasks, hbFile, hbOld, hbAgent, hbSeen, hbLast, hbGen, hbSvc>>
      BY <2>5 DEF HbTurnEnds
    <3>2. /\ hbBeat' \in [Gens \X Sources -> Beats]
          /\ \A b \in Gens \X Sources : hbBeat'[b].chan \in hbSeen \cup {HbNone}
      BY <1>a, <1>b, <1>c, <2>1, <2>5 DEF HbTurnEnds
    <3>3. QED
      BY <1>1, <1>a, <1>b, <1>d, <3>1, <3>2
  <2>6. QED
    BY <1>6, <2>2, <2>3, <2>4, <2>5 DEF HbBeatStep
<1>7. ASSUME NEW t \in {"missing", "tasks"}, HbEditTasks(t) PROVE HbIInv'
  <2>1. /\ UNCHANGED <<hbFile, hbOld, hbAgent, hbSeen, hbLast, hbGen, hbSvc, hbBeat>>
        /\ hbTasks' \in {"missing", "empty", "tasks"}
    BY <1>7 DEF HbEditTasks
  <2>2. QED
    BY <1>1, <1>a, <1>b, <1>d, <2>1
<1>8. CASE UNCHANGED hbVars
  <2>1. UNCHANGED <<hbTasks, hbFile, hbOld, hbAgent, hbSeen, hbLast, hbGen, hbSvc, hbBeat>>
    BY <1>8 DEF hbVars
  <2>2. QED
    BY <1>1, <1>a, <1>b, <1>d, <2>1
<1>9. QED
  BY <1>2, <1>3, <1>4, <1>5, <1>6, <1>7, <1>8 DEF HbNext

\* However often the gateway is reloaded or restarted, a heartbeat's turn is of
\* a chat a user wrote from or of the command line, and only the newest service
\* starts heartbeats (executeHeartbeat, parseLastChannel, handleConfigReload).
THEOREM HeartbeatCorrect == HbSpec => []HbInv
<1>1. HbIInv => HbInv
  BY DEF HbIInv
<1>2. QED
  BY <1>1, HbInitIInv, HbStepIInv, PTL DEF HbSpec

-----------------------------------------------------------------------------
(***************************************************************************)
(* The gateway.  While a reload is between creating and adopting, the new  *)
(* provider is open beside the agent's; no loop runs until the restart.    *)
(***************************************************************************)
GwProvidersMatch ==
    /\ gwMain \in {"select", "create", "adopt", "restart"} => gwRef = gwAgent
    /\ gwMain \in {"select", "create", "restart"} => gwOpen = {gwAgent}
    /\ gwMain = "adopt" => gwOpen = {gwAgent, gwGen + 1}
    /\ gwAgent <= gwGen \/ (gwMain = "restart" /\ gwAgent = gwGen + 1)

GwLoopsMatch ==
    /\ gwRuns \subseteq LoopServices \X {gwGen}
    /\ gwMain \in {"create", "adopt", "restart"} => gwRuns = {} /\ gwGen < MaxReloads

GwTypes ==
    /\ gwDisk \in Versions /\ gwKnown \in Versions
    /\ gwWatch \in Versions \cup {NoVersion} /\ gwNew \in Versions \cup {NoVersion}
    /\ gwChan \subseteq Versions /\ (\A v, w \in gwChan : v = w)
    /\ gwAgent \in Generations /\ gwRef \in Generations /\ gwOpen \subseteq Generations
    /\ gwTurn \subseteq Generations /\ gwGen \in Generations
    /\ gwMain \in {"select", "create", "adopt", "restart", "exited", "panic"}
    /\ gwManager \in [gen : Generations, state : {"serving", "cancelled", "stopped"}]

GwIInv == GwTypes /\ GwProvidersMatch /\ GwLoopsMatch

(* The inductive invariant holds at first.                                    *)
LEMMA GwInitIInv == GwInit => GwIInv
  BY GwAssumption DEF GwInit, GwIInv, GwTypes, GwProvidersMatch, GwLoopsMatch, Versions,
     NoVersion, Generations

(* Every step preserves it.                                                   *)
LEMMA GwStepIInv == GwIInv /\ [GwNext]_gwVars => GwIInv'
<1> SUFFICES ASSUME GwIInv, [GwNext]_gwVars PROVE GwIInv'
  OBVIOUS
<1>a. GwTypes /\ GwProvidersMatch /\ GwLoopsMatch
  BY DEF GwIInv
<1>b. /\ gwGen \in Nat /\ gwGen <= MaxReloads /\ MaxReloads \in Nat /\ MaxVersion \in Nat
      /\ gwAgent \in Nat /\ (gwMain # "restart" => gwAgent <= gwGen) /\ gwDisk \in Nat /\ gwDisk <= MaxVersion
      /\ \A g \in Nat : g <= MaxReloads <=> g \in Generations
      /\ \A v \in Nat : v <= MaxVersion <=> v \in Versions
  BY <1>a, GwAssumption DEF GwTypes, GwProvidersMatch, Generations, Versions
<1>1. CASE GwWrite
  <2>1. /\ UNCHANGED <<gwKnown, gwWatch, gwChan, gwMain, gwNew, gwProviders, gwTurn, gwGen,
                       gwRuns, gwManager>>
        /\ gwDisk' \in Versions
    BY <1>1, <1>b DEF GwWrite
  <2>2. QED
    BY <1>a, <2>1 DEF GwIInv, GwTypes, GwProvidersMatch, GwLoopsMatch, gwProviders
<1>2. CASE GwNotice \/ GwLoad
  <2>1. /\ UNCHANGED <<gwDisk, gwMain, gwNew, gwProviders, gwTurn, gwGen, gwRuns, gwManager>>
        /\ gwKnown' \in Versions /\ gwWatch' \in Versions \cup {NoVersion}
        /\ gwChan' \in {gwChan, {gwDisk}}
    BY <1>2, <1>a DEF GwNotice, GwLoad, GwTypes
  <2>2. QED
    BY <1>a, <2>1 DEF GwIInv, GwTypes, GwProvidersMatch, GwLoopsMatch, gwProviders
<1>3. CASE GwReload
  <2>1. /\ UNCHANGED <<gwDisk, gwKnown, gwWatch, gwAgent, gwRef, gwOpen, gwTurn, gwGen>>
        /\ gwMain = "select" /\ gwGen < MaxReloads /\ gwChan' = {} /\ gwNew' \in gwChan
    BY <1>3 DEF GwReload, gwWatcher, gwProviders
  <2>2. \/ gwMain' = "panic" /\ UNCHANGED <<gwManager, gwRuns>>
        \/ gwMain' = "create" /\ gwRuns' = {}
           /\ gwManager' = [gwManager EXCEPT !.state = "stopped"]
    BY <1>3 DEF GwReload, StopServices, Stopped
  <2>3. QED
    BY <1>a, <2>1, <2>2 DEF GwIInv, GwTypes, GwProvidersMatch, GwLoopsMatch
<1>4. CASE GwCreate
  <2>1. /\ UNCHANGED <<gwDisk, gwKnown, gwWatch, gwChan, gwNew, gwAgent, gwRef, gwTurn, gwGen,
                       gwRuns, gwManager>>
        /\ gwMain = "create"
        /\ \/ gwMain' = "restart" /\ gwOpen' = gwOpen
           \/ gwMain' = "adopt" /\ gwOpen' = gwOpen \cup {gwGen + 1}
    BY <1>4 DEF GwCreate, gwWatcher
  <2>2. gwOpen = {gwAgent} /\ gwRef = gwAgent /\ gwRuns = {} /\ gwGen < MaxReloads
    BY <1>a, <2>1 DEF GwProvidersMatch, GwLoopsMatch
  <2>3. gwGen + 1 \in Generations
    BY <1>b, <2>2
  <2>4. QED
    BY <1>a, <2>1, <2>2, <2>3 DEF GwIInv, GwTypes, GwProvidersMatch, GwLoopsMatch
<1>5. ASSUME NEW ok \in BOOLEAN, GwAdopt(ok) PROVE GwIInv'
  <2>1. /\ UNCHANGED <<gwDisk, gwKnown, gwWatch, gwChan, gwNew, gwTurn, gwGen, gwRuns, gwManager>>
        /\ gwMain = "adopt" /\ gwMain' = "restart"
        /\ \/ gwAgent' = gwGen + 1 /\ gwRef' = gwGen + 1 /\ gwOpen' = gwOpen \ {gwAgent}
           \/ gwOpen' = gwOpen \ {gwGen + 1} /\ gwAgent' = gwAgent /\ gwRef' = gwRef
    BY <1>5 DEF GwAdopt, gwWatcher
  <2>2. gwOpen = {gwAgent, gwGen + 1} /\ gwRef = gwAgent /\ gwRuns = {} /\ gwGen < MaxReloads
    BY <1>a, <2>1 DEF GwProvidersMatch, GwLoopsMatch
  <2>3. gwGen + 1 \in Generations /\ gwAgent # gwGen + 1
    BY <1>b, <2>1, <2>2
  <2>4. gwAgent' \in Generations /\ gwOpen' = {gwAgent'} /\ gwRef' = gwAgent'
    BY <1>a, <2>1, <2>2, <2>3 DEF GwTypes
  <2>5. GwTypes'
    BY <1>a, <2>1, <2>4 DEF GwTypes
  <2>6. gwAgent' <= gwGen' \/ (gwMain' = "restart" /\ gwAgent' = gwGen' + 1)
    BY <1>b, <2>1
  <2>7. QED
    BY <1>a, <2>1, <2>2, <2>4, <2>5, <2>6 DEF GwIInv, GwProvidersMatch, GwLoopsMatch
<1>6. ASSUME NEW ok \in BOOLEAN, GwRestart(ok) PROVE GwIInv'
  <2>1. /\ UNCHANGED <<gwDisk, gwKnown, gwWatch, gwChan, gwAgent, gwRef, gwOpen, gwTurn>>
        /\ gwMain = "restart" /\ gwMain' = "select" /\ gwNew' = NoVersion /\ gwGen' = gwGen + 1
        /\ \/ gwRuns' = gwRuns \cup (LoopServices \X {gwGen + 1})
              /\ gwManager' = [gen |-> gwGen + 1, state |-> "cancelled"]
           \/ gwRuns' = gwRuns /\ gwManager' = gwManager
    BY <1>6 DEF GwRestart, gwWatcher, gwProviders
  <2>2. gwOpen = {gwAgent} /\ gwRef = gwAgent /\ gwRuns = {} /\ gwGen < MaxReloads
    BY <1>a, <2>1 DEF GwProvidersMatch, GwLoopsMatch
  <2>3. gwGen + 1 \in Generations /\ gwAgent <= gwGen + 1
    BY <1>a, <1>b, <2>2 DEF GwProvidersMatch
  <2>4. gwRuns' \subseteq LoopServices \X {gwGen'}
    BY <2>1, <2>2
  <2>5. GwTypes'
    BY <1>a, <2>1, <2>3 DEF GwTypes
  <2>6. QED
    BY <2>1, <2>2, <2>3, <2>4, <2>5 DEF GwIInv, GwProvidersMatch, GwLoopsMatch
<1>7. CASE GwShutdown
  <2>1. /\ UNCHANGED <<gwDisk, gwKnown, gwWatch, gwChan, gwNew, gwAgent, gwRef, gwTurn, gwGen>>
        /\ gwOpen' \subseteq gwOpen /\ gwMain = "select"
    BY <1>7 DEF GwShutdown, gwWatcher
  <2>2. \/ gwMain' = "panic" /\ UNCHANGED <<gwManager, gwRuns>>
        \/ gwMain' = "exited" /\ gwRuns' = {}
           /\ gwManager' = [gwManager EXCEPT !.state = "stopped"]
    BY <1>7 DEF GwShutdown, StopServices, Stopped
  <2>3. GwTypes' /\ GwLoopsMatch'
    BY <1>a, <2>1, <2>2 DEF GwTypes, GwLoopsMatch
  <2>4. GwProvidersMatch'
    BY <1>a, <2>1, <2>2 DEF GwProvidersMatch
  <2>5. QED
    BY <2>3, <2>4 DEF GwIInv
<1>8. CASE GwTurn \/ GwTurnEnds
  <2>1. /\ UNCHANGED <<gwDisk, gwKnown, gwWatch, gwChan, gwMain, gwNew, gwAgent, gwRef, gwOpen,
                       gwGen, gwRuns, gwManager>>
        /\ gwTurn' \subseteq Generations
    BY <1>8, <1>a DEF GwTurn, GwTurnEnds, gwWatcher, gwProviders, GwTypes
  <2>2. QED
    BY <1>a, <2>1 DEF GwIInv, GwTypes, GwProvidersMatch, GwLoopsMatch
<1>9. CASE UNCHANGED gwVars
  BY <1>a, <1>9 DEF gwVars, GwIInv, GwTypes, GwProvidersMatch, GwLoopsMatch
<1>10. QED
  BY <1>1, <1>2, <1>3, <1>4, <1>5, <1>6, <1>7, <1>8, <1>9 DEF GwNext, GwWatching, GwReloading

\* Whatever fails in a reload, between reloads agent and main loop have the one
\* open provider, and one loop of each service runs (handleConfigReload).
THEOREM GatewayCorrect == GwSpec => []GwInv
<1>1. GwIInv => GwInv
  <2> SUFFICES ASSUME GwIInv PROVE GwInv
    OBVIOUS
  <2>1. Cardinality(gwChan) <= 1
    <3>1. CASE gwChan = {}
      BY <3>1, FS_EmptySet
    <3>2. ASSUME NEW v \in gwChan PROVE Cardinality(gwChan) <= 1
      <4>1. gwChan = {v}
        BY DEF GwIInv, GwTypes
      <4>2. QED
        BY <4>1, FS_Singleton
    <3>3. QED
      BY <3>1, <3>2
  <2>2. gwRuns \subseteq LoopServices \X Generations
    BY DEF GwIInv, GwTypes, GwLoopsMatch
  <2>3. GwTypeOK
    BY <2>1, <2>2 DEF GwIInv, GwTypes, GwTypeOK
  <2>4. QED
    BY <2>3 DEF GwIInv, GwProvidersMatch, GwLoopsMatch, GwInv, OneOfEach
<1>2. QED
  BY <1>1, GwInitIInv, GwStepIInv, PTL DEF GwSpec

-----------------------------------------------------------------------------
(***************************************************************************)
(* The fallback chain.  A turn's attempts are numbered as the candidates,  *)
(* and until the turn ends there is one for each candidate before the one  *)
(* it is at.                                                               *)
(***************************************************************************)
FbCalls == [pc : {"next", "asked", "answered", "failed", "canceled"}, at : Nat,
            attempts : Seq([cand : Nat, answer : AllAnswers \cup {"skipped"}]),
            retry : 0..FbRetries, heard : BOOLEAN, told : {"none", "reason", "nothing"}]

Mendable(a) == IsRetriable(Reason(a)) /\ ShouldFallback(Reason(a))
Numbered(at) == \A i \in DOMAIN at : at[i].cand = i

FbCallOK(c) ==
    /\ c \in FbCalls /\ c.at \in 1..Len(Candidates) /\ Numbered(c.attempts)
    /\ c.pc \in {"next", "asked"} => Len(c.attempts) = c.at - 1
    /\ c.pc = "failed" => \/ Len(c.attempts) = Len(Candidates)
                          \/ ~Mendable(Last(c.attempts).answer)

\* What keeps a provider from the turns counts; after a day nothing does.
Entries == [errors : 0..MaxCount, billing : 0..MaxCount, cooling : BOOLEAN,
            disabled : BOOLEAN, old : BOOLEAN]
Counted(e) ==
    /\ e.cooling => e.errors > 0
    /\ e.disabled => e.billing > 0
    /\ e.billing <= e.errors
    /\ e.old => ~e.cooling /\ ~e.disabled

FbIInv ==
    /\ fbEntry \in [Providers -> Entries]
    /\ fbDays \in 0..MaxDays /\ fbGone \in BOOLEAN
    /\ \A p \in Providers : Counted(fbEntry[p])
    /\ DOMAIN fbTurn = FbTurns /\ \A t \in FbTurns : FbCallOK(fbTurn[t])

(* A call begins well.                                                        *)
LEMMA NewCallOK ==
    ASSUME NEW n \in 0..FbRetries
    PROVE  FbCallOK(NewCall(n)) /\ NewCall(n) \in FbCalls
  BY FbAssumption DEF FbCallOK, NewCall, FbCalls, Numbered

(* A call whose candidates are all tried fails, or begins again.              *)
LEMMA RetriedOK ==
    ASSUME NEW c \in FbCalls, NEW e, c.at \in 1..Len(Candidates),
           NEW at \in Seq([cand : Nat, answer : AllAnswers \cup {"skipped"}]), Numbered(at),
           Len(at) = Len(Candidates) \/ ~Mendable(Last(at).answer)
    PROVE  FbCallOK(Retried(c, e, at))
<1> DEFINE again == [NewCall(c.retry + 1) EXCEPT !.heard = c.heard]
           told == IF \E i \in DOMAIN at : at[i].answer # "skipped" THEN "reason" ELSE "nothing"
           failed == [c EXCEPT !.pc = "failed", !.attempts = at, !.told = told]
<1>1. Retried(c, e, at) = failed \/ (Retried(c, e, at) = again /\ c.retry < FbRetries)
  BY DEF Retried
<1>2. FbCallOK(failed)
  <2>1. failed \in FbCalls /\ failed.pc = "failed" /\ failed.attempts = at /\ failed.at = c.at
    BY DEF FbCalls
  <2>2. QED
    BY <2>1 DEF FbCallOK
<1>3. c.retry < FbRetries => FbCallOK(again)
  <2> SUFFICES ASSUME c.retry < FbRetries PROVE FbCallOK(again)
    OBVIOUS
  <2>1. c.retry + 1 \in 0..FbRetries /\ c.heard \in BOOLEAN
    BY FbAssumption DEF FbCalls
  <2>2. FbCallOK(NewCall(c.retry + 1)) /\ NewCall(c.retry + 1) \in FbCalls
    BY <2>1, NewCallOK
  <2>3. again \in FbCalls /\ again.pc = "next" /\ again.attempts = <<>> /\ again.at = 1
    BY <2>1, <2>2 DEF FbCalls, NewCall
  <2>4. QED
    BY <2>3, FbAssumption DEF FbCallOK, Numbered
<1>4. QED
  BY <1>1, <1>2, <1>3

(* A candidate that failed is followed by the next, or by the end of the      *)
(* list.                                                                      *)
LEMMA AfterOK ==
    ASSUME NEW c \in FbCalls, c.at \in 1..Len(Candidates),
           NEW at \in Seq([cand : Nat, answer : AllAnswers \cup {"skipped"}]), Numbered(at),
           Len(at) = c.at
    PROVE  FbCallOK(After(c, at))
<1>1. CASE c.at < Len(Candidates)
  <2>1. After(c, at) = [c EXCEPT !.pc = "next", !.at = c.at + 1, !.attempts = at]
    BY <1>1 DEF After, FbCalls
  <2>2. /\ After(c, at) \in FbCalls /\ After(c, at).pc = "next" /\ After(c, at).at = c.at + 1
        /\ After(c, at).attempts = at
    <3>1. c.at + 1 \in Nat
      BY FbAssumption
    <3> DEFINE m == c.at + 1
    <3>2. m \in Nat /\ After(c, at) = [c EXCEPT !.pc = "next", !.at = m, !.attempts = at]
      BY <2>1, <3>1
    <3> HIDE DEF m
    <3>3. /\ After(c, at) \in FbCalls /\ After(c, at).pc = "next" /\ After(c, at).at = m
          /\ After(c, at).attempts = at
      BY <3>2 DEF FbCalls
    <3>4. QED
      BY <3>3 DEF m
  <2>3. QED
    BY <1>1, <2>2, FbAssumption DEF FbCallOK
<1>2. CASE ~(c.at < Len(Candidates))
  <2>1. Len(at) = Len(Candidates)
    BY <1>2, FbAssumption
  <2>2. QED
    BY <1>2, <2>1, RetriedOK DEF After
<1>3. QED
  BY <1>1, <1>2

(* An attempt is recorded under the number of its candidate.                  *)
LEMMA AppendNumbered ==
    ASSUME NEW c \in FbCalls, FbCallOK(c), c.pc \in {"next", "asked"},
           NEW a \in AllAnswers \cup {"skipped"}
    PROVE  LET at == Append(c.attempts, [cand |-> c.at, answer |-> a])
           IN  /\ at \in Seq([cand : Nat, answer : AllAnswers \cup {"skipped"}])
               /\ Numbered(at) /\ Len(at) = c.at /\ Last(at).answer = a
<1> DEFINE x == [cand |-> c.at, answer |-> a]
           at == Append(c.attempts, x)
<1>1. /\ x \in [cand : Nat, answer : AllAnswers \cup {"skipped"}]
      /\ c.attempts \in Seq([cand : Nat, answer : AllAnswers \cup {"skipped"}])
      /\ Len(c.attempts) = c.at - 1 /\ c.at \in Nat /\ x.cand = c.at /\ x.answer = a
  BY DEF FbCalls, FbCallOK
<1>2. \A i \in DOMAIN c.attempts : c.attempts[i].cand = i
  BY DEF FbCallOK, Numbered
<1> HIDE DEF x
<1>3. at \in Seq([cand : Nat, answer : AllAnswers \cup {"skipped"}]) /\ Len(at) = c.at
      /\ at[c.at] = x /\ (\A i \in DOMAIN at : i = c.at \/ (i \in DOMAIN c.attempts /\ at[i] = c.attempts[i]))
  BY <1>1
<1>4. Numbered(at)
  BY <1>1, <1>2, <1>3 DEF Numbered
<1>5. Last(at).answer = a
  BY <1>1, <1>3 DEF Last
<1>6. QED
  BY <1>3, <1>4, <1>5 DEF x

(* The counters of a provider agree after a failure.                          *)
LEMMA MarkFailureCounted ==
    ASSUME NEW e \in Entries, Counted(e), NEW r
    PROVE  MarkFailure(e, r) \in Entries /\ Counted(MarkFailure(e, r))
<1>1. /\ e.errors \in Nat /\ e.errors <= MaxCount /\ e.billing \in Nat /\ e.billing <= MaxCount
      /\ e.cooling \in BOOLEAN /\ e.disabled \in BOOLEAN /\ e.old \in BOOLEAN /\ MaxCount \in Nat \ {0}
  BY FbAssumption DEF Entries
<1> DEFINE f == IF e.old THEN [e EXCEPT !.errors = 0, !.billing = 0, !.old = FALSE] ELSE e
<1>2. /\ f \in Entries /\ f.billing <= f.errors /\ f.old = FALSE /\ (f.disabled => f.billing > 0)
      /\ f.disabled \in BOOLEAN /\ f.cooling \in BOOLEAN
  <2>1. CASE e.old
    <3>1. f = [e EXCEPT !.errors = 0, !.billing = 0, !.old = FALSE] /\ 0 \in 0..MaxCount
      BY <1>1, <2>1
    <3>2. /\ f \in Entries /\ f.errors = 0 /\ f.billing = 0 /\ f.old = FALSE
          /\ f.disabled = e.disabled /\ f.cooling = e.cooling
      BY <3>1 DEF Entries
    <3> HIDE DEF f
    <3>3. ~f.disabled
      BY <2>1, <3>2 DEF Counted
    <3>4. QED
      BY <1>1, <3>2, <3>3
  <2>2. CASE ~e.old
    BY <1>1, <2>2 DEF Entries, Counted
  <2>3. QED
    BY <2>1, <2>2
<1>c. MarkFailure(e, r) = IF r = "billing"
        THEN [f EXCEPT !.errors = Capped(f.errors + 1), !.billing = Capped(f.billing + 1),
                       !.disabled = TRUE]
        ELSE [f EXCEPT !.errors = Capped(f.errors + 1), !.cooling = TRUE]
  BY <1>2 DEF MarkFailure, Entries
<1> HIDE DEF f
<1>3. /\ f.errors \in Nat /\ f.errors <= MaxCount /\ f.billing \in Nat /\ f.billing <= MaxCount
  BY <1>1, <1>2 DEF Entries
<1> DEFINE ne == Capped(f.errors + 1)
           nb == Capped(f.billing + 1)
<1>4. ne \in 0..MaxCount /\ ne > 0 /\ nb \in 0..MaxCount /\ nb > 0 /\ nb <= ne /\ f.billing <= ne
      /\ ne \in Nat /\ nb \in Nat
  BY <1>1, <1>2, <1>3 DEF Capped
<1> HIDE DEF ne, nb
<1>5. CASE r = "billing"
  <2>1. MarkFailure(e, r) = [f EXCEPT !.errors = ne, !.billing = nb, !.disabled = TRUE]
    BY <1>c, <1>5 DEF ne, nb
  <2>2. QED
    BY <1>2, <1>4, <2>1 DEF Entries, Counted
<1>6. CASE r # "billing"
  <2>1. MarkFailure(e, r) = [f EXCEPT !.errors = ne, !.cooling = TRUE]
    BY <1>c, <1>6 DEF ne
  <2>2. QED
    BY <1>2, <1>4, <2>1 DEF Entries, Counted
<1>7. QED
  BY <1>5, <1>6

(* Every step preserves it.                                                   *)
LEMMA FbStepIInv == FbIInv /\ [FbStep]_fbVars => FbIInv'
<1> SUFFICES ASSUME FbIInv, [FbStep]_fbVars PROVE FbIInv'
  OBVIOUS
<1>a. /\ fbEntry \in [Providers -> Entries] /\ fbDays \in 0..MaxDays /\ fbGone \in BOOLEAN
      /\ \A p \in Providers : Counted(fbEntry[p])
      /\ DOMAIN fbTurn = FbTurns /\ \A t \in FbTurns : FbCallOK(fbTurn[t])
  BY DEF FbIInv
<1>b. \A t \in FbTurns : /\ fbTurn[t] \in FbCalls /\ fbTurn[t].at \in 1..Len(Candidates)
                         /\ Candidate(t)[1] \in Providers
  BY <1>a, FbAssumption DEF FbCallOK, Candidate, Providers
\* A step is the move of one turn, of one provider's entry, or of both.
<1>1. ASSUME NEW t \in FbTurns, NEW c, FbCallOK(c),
             fbTurn' = [fbTurn EXCEPT ![t] = c], fbDays' = fbDays, fbGone' = fbGone,
             NEW p \in Providers, NEW e \in Entries, Counted(e),
             fbEntry' \in {fbEntry, [fbEntry EXCEPT ![p] = e]}
      PROVE FbIInv'
  <2>1. fbEntry' \in [Providers -> Entries] /\ \A q \in Providers : Counted(fbEntry'[q])
    BY <1>1, <1>a
  <2>2. DOMAIN fbTurn' = FbTurns /\ \A u \in FbTurns : FbCallOK(fbTurn'[u])
    BY <1>1, <1>a
  <2>3. QED
    BY <1>1, <1>a, <2>1, <2>2 DEF FbIInv
<1>2. ASSUME NEW t \in FbTurns, FbNext(t) PROVE FbIInv'
  <2> DEFINE c == fbTurn[t]
             at == Append(c.attempts, [cand |-> c.at, answer |-> "skipped"])
             p == Candidate(t)[1]
  <2>1. /\ c.pc = "next" /\ c \in FbCalls /\ FbCallOK(c) /\ p \in Providers
        /\ c.at \in 1..Len(Candidates)
    BY <1>2, <1>a, <1>b DEF FbNext
  <2>2. UNCHANGED <<fbEntry, fbDays, fbGone>>
    BY <1>2 DEF FbNext
  <2>3. /\ at \in Seq([cand : Nat, answer : AllAnswers \cup {"skipped"}])
        /\ Numbered(at) /\ Len(at) = c.at
    BY <2>1, AppendNumbered
  <2>4. /\ FbCallOK([c EXCEPT !.pc = "canceled"]) /\ FbCallOK([c EXCEPT !.pc = "asked"])
    BY <2>1 DEF FbCallOK, FbCalls
  <2>5. FbCallOK(After(c, at))
    BY <2>1, <2>3, AfterOK
  <2>6. PICK d \in {[c EXCEPT !.pc = "canceled"], After(c, at), [c EXCEPT !.pc = "asked"]} :
          fbTurn' = [fbTurn EXCEPT ![t] = d]
    BY <1>2 DEF FbNext
  <2>7. QED
    BY <1>1, <1>a, <2>1, <2>2, <2>4, <2>5, <2>6
<1>3. ASSUME NEW t \in FbTurns, NEW a \in Answers, FbAnswer(t, a) PROVE FbIInv'
  <2> DEFINE k == fbTurn[t]
             c == [k EXCEPT !.heard = TRUE]
             at == Append(c.attempts, [cand |-> c.at, answer |-> a])
             p == Candidate(t)[1]
             r == Reason(a)
  <2>1. /\ k.pc = "asked" /\ k \in FbCalls /\ FbCallOK(k) /\ p \in Providers /\ a \in AllAnswers
        /\ UNCHANGED <<fbDays, fbGone>>
    BY <1>3, <1>a, <1>b, FbAssumption DEF FbAnswer
  <2>2. /\ c \in FbCalls /\ FbCallOK(c) /\ c.pc = "asked" /\ c.at \in 1..Len(Candidates)
    BY <2>1 DEF FbCallOK, FbCalls
  <2>3. /\ at \in Seq([cand : Nat, answer : AllAnswers \cup {"skipped"}])
        /\ Numbered(at) /\ Len(at) = c.at /\ Last(at).answer = a
    BY <2>1, <2>2, AppendNumbered
  <2> HIDE DEF k
  <2>4. FbCallOK([c EXCEPT !.pc = "answered", !.attempts = at])
    <3> DEFINE d == [c EXCEPT !.pc = "answered", !.attempts = at]
    <3> HIDE DEF at, c
    <3>1. d \in FbCalls /\ d.pc = "answered" /\ d.attempts = at /\ d.at = c.at
      BY <2>2, <2>3 DEF FbCalls
    <3>2. QED
      BY <2>2, <2>3, <3>1 DEF FbCallOK
  <2>5. FbCallOK([c EXCEPT !.pc = "canceled"])
    <3> HIDE DEF c
    <3>1. QED
      BY <2>2 DEF FbCallOK, FbCalls
  <2>6. FbCallOK(After(c, at))
    BY <2>2, <2>3, AfterOK
  <2>7. ~(IsRetriable(r) /\ ShouldFallback(r)) => FbCallOK(Retried(c, {a}, at))
    <3> HIDE DEF at, c
    <3>1. QED
      BY <2>2, <2>3, RetriedOK DEF Mendable
  <2>8. /\ MarkFailure(fbEntry[p], r) \in Entries /\ Counted(MarkFailure(fbEntry[p], r))
        /\ MarkSuccess(fbEntry[p]) \in Entries /\ Counted(MarkSuccess(fbEntry[p]))
    <3>1. fbEntry[p] \in Entries /\ Counted(fbEntry[p])
      BY <1>a, <2>1
    <3>2. MarkSuccess(fbEntry[p]) \in Entries /\ Counted(MarkSuccess(fbEntry[p]))
      BY FbAssumption DEF MarkSuccess, NoFailures, Entries, Counted
    <3>3. QED
      BY <3>1, <3>2, MarkFailureCounted
  <2>9. \/ /\ fbEntry' = [fbEntry EXCEPT ![p] = MarkSuccess(fbEntry[p])]
           /\ fbTurn' = [fbTurn EXCEPT ![t] = [c EXCEPT !.pc = "answered", !.attempts = at]]
        \/ fbEntry' = fbEntry /\ fbTurn' = [fbTurn EXCEPT ![t] = [c EXCEPT !.pc = "canceled"]]
        \/ /\ ~(IsRetriable(r) /\ ShouldFallback(r))
           /\ fbEntry' = fbEntry /\ fbTurn' = [fbTurn EXCEPT ![t] = Retried(c, {a}, at)]
        \/ /\ fbEntry' = [fbEntry EXCEPT ![p] = MarkFailure(fbEntry[p], r)]
           /\ fbTurn' = [fbTurn EXCEPT ![t] = After(c, at)]
    BY <1>3, <1>a, <2>1 DEF FbAnswer, k
  <2>10. fbEntry[p] \in Entries /\ Counted(fbEntry[p])
    BY <1>a, <2>1
  <2> HIDE DEF at, c, p, r
  <2>11. QED
    BY <1>1, <2>1, <2>4, <2>5, <2>6, <2>7, <2>8, <2>9, <2>10
<1>4. ASSUME UNCHANGED <<fbTurn, fbGone>>, fbDays' \in 0..MaxDays,
             NEW p \in Providers, NEW e \in Entries, Counted(e), fbEntry' = [fbEntry EXCEPT ![p] = e]
      PROVE FbIInv'
  <2>1. fbEntry' \in [Providers -> Entries] /\ \A q \in Providers : Counted(fbEntry'[q])
    BY <1>4, <1>a
  <2>2. QED
    BY <1>4, <1>a, <2>1 DEF FbIInv
<1>5. ASSUME NEW p \in Providers, NEW w \in {"cooling", "disabled"}, FbCooldownEnds(p, w)
      PROVE FbIInv'
  <2> DEFINE e == [fbEntry[p] EXCEPT ![w] = FALSE]
  <2>1. fbEntry[p] \in Entries /\ Counted(fbEntry[p])
    BY <1>a
  <2>2. e \in Entries /\ Counted(e)
    BY <2>1 DEF Entries, Counted
  <2>3. UNCHANGED <<fbTurn, fbDays, fbGone>> /\ fbEntry' = [fbEntry EXCEPT ![p] = e]
    BY <1>5, <1>a DEF FbCooldownEnds
  <2>4. QED
    BY <1>4, <1>a, <2>2, <2>3
<1>6. ASSUME NEW p \in Providers, FbDayPasses(p) PROVE FbIInv'
  <2> DEFINE e == [fbEntry[p] EXCEPT !.cooling = FALSE, !.disabled = FALSE, !.old = TRUE]
  <2>1. fbEntry[p] \in Entries /\ Counted(fbEntry[p])
    BY <1>a
  <2>2. e \in Entries /\ Counted(e)
    BY <2>1 DEF Entries, Counted
  <2>3. UNCHANGED <<fbTurn, fbGone>> /\ fbEntry' = [fbEntry EXCEPT ![p] = e]
    BY <1>6, <1>a DEF FbDayPasses
  <2>4. fbDays' \in 0..MaxDays
    BY <1>6, <1>a, FbAssumption DEF FbDayPasses
  <2>5. QED
    BY <1>4, <2>2, <2>3, <2>4
<1>7. CASE FbCancel
  BY <1>7, <1>a DEF FbCancel, FbIInv
<1>8. CASE UNCHANGED fbVars
  BY <1>8, <1>a DEF fbVars, FbIInv
<1>9. QED
  BY <1>2, <1>3, <1>5, <1>6, <1>7, <1>8 DEF FbStep

\* A provider is kept from the turns only for failures that still count, and a
\* turn fails only when every candidate, in order, was tried or skipped, or none
\* could mend the error (Execute, CooldownTracker, runLLMIteration).
THEOREM FallbackCorrect == FbSpec => []FbInv
<1>1. FbInit => FbIInv
  <2> SUFFICES ASSUME FbInit PROVE FbIInv
    OBVIOUS
  <2>1. NoFailures \in Entries /\ Counted(NoFailures)
    BY FbAssumption DEF NoFailures, Entries, Counted
  <2>2. FbCallOK(NewCall(0))
    BY NewCallOK, FbAssumption
  <2>3. fbDays \in 0..MaxDays
    <3>1. MaxDays \in Nat /\ fbDays = 0
      BY FbAssumption DEF FbInit
    <3>2. QED
      BY <3>1
  <2>4. fbEntry \in [Providers -> Entries] /\ \A p \in Providers : Counted(fbEntry[p])
    BY <2>1 DEF FbInit
  <2>5. fbGone \in BOOLEAN /\ DOMAIN fbTurn = FbTurns /\ \A t \in FbTurns : FbCallOK(fbTurn[t])
    BY <2>2 DEF FbInit
  <2>6. QED
    BY <2>3, <2>4, <2>5 DEF FbIInv
<1>2. FbIInv => FbInv
  <2> SUFFICES ASSUME FbIInv PROVE FbInv
    OBVIOUS
  <2>1. \A t \in FbTurns :
          /\ fbTurn[t].pc \in {"next", "asked", "answered", "failed", "canceled"}
          /\ fbTurn[t].at \in DOMAIN Candidates /\ fbTurn[t].retry \in 0..FbRetries
    BY FbAssumption DEF FbIInv, FbCallOK, FbCalls
  <2>2. FbTypeOK
    BY <2>1 DEF FbIInv, FbTypeOK, Entries
  <2>3. CoolingIsCounted
    BY DEF FbIInv, CoolingIsCounted, Counted
  <2>4. FailureIsExhaustive
    BY DEF FbIInv, FailureIsExhaustive, FbCallOK, Numbered, Mendable
  <2>5. QED
    BY <2>2, <2>3, <2>4 DEF FbInv
<1>3. QED
  BY <1>1, <1>2, FbStepIInv, PTL DEF FbSpec

-----------------------------------------------------------------------------
(***************************************************************************)
(* The tools of an agent's turns.  A turn that has not begun holds nothing;*)
(* what a turn alone was offered stays visible until it is called, and     *)
(* what it found stays unlocked until the next round.                      *)
(***************************************************************************)
MtCalls == [pc : {"idle", "asked", "answered", "checked", "locked", "called"}, reg : 0..2,
            left : 0..MtRounds, offered : SUBSET MtTools, found : SUBSET MtServers,
            tool : MtTools,
            result : {"none", "ok", "error", "closed", "notFound", "restricted"}]
MtEntries == [kind : {"none", "core", "internal", "hidden"}, ttl : 0..MtMaxTTL]

MtTypes ==
    /\ mtCfg \in [discovery : BOOLEAN, search : BOOLEAN, ttl : 1..MtMaxTTL]
    /\ mtOnce \in {"no", "loading", "done"} /\ mtGen \in {1, 2}
    /\ mtRegs \in [1..2 -> [MtTools -> MtEntries]] /\ mtTurn \in [MtTurns -> MtCalls]
    /\ mtSession \in [MtServers -> {"none", "open", "closed"}]
    /\ mtManager \in {"none", "set", "taken"} /\ mtClosed \in BOOLEAN
    /\ mtClose \in {"no", "waiting", "waited", "done"}

\* A turn that has not begun, and one that has.
FreshOrBegun ==
    \A u \in MtTurns : LET k == mtTurn[u] IN
       /\ k.left = MtRounds => k.pc = "idle" /\ k.found = {} /\ k.result = "none"
       /\ k.left # MtRounds => k.reg \in {1, 2} /\ mtOnce = "done"

\* What a turn alone is offered or has found, in the registries R.
Seen(e) == e.kind \in {"core", "internal"} \/ (e.kind = "hidden" /\ e.ttl > 0)
Unlocked(e) == e.kind = "hidden" /\ e.ttl > 0

Served(k, R) ==
    /\ k.result # "notFound"
    /\ k.pc = "asked" => \A t \in k.offered : Seen(R[k.reg][t])
    /\ k.pc \in MtCalling => k.found = {}
    /\ mtCfg.ttl > 1 =>
         /\ k.pc = "asked" => k.found \subseteq k.offered
         /\ k.pc = "idle" => \A t \in k.found : Unlocked(R[k.reg][t])
         /\ k.pc = "answered" => \A t \in k.found : Unlocked(R[k.reg][t]) /\ R[k.reg][t].ttl > 1

ServedAlone ==
    \A u \in MtTurns : Alone(u) /\ mtTurn[u].left # MtRounds => Served(mtTurn[u], mtRegs)

ManagerMatches ==
    /\ mtOnce # "done" => /\ mtManager = "none" /\ ~mtClosed
                          /\ \A s \in MtServers : mtSession[s] = "none"
    /\ mtClose \in {"waiting", "waited"} => mtManager = "taken"
    /\ mtManager = "taken" => mtClosed /\ mtClose # "no"
    /\ ClosedLeavesNone

MtIInv == MtTypes /\ FreshOrBegun /\ ServedAlone /\ ManagerMatches

(* The inductive invariant holds at first.                                    *)
LEMMA MtInitIInv == MtInit => MtIInv
<1> SUFFICES ASSUME MtInit PROVE MtIInv
  OBVIOUS
<1>1. 0 \in 0..MtMaxTTL /\ MtRounds \in 0..MtRounds /\ Builtin \in MtTools
  BY MtAssumption DEF MtTools
<1>2. NewRegistry \in [MtTools -> MtEntries]
  BY <1>1 DEF NewRegistry, Entry, MtEntries
<1>3. mtTurn \in [MtTurns -> MtCalls]
  BY <1>1 DEF MtInit, MtCalls
<1>4. MtTypes
  BY <1>2, <1>3 DEF MtInit, MtTypes
<1>5. FreshOrBegun /\ ServedAlone
  BY DEF MtInit, FreshOrBegun, ServedAlone
<1>6. ManagerMatches
  BY DEF MtInit, ManagerMatches, ClosedLeavesNone
<1>7. QED
  BY <1>4, <1>5, <1>6 DEF MtIInv

\* A tick takes a round from what is unlocked, and no more.
LEMMA TickLeaves ==
    ASSUME NEW g \in 1..2, mtRegs \in [1..2 -> [MtTools -> MtEntries]]
    PROVE  /\ TickTTL(g) \in [1..2 -> [MtTools -> MtEntries]]
           /\ \A t \in MtTools : /\ TickTTL(g)[g][t].kind = mtRegs[g][t].kind
                                 /\ mtRegs[g][t].ttl > 1 => TickTTL(g)[g][t].ttl > 0
<1>1. ASSUME NEW t \in MtTools
      PROVE  /\ Ticked(mtRegs[g][t]) \in MtEntries
             /\ Ticked(mtRegs[g][t]).kind = mtRegs[g][t].kind
             /\ mtRegs[g][t].ttl > 1 => Ticked(mtRegs[g][t]).ttl > 0
  <2> DEFINE e == mtRegs[g][t]
             n == IF e.ttl > 0 THEN e.ttl - 1 ELSE 0
  <2>1. e \in MtEntries
    OBVIOUS
  <2>2. e.ttl \in Nat /\ e.ttl <= MtMaxTTL /\ MtMaxTTL \in Nat
    BY <2>1, MtAssumption DEF MtEntries
  <2>3. n \in 0..MtMaxTTL /\ (e.ttl > 1 => n > 0)
    BY <2>2
  <2>4. Ticked(e) = [e EXCEPT !.ttl = n]
    BY <2>1 DEF Ticked, MtEntries
  <2> HIDE DEF n, e
  <2>5. Ticked(e) \in MtEntries /\ Ticked(e).kind = e.kind /\ Ticked(e).ttl = n
    BY <2>1, <2>3, <2>4 DEF MtEntries
  <2>6. QED
    BY <2>3, <2>5 DEF e
<1>2. QED
  BY <1>1 DEF TickTTL

(* Every step preserves it.                                                   *)
LEMMA MtStepIInv == MtIInv /\ [MtNext]_mtVars => MtIInv'
<1> SUFFICES ASSUME MtIInv, [MtNext]_mtVars PROVE MtIInv'
  OBVIOUS
<1>a. MtTypes /\ FreshOrBegun /\ ServedAlone /\ ManagerMatches
  BY DEF MtIInv
<1>b. /\ mtRegs \in [1..2 -> [MtTools -> MtEntries]] /\ mtTurn \in [MtTurns -> MtCalls]
      /\ mtGen \in {1, 2} /\ 1 \in 1..2 /\ 2 \in 1..2
  BY <1>a DEF MtTypes
<1>c. mtCfg' = mtCfg
  BY DEF MtNext, MtLoad, MtLoaded, MtReload, MtCloseBegins, MtWaited, MtCloses, MtAsk, MtLock,
     MtAdd, MtTick, MtExecute, MtSearch, MtAnswered, mtVars
\* A step of a turn that has begun, which leaves the manager alone.
<1>1. ASSUME NEW u \in MtTurns, NEW c \in MtCalls, c.left # MtRounds, c.reg \in {1, 2},
             mtOnce = "done", mtTurn' = [mtTurn EXCEPT ![u] = c],
             mtRegs' \in [1..2 -> [MtTools -> MtEntries]],
             Alone(u) => Served(c, mtRegs'),
             UNCHANGED <<mtOnce, mtGen, mtSession, mtManager, mtClosed, mtClose>>
      PROVE MtIInv'
  <2>1. /\ mtTurn' \in [MtTurns -> MtCalls] /\ mtTurn'[u] = c
        /\ \A v \in MtTurns \ {u} : mtTurn'[v] = mtTurn[v]
    BY <1>1, <1>b
  <2>2. MtTypes'
    BY <1>1, <1>a, <1>c, <2>1 DEF MtTypes
  <2>3. FreshOrBegun'
    BY <1>1, <1>a, <2>1 DEF FreshOrBegun
  <2>4. ManagerMatches'
    BY <1>1, <1>a DEF ManagerMatches, ClosedLeavesNone
  <2>5. ServedAlone'
    <3> SUFFICES ASSUME NEW w \in MtTurns, Alone(w)' PROVE Served(mtTurn[w], mtRegs)'
      BY DEF ServedAlone
    <3>1. w = u
      BY <1>1, <2>1 DEF Alone
    <3>2. Alone(u)
      BY <2>1, <3>1 DEF Alone
    <3>3. QED
      BY <1>1, <1>c, <2>1, <3>1, <3>2 DEF Served
  <2>6. QED
    BY <2>2, <2>3, <2>4, <2>5 DEF MtIInv
\* A step of the client or of a reload.
<1>2. ASSUME UNCHANGED <<mtTurn, mtRegs>>, MtTypes', mtOnce = "done" => mtOnce' = "done",
             ManagerMatches'
      PROVE MtIInv'
  <2>1. FreshOrBegun'
    BY <1>2, <1>a DEF FreshOrBegun
  <2>2. ServedAlone'
    BY <1>2, <1>a, <1>c DEF ServedAlone, Alone, Served
  <2>3. QED
    BY <1>2, <2>1, <2>2 DEF MtIInv
<1>3. ASSUME NEW u \in MtTurns, mtTurn[u].pc # "idle"
      PROVE /\ mtTurn[u].left # MtRounds /\ mtTurn[u].reg \in {1, 2} /\ mtOnce = "done"
            /\ mtTurn[u] \in MtCalls /\ (Alone(u) => Served(mtTurn[u], mtRegs))
  BY <1>3, <1>a, <1>b DEF FreshOrBegun, ServedAlone
<1>4. CASE MtLoad
  BY <1>2, <1>4, <1>a DEF MtLoad, MtTypes, ManagerMatches, ClosedLeavesNone
<1>5. CASE MtReload
  BY <1>2, <1>5, <1>a DEF MtReload, MtTypes, ManagerMatches, ClosedLeavesNone
<1>6. CASE MtCloseBegins
  BY <1>2, <1>6, <1>a DEF MtCloseBegins, MtTypes, ManagerMatches, ClosedLeavesNone
<1>7. CASE MtWaited
  BY <1>2, <1>7, <1>a DEF MtWaited, MtTypes, ManagerMatches, ClosedLeavesNone
<1>8. CASE MtCloses
  BY <1>2, <1>8, <1>a DEF MtCloses, MtTypes, ManagerMatches, ClosedLeavesNone
<1>9. ASSUME NEW up \in SUBSET MtServers, MtLoaded(up) PROVE MtIInv'
  <2>1. /\ mtOnce = "loading" /\ mtOnce' = "done" /\ UNCHANGED <<mtGen, mtTurn, mtClose>>
        /\ mtManager' \in {"none", "set"} /\ mtClosed' \in BOOLEAN
        /\ mtSession' \in [MtServers -> {"none", "open", "closed"}]
        /\ mtManager' = "none" => \A s \in MtServers : mtSession'[s] # "open"
        /\ \A s \in MtServers : mtSession'[s] = "closed" => mtClosed'
    BY <1>9 DEF MtLoaded
  <2>2. mtRegs' \in [1..2 -> [MtTools -> MtEntries]]
    <3>1. \A kind \in {"core", "hidden"} : Entry(kind) \in MtEntries
      BY MtAssumption DEF Entry, MtEntries
    <3> DEFINE f == [t \in MtTools |->
                       IF t \in up THEN Entry(IF mtCfg.discovery THEN "hidden" ELSE "core")
                       ELSE IF t = SearchTool /\ up # {} /\ mtCfg.discovery /\ mtCfg.search
                            THEN Entry("core") ELSE mtRegs[mtGen][t]]
    <3>2. f \in [MtTools -> MtEntries]
      BY <1>b, <3>1
    <3>3. mtRegs' = [mtRegs EXCEPT ![mtGen] = f]
      BY <1>9 DEF MtLoaded
    <3> HIDE DEF f
    <3>4. QED
      BY <1>b, <3>2, <3>3
  <2>3. \A u \in MtTurns : mtTurn[u].left = MtRounds
    BY <1>a, <2>1 DEF FreshOrBegun
  <2>4. mtClose \in {"no", "done"}
    BY <1>a, <2>1 DEF ManagerMatches, MtTypes
  <2>5. MtTypes'
    BY <1>a, <1>c, <2>1, <2>2 DEF MtTypes
  <2>6. FreshOrBegun' /\ ServedAlone'
    BY <1>a, <2>1, <2>3 DEF FreshOrBegun, ServedAlone
  <2>7. ManagerMatches'
    BY <2>1, <2>4 DEF ManagerMatches, ClosedLeavesNone
  <2>8. QED
    BY <2>5, <2>6, <2>7 DEF MtIInv
<1>10. ASSUME NEW u \in MtTurns, MtAsk(u) PROVE MtIInv'
  <2> DEFINE k == mtTurn[u]
             g == IF k.reg = 0 THEN mtGen ELSE k.reg
             off == {t \in MtTools : Visible(g, t)}
             c == [k EXCEPT !.pc = "asked", !.reg = g, !.left = k.left - 1, !.offered = off,
                            !.result = "none"]
  <2>1. /\ k.pc = "idle" /\ k.left > 0 /\ mtOnce = "done" /\ mtTurn' = [mtTurn EXCEPT ![u] = c]
        /\ UNCHANGED <<mtOnce, mtRegs, mtGen, mtSession, mtManager, mtClosed, mtClose>>
    BY <1>10, <1>b DEF MtAsk, MtCalls
  <2>2. k \in MtCalls /\ k.left \in 0..MtRounds /\ k.reg \in 0..2 /\ MtRounds \in Nat
    BY <1>b, MtAssumption DEF MtCalls
  <2> DEFINE l == k.left - 1
  <2>3. g \in {1, 2} /\ g \in 0..2 /\ l \in 0..MtRounds /\ l # MtRounds
    BY <1>b, <2>1, <2>2
  <2>4. c = [k EXCEPT !.pc = "asked", !.reg = g, !.left = l, !.offered = off, !.result = "none"]
    OBVIOUS
  <2>5. off \in SUBSET MtTools
    OBVIOUS
  <2> HIDE DEF k, g, off, l, c
  <2>6. /\ c \in MtCalls /\ c.pc = "asked" /\ c.reg = g /\ c.left = l /\ c.offered = off
        /\ c.result = "none" /\ c.found = k.found
    BY <2>2, <2>3, <2>4, <2>5 DEF MtCalls
  <2>7. Alone(u) => Served(c, mtRegs)
    <3> SUFFICES ASSUME Alone(u) PROVE Served(c, mtRegs)
      OBVIOUS
    <3>1. \A t \in MtTools : t \in off <=> Seen(mtRegs[g][t])
      BY DEF off, Visible, Seen
    <3>2. ASSUME mtCfg.ttl > 1, NEW t \in c.found PROVE t \in c.offered
      <4>1. t \in MtTools /\ t \in k.found
        BY <2>2, <2>6, <3>2 DEF MtCalls, MtTools
      <4>2. k.left # MtRounds
        BY <1>a, <4>1 DEF FreshOrBegun, k
      <4>3. Unlocked(mtRegs[k.reg][t]) /\ g = k.reg
        BY <1>a, <2>1, <3>2, <4>1, <4>2 DEF FreshOrBegun, ServedAlone, Served, k, g
      <4>4. QED
        BY <2>6, <3>1, <4>1, <4>3 DEF Seen, Unlocked
    <3>3. \A t \in c.offered : Seen(mtRegs[c.reg][t])
      BY <2>5, <2>6, <3>1
    <3>4. QED
      BY <2>6, <3>2, <3>3 DEF Served, MtCalling
  <2>8. QED
    BY <1>1, <1>b, <2>1, <2>3, <2>6, <2>7
<1>11. ASSUME NEW u \in MtTurns, MtLock(u) \/ MtAdd(u) \/ \E r \in {"ok", "error"} : MtAnswered(u, r)
       PROVE MtIInv'
  <2> DEFINE k == mtTurn[u]
  <2>1. /\ k.pc \in MtCalling /\ UNCHANGED <<mtOnce, mtRegs, mtGen, mtSession, mtManager, mtClosed, mtClose>>
        /\ \E pc \in {"locked", "called"} : Become(u, pc)
           \/ \E r \in {"ok", "error", "closed"} : Round(u, r)
    BY <1>11 DEF MtLock, MtAdd, MtAnswered, MtCalling
  <2>2. /\ k.left # MtRounds /\ k.reg \in {1, 2} /\ mtOnce = "done" /\ k \in MtCalls
        /\ Alone(u) => k.result # "notFound" /\ k.found = {}
    BY <1>3, <2>1 DEF MtCalling, Served
  <2>3. CASE \E pc \in {"locked", "called"} : Become(u, pc)
    <3>1. PICK pc \in {"locked", "called"} : mtTurn' = [mtTurn EXCEPT ![u] = [k EXCEPT !.pc = pc]]
      BY <2>3, <1>b DEF Become
    <3> DEFINE c == [k EXCEPT !.pc = pc]
    <3>2. /\ c \in MtCalls /\ c.left = k.left /\ c.reg = k.reg /\ c.found = k.found
          /\ c.result = k.result /\ c.pc = pc
      BY <2>2 DEF MtCalls
    <3> HIDE DEF c, k
    <3>3. Alone(u) => Served(c, mtRegs)
      BY <2>2, <3>2 DEF Served
    <3>4. QED
      BY <1>1, <1>b, <2>1, <2>2, <3>1, <3>2, <3>3 DEF c
  <2>4. CASE \E r \in {"ok", "error", "closed"} : Round(u, r)
    <3>1. PICK r \in {"ok", "error", "closed"} :
            mtTurn' = [mtTurn EXCEPT ![u] = [k EXCEPT !.pc = "answered", !.result = r]]
      BY <2>4, <1>b DEF Round
    <3> DEFINE c == [k EXCEPT !.pc = "answered", !.result = r]
    <3>2. /\ c \in MtCalls /\ c.left = k.left /\ c.reg = k.reg /\ c.found = k.found
          /\ c.result = r /\ c.pc = "answered"
      BY <2>2 DEF MtCalls
    <3> HIDE DEF c, k
    <3>3. Alone(u) => Served(c, mtRegs)
      BY <2>2, <3>2 DEF Served, MtCalling
    <3>4. QED
      BY <1>1, <1>b, <2>1, <2>2, <3>1, <3>2, <3>3 DEF c
  <2>5. QED
    BY <2>1, <2>3, <2>4
<1>12. ASSUME NEW u \in MtTurns, MtTick(u) PROVE MtIInv'
  <2> DEFINE k == mtTurn[u]
             c == [k EXCEPT !.pc = "idle"]
  <2>1. /\ k.pc = "answered" /\ UNCHANGED <<mtOnce, mtGen, mtSession, mtManager, mtClosed, mtClose>>
        /\ mtTurn' = [mtTurn EXCEPT ![u] = c] /\ mtRegs' = TickTTL(k.reg)
    BY <1>12, <1>b DEF MtTick, Become
  <2>2. /\ k.left # MtRounds /\ k.reg \in {1, 2} /\ mtOnce = "done" /\ k \in MtCalls
        /\ Alone(u) => Served(k, mtRegs)
    BY <1>3, <2>1
  <2>3. /\ mtRegs' \in [1..2 -> [MtTools -> MtEntries]]
        /\ \A t \in MtTools : /\ mtRegs'[k.reg][t].kind = mtRegs[k.reg][t].kind
                              /\ mtRegs[k.reg][t].ttl > 1 => mtRegs'[k.reg][t].ttl > 0
    BY <1>b, <2>1, <2>2, TickLeaves
  <2>4. /\ c \in MtCalls /\ c.left = k.left /\ c.reg = k.reg /\ c.found = k.found
        /\ c.result = k.result /\ c.pc = "idle" /\ k.found \subseteq MtTools
    BY <2>2 DEF MtCalls, MtTools
  <2> HIDE DEF c, k
  <2>5. Alone(u) => Served(c, mtRegs')
    <3> SUFFICES ASSUME Alone(u) PROVE Served(c, mtRegs')
      OBVIOUS
    <3>1. k.result # "notFound" /\ Served(k, mtRegs)
      BY <2>2 DEF Served
    <3>2. ASSUME mtCfg.ttl > 1, NEW t \in c.found PROVE Unlocked(mtRegs'[c.reg][t])
      <4>1. t \in MtTools /\ t \in k.found
        BY <2>4, <3>2
      <4>2. mtRegs[k.reg][t].kind = "hidden" /\ mtRegs[k.reg][t].ttl > 1
        BY <2>1, <3>1, <3>2, <4>1 DEF Served, Unlocked
      <4>3. mtRegs'[k.reg][t].kind = "hidden"
        BY <2>3, <4>1, <4>2
      <4>4. mtRegs'[k.reg][t].ttl > 0
        BY <2>3, <4>1, <4>2
      <4>5. QED
        BY <2>4, <4>3, <4>4 DEF Unlocked
    <3>3. QED
      BY <2>4, <3>1, <3>2 DEF Served, MtCalling
  <2>6. QED
    BY <1>1, <2>1, <2>2, <2>3, <2>4, <2>5
<1>13. ASSUME NEW u \in MtTurns, NEW t \in MtTools, MtExecute(u, t) PROVE MtIInv'
  <2> DEFINE k == mtTurn[u]
             pc == IF Visible(k.reg, t) /\ t \in MtServers /\ ~mtClosed THEN "checked" ELSE "answered"
             res == IF ~Visible(k.reg, t) THEN "notFound"
                    ELSE IF t = Internal /\ u \notin MtOwn THEN "restricted"
                    ELSE IF t \notin MtServers THEN "ok" ELSE IF mtClosed THEN "closed" ELSE "none"
             c == [k EXCEPT !.tool = t, !.found = {}, !.pc = pc, !.result = res]
  <2>1. /\ k.pc = "asked" /\ t \in k.offered
        /\ UNCHANGED <<mtOnce, mtRegs, mtGen, mtSession, mtManager, mtClosed, mtClose>>
        /\ mtTurn' = [mtTurn EXCEPT ![u] = c]
    BY <1>13, <1>b DEF MtExecute
  <2>2. /\ k.left # MtRounds /\ k.reg \in {1, 2} /\ mtOnce = "done" /\ k \in MtCalls
        /\ Alone(u) => Served(k, mtRegs)
    BY <1>3, <2>1
  <2>3. /\ pc \in {"checked", "answered"}
        /\ res \in {"none", "ok", "closed", "notFound", "restricted"}
        /\ res = "notFound" => ~Seen(mtRegs[k.reg][t])
    BY DEF Visible, Seen
  <2> HIDE DEF k, pc, res
  <2>4. /\ c \in MtCalls /\ c.left = k.left /\ c.reg = k.reg /\ c.found = {}
        /\ c.result = res /\ c.pc = pc
    BY <2>2, <2>3 DEF MtCalls
  <2> HIDE DEF c
  <2>5. Alone(u) => Served(c, mtRegs)
    BY <2>1, <2>2, <2>3, <2>4 DEF Served
  <2>6. QED
    BY <1>1, <1>b, <2>1, <2>2, <2>4, <2>5
<1>14. ASSUME NEW u \in MtTurns, NEW hits \in SUBSET MtServers, MtSearch(u, hits) PROVE MtIInv'
  <2> DEFINE k == mtTurn[u]
             c == [k EXCEPT !.pc = "answered", !.found = hits, !.tool = SearchTool, !.result = "ok"]
             R == mtRegs[k.reg]
             f == [t \in MtTools |-> IF t \in hits THEN [R[t] EXCEPT !.ttl = mtCfg.ttl] ELSE R[t]]
  <2>1. /\ k.pc = "asked" /\ UNCHANGED <<mtOnce, mtGen, mtSession, mtManager, mtClosed, mtClose>>
        /\ mtTurn' = [mtTurn EXCEPT ![u] = c]
        /\ \A t \in hits : R[t].kind = "hidden"
    BY <1>14, <1>b DEF MtSearch
  <2>2. /\ k.left # MtRounds /\ k.reg \in {1, 2} /\ mtOnce = "done" /\ k \in MtCalls
    BY <1>3, <2>1
  <2>3. mtRegs' = [mtRegs EXCEPT ![k.reg] = f]
    BY <1>14, <1>b, <2>2 DEF MtSearch
  <2>4. /\ R \in [MtTools -> MtEntries] /\ hits \subseteq MtTools
        /\ mtCfg.ttl \in 0..MtMaxTTL /\ mtCfg.ttl > 0 /\ SearchTool \in MtTools
    BY <1>a, <1>b, <2>2, MtAssumption DEF MtTypes, MtTools
  <2>5. /\ f \in [MtTools -> MtEntries]
        /\ \A t \in hits : f[t].kind = R[t].kind /\ f[t].ttl = mtCfg.ttl
    BY <2>4 DEF MtEntries
  <2> HIDE DEF f, R
  <2>6. mtRegs' \in [1..2 -> [MtTools -> MtEntries]] /\ mtRegs'[k.reg] = f
    BY <1>b, <2>2, <2>3, <2>5
  <2>7. /\ c \in MtCalls /\ c.left = k.left /\ c.reg = k.reg /\ c.found = hits
        /\ c.result = "ok" /\ c.pc = "answered"
    BY <2>2, <2>4 DEF MtCalls
  <2> HIDE DEF c, k
  <2>8. Served(c, mtRegs')
    BY <2>1, <2>4, <2>5, <2>6, <2>7 DEF Served, Unlocked, MtCalling
  <2>9. QED
    BY <1>1, <2>1, <2>2, <2>6, <2>7, <2>8
<1>15. CASE UNCHANGED mtVars
  BY <1>2, <1>15, <1>a DEF mtVars, MtTypes, ManagerMatches, ClosedLeavesNone
<1>16. QED
  BY <1>4, <1>5, <1>6, <1>7, <1>8, <1>9, <1>10, <1>11, <1>12, <1>13, <1>14, <1>15 DEF MtNext

\* What a search unlocked is offered and found by a turn that runs alone, and a
\* closed manager leaves no session, whatever calls are under way (TickTTL,
\* PromoteTools, ExecuteWithContext, Manager.Close).
THEOREM McpCorrect == MtSpec => []MtInv
<1>1. MtIInv => MtInv
  <2> SUFFICES ASSUME MtIInv PROVE MtInv
    OBVIOUS
  <2>1. MtTypeOK
    BY DEF MtIInv, MtTypes, MtTypeOK, MtCalls, MtEntries, MtCalling
  <2>2. UnlockedServeAlone
    BY DEF MtIInv, FreshOrBegun, ServedAlone, Served, UnlockedServeAlone
  <2>3. QED
    BY <2>1, <2>2 DEF MtIInv, ManagerMatches, MtInv
<1>2. QED
  BY <1>1, MtInitIInv, MtStepIInv, PTL DEF MtSpec
=============================================================================
