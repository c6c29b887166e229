------------------------------ MODULE Heartbeat ------------------------------
(* The heartbeat service, which runs a turn of the default agent on the tasks *)
(* of HEARTBEAT.md every interval, and the last channel it is for.            *)
(*                                                                            *)
(* The agent loop and every heartbeat service have a state manager each.  It  *)
(* reads the state file when it is made and writes it at every change; nothing*)
(* reads it again.                                                            *)
EXTENDS Naturals, FiniteSets

CONSTANTS HbChats,      \* chats of users
          HbInternal,   \* an internal channel, which an old file may name
          HbNone,       \* no channel
          HbServices    \* services made, one by each start or reload of the gateway

ASSUME HbAssumption ==
  /\ HbServices \in Nat \ {0} /\ HbInternal \notin HbChats
  /\ HbNone \notin HbChats \cup {HbInternal}

VARIABLES hbTasks,  \* HEARTBEAT.md
          hbFile,   \* state/state.json
          hbOld,    \* state.json of an older version
          hbAgent,  \* the last channel of the agent loop's manager
          hbSeen,   \* chats users have ever written from
          hbLast,   \* the one they last wrote from since the process started
          hbGen,    \* the newest service
          hbSvc,    \* [1..HbServices -> record of a service]
          hbBeat    \* [service, timer or ticker -> record of a heartbeat]

hbVars == <<hbTasks, hbFile, hbOld, hbAgent, hbSeen, hbLast, hbGen, hbSvc, hbBeat>>

Gens == 1..HbServices
Sources == {"first", "tick"}   \* time.AfterFunc and the ticker of runLoop
HbChannels == HbChats \cup {HbInternal, HbNone}
NoFile == "missing"

----------------------------------------------------------------------------
(* NewManager: the file, or else that of the older version. *)
Loaded == IF hbFile # NoFile THEN hbFile ELSE IF hbOld # NoFile THEN hbOld ELSE HbNone
Migrated == IF hbFile = NoFile /\ hbOld # NoFile THEN {hbOld, NoFile} ELSE {hbFile}

(* Plausible defect: the channel is taken as it was recorded. *)
ParseLast_AsIs(last) == last

(* parseLastChannel *)
ParseLast(last) == IF last = HbInternal THEN HbNone ELSE last

(* NewHeartbeatService and Start: a loop runs if heartbeats are enabled. *)
StartService(g, enabled) ==
  /\ hbGen' = g
  /\ hbSvc' = [n \in Gens |->
       IF n = g THEN [on |-> enabled, loop |-> enabled, last |-> Loaded]
       ELSE [hbSvc[n] EXCEPT !.on = FALSE]]
  /\ hbBeat' = [hbBeat EXCEPT ![<<g, "first">>].pc = IF enabled THEN "waiting" ELSE "idle"]

HbInit ==
  /\ hbTasks \in {"missing", "empty", "tasks"}
  /\ hbFile \in {NoFile} \cup HbChannels /\ hbOld \in {NoFile} \cup HbChannels
  /\ hbFile = NoFile \/ hbOld = NoFile
  /\ hbSeen = {hbFile, hbOld} \cap HbChats /\ hbLast = HbNone
  /\ hbGen = 1 /\ hbAgent = Loaded
  /\ hbSvc = [n \in Gens |-> [on |-> n = 1, loop |-> n = 1, last |-> IF n = 1 THEN Loaded ELSE HbNone]]
  /\ hbBeat = [b \in Gens \X Sources |->
                 [pc |-> IF b = <<1, "first">> THEN "waiting" ELSE "idle", chan |-> HbNone]]

(* runAgentLoop, RecordLastChannel: saved when the write does not fail. *)
Record(c) ==
  IF c = HbNone THEN UNCHANGED <<hbAgent, hbFile>>
  ELSE hbAgent' = c /\ hbFile' \in {c, hbFile}

(* A user's message begins a turn. *)
HbUserTurn(c) ==
  /\ hbLast # c /\ Record(c)
  /\ hbSeen' = hbSeen \cup {c} /\ hbLast' = c
  /\ UNCHANGED <<hbTasks, hbOld, hbGen, hbSvc, hbBeat>>

(* handleConfigReload: the old service is stopped, its running heartbeat is   *)
(* not waited for, and a new one is made.                                     *)
HbReload(enabled) ==
  /\ hbGen < HbServices /\ StartService(hbGen + 1, enabled) /\ hbFile' \in Migrated
  /\ UNCHANGED <<hbTasks, hbOld, hbAgent, hbSeen, hbLast>>

(* The process ends and starts again: every manager is made anew. *)
HbRestart(enabled) ==
  /\ hbGen < HbServices /\ hbGen' = hbGen + 1 /\ hbAgent' = Loaded /\ hbFile' \in Migrated
  /\ hbLast' = HbNone
  /\ hbSvc' = [n \in Gens |-> IF n = hbGen + 1 THEN [on |-> enabled, loop |-> enabled, last |-> Loaded]
                              ELSE [hbSvc[n] EXCEPT !.on = FALSE, !.loop = FALSE]]
  /\ hbBeat' = [b \in Gens \X Sources |->
       [pc |-> IF enabled /\ b = <<hbGen + 1, "first">> THEN "waiting" ELSE "idle", chan |-> HbNone]]
  /\ UNCHANGED <<hbTasks, hbOld, hbSeen>>

----------------------------------------------------------------------------
(* The stop channel is closed: the loop leaves when it is not in a heartbeat. *)
HbLoopEnds(g) ==
  /\ hbSvc[g].loop /\ ~hbSvc[g].on /\ hbBeat[<<g, "tick">>].pc = "idle"
  /\ hbSvc' = [hbSvc EXCEPT ![g].loop = FALSE]
  /\ UNCHANGED <<hbTasks, hbFile, hbOld, hbAgent, hbSeen, hbLast, hbGen, hbBeat>>

(* Plausible defect: the loop has no ticker. *)
HbTick_Once(g, s) ==
  /\ s = "first" /\ hbBeat[<<g, s>>].pc = "waiting"
  /\ hbBeat' = [hbBeat EXCEPT ![<<g, s>>].pc = IF hbSvc[g].on THEN "begun" ELSE "idle"]
  /\ UNCHANGED <<hbTasks, hbFile, hbOld, hbAgent, hbSeen, hbLast, hbGen, hbSvc>>

(* The timer of the first second, or a tick: executeHeartbeat looks whether   *)
(* the service runs.                                                          *)
HbTick(g, s) ==
  /\ IF s = "first" THEN hbBeat[<<g, s>>].pc = "waiting"
     ELSE hbBeat[<<g, s>>].pc = "idle" /\ hbSvc[g].loop
  /\ hbBeat' = [hbBeat EXCEPT ![<<g, s>>].pc = IF hbSvc[g].on THEN "begun" ELSE "idle"]
  /\ UNCHANGED <<hbTasks, hbFile, hbOld, hbAgent, hbSeen, hbLast, hbGen, hbSvc>>

(* buildPrompt: a missing file is made from the template, whose text is tasks *)
(* to the heartbeat after.                                                    *)
HbPrompt(g, s) ==
  /\ hbBeat[<<g, s>>].pc = "begun"
  /\ hbTasks' \in IF hbTasks = "missing" THEN {"tasks", "missing"} ELSE {hbTasks}
  /\ hbBeat' = [hbBeat EXCEPT
       ![<<g, s>>] = IF hbTasks = "tasks" THEN [pc |-> "prompted", chan |-> ParseLast(hbSvc[g].last)]
                     ELSE [pc |-> "idle", chan |-> HbNone]]
  /\ UNCHANGED <<hbFile, hbOld, hbAgent, hbSeen, hbLast, hbGen, hbSvc>>

(* The handler runs a turn, of the channel or else of the command line, which *)
(* records its channel as any other turn does.                                *)
HbTurn(g, s) ==
  /\ hbBeat[<<g, s>>].pc = "prompted" /\ Record(hbBeat[<<g, s>>].chan)
  /\ hbBeat' = [hbBeat EXCEPT ![<<g, s>>].pc = "turn"]
  /\ UNCHANGED <<hbTasks, hbOld, hbSeen, hbLast, hbGen, hbSvc>>

(* The turn ends; what it answers is silent or an error, and goes nowhere. *)
HbTurnEnds(g, s) ==
  /\ hbBeat[<<g, s>>].pc = "turn"
  /\ hbBeat' = [hbBeat EXCEPT ![<<g, s>>] = [pc |-> "idle", chan |-> HbNone]]
  /\ UNCHANGED <<hbTasks, hbFile, hbOld, hbAgent, hbSeen, hbLast, hbGen, hbSvc>>

(* The owner edits HEARTBEAT.md. *)
HbEditTasks(t) ==
  /\ hbTasks = "empty" /\ t # hbTasks /\ hbTasks' = t
  /\ UNCHANGED <<hbFile, hbOld, hbAgent, hbSeen, hbLast, hbGen, hbSvc, hbBeat>>

HbBeatStep(g, s) == HbTick(g, s) \/ HbPrompt(g, s) \/ HbTurn(g, s) \/ HbTurnEnds(g, s)

HbNext ==
  \/ \E c \in HbChats : HbUserTurn(c)
  \/ \E enabled \in BOOLEAN : HbReload(enabled) \/ HbRestart(enabled)
  \/ \E g \in Gens : HbLoopEnds(g) \/ \E s \in Sources : HbBeatStep(g, s)
  \/ \E t \in {"missing", "tasks"} : HbEditTasks(t)

(* Timers fire, and a turn ends: the provider's client has a timeout. *)
HbFairness ==
  \A g \in Gens : WF_hbVars(HbLoopEnds(g)) /\ \A s \in Sources : WF_hbVars(HbBeatStep(g, s))

HbSpec == HbInit /\ [][HbNext]_hbVars /\ HbFairness

----------------------------------------------------------------------------
(* The state is well typed. *)
HbTypeOK ==
  /\ hbTasks \in {"missing", "empty", "tasks"}
  /\ hbFile \in HbChannels \cup {NoFile} /\ hbAgent \in HbChannels
  /\ hbSeen \subseteq HbChats /\ hbLast \in HbChats \cup {HbNone} /\ hbGen \in Gens
  /\ hbSvc \in [Gens -> [on : BOOLEAN, loop : BOOLEAN, last : HbChannels]]
  /\ hbBeat \in [Gens \X Sources ->
       [pc : {"idle", "waiting", "begun", "prompted", "turn"}, chan : HbChannels]]

(* A heartbeat's turn is of a chat a user has written from, or of the command *)
(* line: what an older version recorded leads nowhere else.                   *)
TurnsAreOfUsers == \A b \in DOMAIN hbBeat : hbBeat[b].chan \in hbSeen \cup {HbNone}

(* Only the newest service starts heartbeats: the loops of those before end,  *)
(* or are in their last heartbeat.                                            *)
OneServiceBeats ==
  \A g \in Gens : g # hbGen => ~hbSvc[g].on

(* Heartbeats are turns of users' chats, by one service.                      *)
HbInv == HbTypeOK /\ TurnsAreOfUsers /\ OneServiceBeats

(* A service that runs beats again and again, and one that was stopped, even  *)
(* in the middle of a heartbeat, ends.                                        *)
KeepsBeating ==
  \A g \in Gens :
    /\ (g = hbGen /\ hbSvc[g].on) ~> (hbBeat[<<g, "tick">>].pc = "begun" \/ g # hbGen)
    /\ ~hbSvc[g].on ~> ~hbSvc[g].loop

(* The channel recorded is that of the user's last message ("Record last      *)
(* channel for heartbeat notifications").  Refuted: a heartbeat's turn is of  *)
(* the channel its service read when it was made, and records it as the last. *)
LastIsTheUsers == hbLast # HbNone => hbAgent = hbLast

(* A heartbeat is for the chat the user last wrote from.  Refuted likewise.   *)
BeatsFindTheUser ==
  \A b \in DOMAIN hbBeat : hbBeat[b].pc = "prompted" /\ hbLast # HbNone => hbBeat[b].chan = hbLast

(* One heartbeat at a time.  Refuted: the first one of a service, run by its  *)
(* timer, or the last of the service before, may run on beside it.            *)
OneBeatAtATime == Cardinality({b \in DOMAIN hbBeat : hbBeat[b].pc = "turn"}) <= 1
=============================================================================
