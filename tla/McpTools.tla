------------------------------- MODULE McpTools -------------------------------
(* The tools of an agent as its turns see them: those always there, those for *)
(* the program's own channels, and those of MCP servers, which discovery      *)
(* hides until a search unlocks them for a number of rounds; and the client   *)
(* of the servers, whose Close waits for the calls under way.  Cron jobs and  *)
(* the heartbeat run turns of the agent beside those of the message loop.     *)
EXTENDS Naturals, FiniteSets

CONSTANTS MtTurns,     \* turns that share an agent
          MtOwn,       \* those of the program's own channels
          MtServers,   \* MCP servers, each with one tool of its name
          MtConfig,    \* [MtServers -> their configuration]
          MtMaxTTL,    \* largest number of rounds a tool stays unlocked
          MtRounds     \* rounds of a turn

ASSUME MtAssumption ==
  MtMaxTTL \in Nat \ {0} /\ MtRounds \in Nat \ {0} /\ MtOwn \subseteq MtTurns

ASSUME MtConfigAssumption ==
  MtConfig \in [MtServers -> [type : {"", "sse", "http", "stdio", "tcp"}, url : BOOLEAN,
                              command : BOOLEAN, envFile : {"none", "good", "bad"}]]

VARIABLES mtCfg,      \* [discovery, search, ttl]
          mtOnce,     \* the one initialization: "no", "loading" or "done"
          mtRegs,     \* registries, the first and that of a reload
          mtGen,      \* which one new turns take
          mtTurn,     \* [MtTurns -> record]
          mtSession,  \* [MtServers -> "none", "open" or "closed"]
          mtManager,  \* the agent loop's manager: "none", "set" or "taken"
          mtClosed,   \* the manager's flag
          mtClose     \* the loop's Close: "no", "waiting", "done"

mtVars == <<mtCfg, mtOnce, mtRegs, mtGen, mtTurn, mtSession, mtManager, mtClosed, mtClose>>

Builtin == "exec"               \* stands for the core tools
Internal == "sessions_control"  \* for the internal ones
SearchTool == "tool_search"
MtTools == MtServers \cup {Builtin, Internal, SearchTool}

(* An entry of a registry; a tool that is not registered has kind "none". *)
Entry(kind) == [kind |-> kind, ttl |-> 0]
NewRegistry == [t \in MtTools |-> Entry(CASE t = Builtin -> "core" [] t = Internal -> "internal"
                                          [] OTHER -> "none")]

(* Get: hidden tools are there while their TTL lasts. *)
Visible(g, t) ==
  LET e == mtRegs[g][t] IN e.kind \in {"core", "internal"} \/ (e.kind = "hidden" /\ e.ttl > 0)

MtCalling == {"checked", "locked", "called"}
InFlight == {u \in MtTurns : mtTurn[u].pc = "called"}   \* the manager's WaitGroup
Readers == {u \in MtTurns : mtTurn[u].pc = "locked"}    \* of the manager's lock

MtInit ==
  /\ mtCfg \in [discovery : BOOLEAN, search : BOOLEAN, ttl : 1..MtMaxTTL]
  /\ mtOnce = "no" /\ mtGen = 1 /\ mtRegs = [g \in 1..2 |-> NewRegistry]
  /\ mtTurn = [u \in MtTurns |-> [pc |-> "idle", reg |-> 0, left |-> MtRounds, offered |-> {},
                                  found |-> {}, tool |-> Builtin, result |-> "none"]]
  /\ mtSession = [s \in MtServers |-> "none"] /\ mtManager = "none"
  /\ mtClosed = FALSE /\ mtClose = "no"

----------------------------------------------------------------------------
(* Initialization, Close and reload *)

(* ConnectServer: the transport, told from the fields where no type is given, *)
(* must have what it needs; a file of variables that is named must be read.   *)
Transport(c) ==
  IF c.type # "" THEN c.type ELSE IF c.url THEN "sse" ELSE IF c.command THEN "stdio" ELSE "none"
Connectable(s) ==
  LET c == MtConfig[s] IN
  \/ Transport(c) \in {"sse", "http"} /\ c.url
  \/ Transport(c) = "stdio" /\ c.command /\ c.envFile # "bad"

(* ensureMCPInitialized is done once; its servers are connected in parallel.  *)
MtLoad ==
  /\ mtOnce = "no" /\ mtOnce' = "loading"
  /\ UNCHANGED <<mtCfg, mtRegs, mtGen, mtTurn, mtSession, mtManager, mtClosed, mtClose>>

(* When all have answered, those that did not connect are left out, and when  *)
(* none did the manager is closed and nothing is said.  The tools are         *)
(* registered; discovery without a search closes the manager and is an error. *)
MtLoaded(up) ==
  LET broken == mtCfg.discovery /\ ~mtCfg.search
      kind == IF mtCfg.discovery THEN "hidden" ELSE "core"
  IN  /\ mtOnce = "loading" /\ mtOnce' = "done" /\ \A s \in up : Connectable(s)
      /\ mtRegs' = [mtRegs EXCEPT ![mtGen] =
           [t \in MtTools |-> IF t \in up THEN Entry(kind)
                              ELSE IF t = SearchTool /\ up # {} /\ mtCfg.discovery /\ mtCfg.search
                                   THEN Entry("core") ELSE @[t]]]
      /\ mtSession' = [s \in MtServers |->
           IF s \notin up THEN "none" ELSE IF broken THEN "closed" ELSE "open"]
      /\ mtManager' = IF up = {} \/ broken THEN "none" ELSE "set"
      /\ mtClosed' = (up = {} \/ broken)
      /\ UNCHANGED <<mtCfg, mtGen, mtTurn, mtClose>>

(* ReloadProviderAndConfig makes a registry with the shared tools. *)
MtReload ==
  /\ mtGen = 1 /\ mtGen' = 2 /\ mtClose = "no" /\ mtOnce # "loading"
  /\ UNCHANGED <<mtCfg, mtOnce, mtRegs, mtTurn, mtSession, mtManager, mtClosed, mtClose>>

(* Close of the agent loop takes the manager; the manager's Close sets the    *)
(* flag and waits.                                                            *)
MtCloseBegins ==
  /\ mtClose = "no"
  /\ IF mtManager = "set"
     THEN mtManager' = "taken" /\ mtClosed' = TRUE /\ mtClose' = "waiting"
     ELSE mtClose' = "done" /\ UNCHANGED <<mtManager, mtClosed>>
  /\ UNCHANGED <<mtCfg, mtOnce, mtRegs, mtGen, mtTurn, mtSession>>

(* Wait has returned at some moment without a call; the lock comes after it. *)
MtWaited ==
  /\ mtClose = "waiting" /\ InFlight = {} /\ mtClose' = "waited"
  /\ UNCHANGED <<mtCfg, mtOnce, mtRegs, mtGen, mtTurn, mtSession, mtManager, mtClosed>>

MtCloses ==
  /\ mtClose = "waited" /\ Readers = {} /\ mtClose' = "done"
  /\ mtSession' = [s \in MtServers |-> IF mtSession[s] = "open" THEN "closed" ELSE mtSession[s]]
  /\ UNCHANGED <<mtCfg, mtOnce, mtRegs, mtGen, mtTurn, mtManager, mtClosed>>

----------------------------------------------------------------------------
(* A turn *)

Become(u, pc) == mtTurn' = [mtTurn EXCEPT ![u].pc = pc]
Round(u, r) == mtTurn' = [mtTurn EXCEPT ![u].pc = "answered", ![u].result = r]

(* A round begins: the model is offered what is visible, ToProviderDefs.  An  *)
(* error of the initialization ends the loop before it takes a turn.          *)
MtAsk(u) ==
  LET k == mtTurn[u] g == IF k.reg = 0 THEN mtGen ELSE k.reg IN
  /\ k.pc = "idle" /\ k.left > 0 /\ mtOnce = "done" /\ ~(mtCfg.discovery /\ ~mtCfg.search)
  /\ mtTurn' = [mtTurn EXCEPT ![u].pc = "asked", ![u].reg = g, ![u].left = @ - 1,
                  ![u].offered = {t \in MtTools : Visible(g, t)}, ![u].result = "none"]
  /\ UNCHANGED <<mtCfg, mtOnce, mtRegs, mtGen, mtSession, mtManager, mtClosed, mtClose>>

(* ExecuteWithContext: the tool must be there, and not be internal when the   *)
(* turn is of an outside channel.                                             *)
MtExecute(u, t) ==
  LET k == mtTurn[u] IN
  /\ k.pc = "asked" /\ t \in k.offered \ {SearchTool}
  /\ mtTurn' = [mtTurn EXCEPT ![u].tool = t, ![u].found = {},
       ![u].pc = IF Visible(k.reg, t) /\ t \in MtServers /\ ~mtClosed THEN "checked" ELSE "answered",
       ![u].result = IF ~Visible(k.reg, t) THEN "notFound"
                     ELSE IF t = Internal /\ u \notin MtOwn THEN "restricted"
                     ELSE IF t \notin MtServers THEN "ok" ELSE IF mtClosed THEN "closed" ELSE "none"]
  /\ UNCHANGED <<mtCfg, mtOnce, mtRegs, mtGen, mtSession, mtManager, mtClosed, mtClose>>

(* The search tools: those found are unlocked, PromoteTools. *)
MtSearch(u, hits) ==
  LET k == mtTurn[u] hidden == {t \in MtServers : mtRegs[k.reg][t].kind = "hidden"} IN
  /\ k.pc = "asked" /\ SearchTool \in k.offered /\ hits \subseteq hidden
  /\ mtRegs' = [mtRegs EXCEPT ![k.reg] =
                  [t \in MtTools |-> IF t \in hits THEN [@[t] EXCEPT !.ttl = mtCfg.ttl] ELSE @[t]]]
  /\ mtTurn' = [mtTurn EXCEPT ![u].pc = "answered", ![u].found = hits, ![u].tool = SearchTool,
                              ![u].result = "ok"]
  /\ UNCHANGED <<mtCfg, mtOnce, mtGen, mtSession, mtManager, mtClosed, mtClose>>

(* CallTool: the flag again, under the read lock; *)
MtLock(u) ==
  /\ mtTurn[u].pc = "checked"
  /\ IF mtClosed THEN Round(u, "closed") ELSE Become(u, "locked")
  /\ UNCHANGED <<mtCfg, mtOnce, mtRegs, mtGen, mtSession, mtManager, mtClosed, mtClose>>

(* the WaitGroup counts the call and the lock is given back; *)
MtAdd(u) ==
  /\ mtTurn[u].pc = "locked"
  /\ IF mtSession[mtTurn[u].tool] = "open" THEN Become(u, "called") ELSE Round(u, "error")
  /\ UNCHANGED <<mtCfg, mtOnce, mtRegs, mtGen, mtSession, mtManager, mtClosed, mtClose>>

(* the server answers, or the session is lost. *)
MtAnswered(u, r) ==
  /\ mtTurn[u].pc = "called" /\ (r = "ok" => mtSession[mtTurn[u].tool] = "open") /\ Round(u, r)
  /\ UNCHANGED <<mtCfg, mtOnce, mtRegs, mtGen, mtSession, mtManager, mtClosed, mtClose>>

(* Plausible defect: the tick takes the tools unlocked in this round back. *)
TickTTL_Resets(g) ==
  [mtRegs EXCEPT ![g] = [t \in MtTools |-> [@[t] EXCEPT !.ttl = 0]]]

Ticked(e) == [e EXCEPT !.ttl = IF @ > 0 THEN @ - 1 ELSE 0]

(* TickTTL: what is unlocked in the registry is so for one round less. *)
TickTTL(g) ==
  [mtRegs EXCEPT ![g] = [t \in MtTools |-> Ticked(@[t])]]

(* The results are in the session and the next round begins. *)
MtTick(u) ==
  /\ mtTurn[u].pc = "answered" /\ Become(u, "idle") /\ mtRegs' = TickTTL(mtTurn[u].reg)
  /\ UNCHANGED <<mtCfg, mtOnce, mtGen, mtSession, mtManager, mtClosed, mtClose>>

MtNext ==
  \/ MtLoad \/ (\E up \in SUBSET MtServers : MtLoaded(up))
  \/ MtReload \/ MtCloseBegins \/ MtWaited \/ MtCloses
  \/ \E u \in MtTurns :
       \/ MtAsk(u) \/ MtLock(u) \/ MtAdd(u) \/ MtTick(u)
       \/ \E t \in MtTools : MtExecute(u, t)
       \/ \E hits \in SUBSET MtServers : MtSearch(u, hits)
       \/ \E r \in {"ok", "error"} : MtAnswered(u, r)

(* The goroutines of Close and of the calls run; a call ends, if only with    *)
(* its context.                                                               *)
MtFair ==
  /\ WF_mtVars(MtWaited) /\ WF_mtVars(MtCloses)
  /\ \A u \in MtTurns : WF_mtVars(MtLock(u)) /\ WF_mtVars(MtAdd(u)) /\ WF_mtVars(MtAnswered(u, "error"))

MtSpec == MtInit /\ [][MtNext]_mtVars /\ MtFair

----------------------------------------------------------------------------
(* The state is well typed. *)
MtTypeOK ==
  /\ mtCfg \in [discovery : BOOLEAN, search : BOOLEAN, ttl : 1..MtMaxTTL]
  /\ mtOnce \in {"no", "loading", "done"} /\ mtGen \in 1..2
  /\ mtRegs \in [1..2 -> [MtTools -> [kind : {"none", "core", "internal", "hidden"}, ttl : 0..MtMaxTTL]]]
  /\ \A u \in MtTurns : LET k == mtTurn[u] IN
       /\ k.pc \in {"idle", "asked", "answered"} \cup MtCalling /\ k.reg \in 0..2
       /\ k.offered \subseteq MtTools /\ k.found \subseteq MtServers /\ k.left \in 0..MtRounds
       /\ k.tool \in MtTools
       /\ k.result \in {"none", "ok", "error", "closed", "notFound", "restricted"}
  /\ mtSession \in [MtServers -> {"none", "open", "closed"}]
  /\ mtManager \in {"none", "set", "taken"} /\ mtClosed \in BOOLEAN
  /\ mtClose \in {"no", "waiting", "waited", "done"}

(* No other turn has begun: the heartbeat and cron are off. *)
Alone(u) == \A v \in MtTurns \ {u} : mtTurn[v].left = MtRounds

(* "In your next response, you can call them directly": what a search found   *)
(* is offered in the round after it, and what is offered is found when        *)
(* called, in an agent that runs one turn at a time with a TTL of more than   *)
(* the round of the search.                                                   *)
UnlockedServeAlone ==
  \A u \in MtTurns : LET k == mtTurn[u] IN Alone(u) =>
    /\ k.pc = "asked" /\ mtCfg.ttl > 1 => k.found \subseteq k.offered
    /\ k.result # "notFound"

(* A manager that was closed has no session open, and a session is closed     *)
(* with the flag set, whatever calls are under way.                           *)
ClosedLeavesNone ==
  /\ mtClose = "done" /\ mtManager = "taken" => \A s \in MtServers : mtSession[s] # "open"
  /\ \A s \in MtServers : mtSession[s] = "closed" => mtClosed

(* What a search unlocked serves a turn alone, and a closed manager leaves nothing. *)
MtInv == MtTypeOK /\ UnlockedServeAlone /\ ClosedLeavesNone

(* Close of the agent loop returns, though calls are under way. *)
MtCloseEnds == (mtClose = "waiting") ~> (mtClose = "done")

(* "processMessage is sequential per agent": what the model was offered is    *)
(* there when it calls it.  Refuted: a round of another turn of the agent     *)
(* ticks it away in between.                                                  *)
OfferedIsFound == \A u \in MtTurns : mtTurn[u].result # "notFound"

(* "Wait for all in-flight CallTool calls to finish before closing sessions": *)
(* no session is closed under a call.  Refuted: a call that has read the flag *)
(* and not yet been counted is not waited for.                                *)
CallsAreNotCut == \A u \in InFlight : mtSession[mtTurn[u].tool] = "open"

(* The servers' tools are there after a reload.  Refuted: the registry is new *)
(* and the initialization is not repeated.                                    *)
ToolsSurviveReload ==
  \A u \in MtTurns : mtTurn[u].pc = "asked" /\ ~mtCfg.discovery =>
    \A s \in MtServers : mtSession[s] = "open" => s \in mtTurn[u].offered
=============================================================================
