--------------------------- MODULE ConnectionLife ---------------------------
(* The life of one channel object: Start connects it to its service, Stop     *)
(* ends it, and in between the connection is lost and made again, by the      *)
(* service's library or by a loop of the adapter.  Start, Stop, the loss of   *)
(* the connection and the loop overlap; what differs between the adapters is  *)
(* a record per adapter.                                                      *)
(*                                                                            *)
(* Intervals and backoffs are abstracted.  MaxDials bounds the connections    *)
(* of one run, MaxReads the reads of a dead connection.                       *)
EXTENDS Naturals, FiniteSets

CONSTANTS MaxDials, MaxReads

ASSUME ClAssumption == MaxDials \in Nat \ {0} /\ MaxReads \in Nat

(* fails: Start may fail; tolerates: it goes on without a connection; closes: *)
(* Stop closes the connection it knows of; loop: who connects again; waits:   *)
(* Stop waits for the loop; aborts: canceling aborts a dial; daemon: a helper *)
(* process is run.                                                            *)
Life(loop) == [fails |-> TRUE, tolerates |-> FALSE, closes |-> TRUE, loop |-> loop,
               waits |-> FALSE, aborts |-> FALSE, daemon |-> FALSE]

TelegramLife == Life("library")
DiscordLife == Life("library")
SlackLife == Life("library")
FeishuLife == Life("library")
IRCLife == Life("library")
DingTalkLife == Life("library")
MatrixLife == [Life("library") EXCEPT !.fails = FALSE]
LineLife == [Life("webhook") EXCEPT !.fails = FALSE]
WeComAppLife == [Life("webhook") EXCEPT !.fails = FALSE]
QQLife == [Life("library") EXCEPT !.closes = FALSE]
WhatsAppLife == Life("none")
OneBotLife == [Life("own") EXCEPT !.tolerates = TRUE]
WhatsAppNativeLife == [Life("own") EXCEPT !.waits = TRUE]
SignalLife == [Life("own") EXCEPT !.tolerates = TRUE, !.aborts = TRUE, !.daemon = TRUE]

Lives ==
  [telegram |-> TelegramLife, discord |-> DiscordLife, slack |-> SlackLife,
   feishu |-> FeishuLife, irc |-> IRCLife, dingtalk |-> DingTalkLife, matrix |-> MatrixLife,
   line |-> LineLife, wecom_app |-> WeComAppLife, qq |-> QQLife, whatsapp |-> WhatsAppLife,
   onebot |-> OneBotLife, whatsapp_native |-> WhatsAppNativeLife, signal |-> SignalLife]

VARIABLES clName,     \* the adapter
          clStage,    \* "new", "starting", "running", "failed"
          clCanceled, \* the channel's context is done
          clStop,     \* "no", "canceled", "waiting", "returned", "gaveUp"
          clRef,      \* the connection the channel knows of, 0: none
          clOpen,     \* connections that are open
          clLoop,     \* "none", "idle", "dialing": the adapter's reconnecting goroutine
          clDials,    \* connections made
          clReads,    \* reads of a connection that has failed
          clDaemon    \* the helper process runs

clVars == <<clName, clStage, clCanceled, clStop, clRef, clOpen, clLoop, clDials, clReads,
            clDaemon>>

ClInit ==
  /\ clName \in DOMAIN Lives
  /\ clStage = "new" /\ clCanceled = FALSE /\ clStop = "no" /\ clRef = 0 /\ clOpen = {}
  /\ clLoop = "none" /\ clDials = 0 /\ clReads = 0 /\ clDaemon = FALSE

life == Lives[clName]

(* Start, as far as the daemon and the dial. *)
ClStart ==
  /\ clStage = "new" /\ clStage' = "starting" /\ clDaemon' = life.daemon
  /\ UNCHANGED <<clName, clCanceled, clStop, clRef, clOpen, clLoop, clDials, clReads>>

(* Plausible defect: a Start that fails leaves its helper process. *)
ClStarted_LeavesDaemon(ok) ==
  /\ clStage = "starting" /\ (ok \/ life.fails)
  /\ clStage' = IF ok \/ (life.tolerates /\ ~life.daemon) THEN "running" ELSE "failed"
  /\ IF ok /\ life.loop # "webhook"
     THEN clRef' = clDials + 1 /\ clOpen' = {clDials + 1} /\ clDials' = clDials + 1
     ELSE UNCHANGED <<clRef, clOpen, clDials>>
  /\ clLoop' = IF clStage' = "running" /\ life.loop = "own" /\ ~life.waits THEN "idle" ELSE "none"
  /\ clCanceled' = (clStage' = "failed") /\ UNCHANGED clDaemon
  /\ UNCHANGED <<clName, clStop, clReads>>

(* The rest of Start.  OneBot starts without a connection as its loop will    *)
(* make one; Signal waits for its daemon and ends it if it is not ready.      *)
ClStarted(ok) ==
  /\ clStage = "starting" /\ (ok \/ life.fails)
  /\ clStage' = IF ok \/ (life.tolerates /\ ~life.daemon) THEN "running" ELSE "failed"
  /\ IF ok /\ life.loop # "webhook"
     THEN clRef' = clDials + 1 /\ clOpen' = {clDials + 1} /\ clDials' = clDials + 1
     ELSE UNCHANGED <<clRef, clOpen, clDials>>
  /\ clLoop' = IF clStage' = "running" /\ life.loop = "own" /\ ~life.waits THEN "idle" ELSE "none"
  /\ clCanceled' = (clStage' = "failed")
  /\ clDaemon' = (clDaemon /\ clStage' = "running")
  /\ UNCHANGED <<clName, clStop, clReads>>

(* The connection is lost.  The listener of OneBot closes and forgets it; the *)
(* Disconnected event of WhatsApp starts the loop unless it runs or the       *)
(* channel stops; the bridge's listener keeps its connection.                 *)
ClLost(g) ==
  /\ g \in clOpen /\ life.loop \in {"own", "none"} /\ clOpen' = clOpen \ {g}
  /\ clRef' = IF clRef = g /\ life.loop = "own" THEN 0 ELSE clRef
  /\ clLoop' = IF life.waits /\ clLoop = "none" /\ clStop = "no" THEN "idle" ELSE clLoop
  /\ UNCHANGED <<clName, clStage, clCanceled, clStop, clDials, clReads, clDaemon>>

(* listen of the WhatsApp bridge: ReadMessage fails, wait, read again.        *)
ClReadDead ==
  /\ life.loop = "none" /\ clStage = "running" /\ ~clCanceled
  /\ clRef # 0 /\ clRef \notin clOpen /\ clReads < MaxReads /\ clReads' = clReads + 1
  /\ UNCHANGED <<clName, clStage, clCanceled, clStop, clRef, clOpen, clLoop, clDials, clDaemon>>

(* Plausible defect: the loop dials although the channel has a connection. *)
ClDial_Always ==
  /\ clLoop = "idle" /\ ~clCanceled /\ clDials < MaxDials
  /\ clLoop' = "dialing"
  /\ UNCHANGED <<clName, clStage, clCanceled, clStop, clRef, clOpen, clDials, clReads, clDaemon>>

(* The loop finds no connection and its context not done, and dials.          *)
ClDial ==
  /\ clLoop = "idle" /\ ~clCanceled /\ clRef = 0 /\ clDials < MaxDials
  /\ clLoop' = "dialing"
  /\ UNCHANGED <<clName, clStage, clCanceled, clStop, clRef, clOpen, clDials, clReads, clDaemon>>

(* The dial ends; unless canceling aborts it, a Stop meanwhile is not seen.   *)
ClDialed(ok) ==
  /\ clLoop = "dialing" /\ (ok => ~(clCanceled /\ life.aborts))
  /\ IF ok THEN clRef' = clDials + 1 /\ clOpen' = clOpen \cup {clDials + 1}
                /\ clDials' = clDials + 1 ELSE UNCHANGED <<clRef, clOpen, clDials>>
  /\ clLoop' = IF ok /\ life.waits THEN "none" ELSE "idle"
  /\ UNCHANGED <<clName, clStage, clCanceled, clStop, clReads, clDaemon>>

ClLoopEnds ==
  /\ clLoop = "idle" /\ clCanceled /\ clLoop' = "none"
  /\ UNCHANGED <<clName, clStage, clCanceled, clStop, clRef, clOpen, clDials, clReads, clDaemon>>

(* Stop: cancel the context, which also ends what a library runs with it ...  *)
ClStopCancel ==
  /\ clStage = "running" /\ clStop = "no" /\ clStop' = "canceled" /\ clCanceled' = TRUE
  /\ UNCHANGED <<clName, clStage, clRef, clOpen, clLoop, clDials, clReads, clDaemon>>

(* ... close the connection the channel has by now and the daemon ...         *)
ClStopClose ==
  /\ clStop = "canceled" /\ clStop' = "waiting"
  /\ clOpen' = IF life.closes THEN clOpen \ {clRef} ELSE clOpen
  /\ clRef' = IF life.closes THEN 0 ELSE clRef
  /\ clDaemon' = FALSE
  /\ UNCHANGED <<clName, clStage, clCanceled, clLoop, clDials, clReads>>

(* ... and, for WhatsApp, wait for the loop or until Stop's context is done.  *)
ClStopReturn ==
  /\ clStop = "waiting"
  /\ clStop' = IF ~life.waits \/ clLoop = "none" THEN "returned" ELSE "gaveUp"
  /\ UNCHANGED <<clName, clStage, clCanceled, clRef, clOpen, clLoop, clDials, clReads, clDaemon>>

ClNext ==
  \/ ClStart \/ ClDial \/ ClLoopEnds \/ ClReadDead
  \/ ClStopCancel \/ ClStopClose \/ ClStopReturn
  \/ \E ok \in BOOLEAN : ClStarted(ok) \/ ClDialed(ok)
  \/ \E g \in clOpen : ClLost(g)

(* The loop dials, a dial ends, and the service can be reached again and      *)
(* again.                                                                     *)
ClFairness == WF_clVars(ClDial) /\ WF_clVars(\E ok \in BOOLEAN : ClDialed(ok))
              /\ SF_clVars(ClDialed(TRUE))

ClSpec == ClInit /\ [][ClNext]_clVars /\ ClFairness

----------------------------------------------------------------------------
(* The state is well typed. *)
ClTypeOK ==
  /\ clName \in DOMAIN Lives /\ clStage \in {"new", "starting", "running", "failed"}
  /\ clCanceled \in BOOLEAN /\ clStop \in {"no", "canceled", "waiting", "returned", "gaveUp"}
  /\ clRef \in 0..MaxDials /\ clOpen \subseteq 1..MaxDials
  /\ clLoop \in {"none", "idle", "dialing"} /\ clDials \in 0..MaxDials
  /\ clReads \in 0..MaxReads /\ clDaemon \in BOOLEAN

(* A channel has one connection at a time, however losses, dials and a Stop   *)
(* overlap; the helper process of Signal does not outlive a Start that failed *)
(* or a Stop; and a Stop of WhatsApp that waited leaves no loop.              *)
OneConnection ==
  /\ Cardinality(clOpen) <= 1
  /\ clStage = "failed" \/ clStop \in {"waiting", "returned", "gaveUp"} => ~clDaemon
  /\ clStop = "returned" /\ life.waits => clLoop = "none"

(* One connection, and no helper left behind.                                 *)
ClInv == ClTypeOK /\ OneConnection

(* A lost connection is made again unless the channel stops or the bound on   *)
(* the dials is reached, by the adapters that have a loop of their own.       *)
LostIsReconnected ==
  clStage = "running" /\ clOpen = {} /\ life.loop = "own"
    ~> clOpen # {} \/ clStop # "no" \/ clDials = MaxDials

(* After Stop no connection is left.  Refuted: a dial of OneBot or WhatsApp   *)
(* under way when Stop closes the connection makes one nobody closes, and QQ  *)
(* has no way to end its session.                                             *)
StopCloses == clStop = "returned" /\ clLoop = "none" => clOpen = {}

(* A channel that runs and lost its connection makes another or stops trying. *)
(* Refuted for the WhatsApp bridge, which reads the dead connection on and on *)
(* (the websocket library panics at the thousandth such read).                *)
DeadIsLeft == clReads < MaxReads
=============================================================================
