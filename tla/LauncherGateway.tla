---------------------------- MODULE LauncherGateway ----------------------------
(* The launcher of the web console: it starts, stops and restarts the gateway *)
(* as a child process, tells the page about it over an event stream, and      *)
(* keeps the child's output for the page to poll.                             *)
(*                                                                            *)
(* gateway.mu makes the body of a handler one step; the two seconds a restart *)
(* sleeps, the goroutine that waits for the child, and the one that probes    *)
(* its health, are steps in between.                                          *)
EXTENDS Naturals, Sequences, FiniteSets

CONSTANTS LgRequests,   \* requests of the page, and the start at start-up
          LgMaxRuns,    \* processes started
          LgBuffer,     \* events the stream of a page holds (8)
          LgCapacity,   \* lines of output kept
          LgMaxLines    \* lines of output ever

ASSUME LgAssumption ==
  /\ LgMaxRuns \in Nat /\ LgMaxLines \in Nat
  /\ LgBuffer \in Nat \ {0} /\ LgCapacity \in Nat \ {0}

VARIABLES lgCmd,    \* gateway.cmd: the run it points to, 0 for none
          lgRun,    \* [1..LgMaxRuns -> record of a child and its goroutines]
          lgReq,    \* [LgRequests -> record]
          lgPage,   \* the event stream of one page, and what the page shows
          lgLog,    \* LogBuffer, and how many lines there ever were
          lgPoll    \* the page's polling of the log

lgVars == <<lgCmd, lgRun, lgReq, lgPage, lgLog, lgPoll>>

LgRuns == 1..LgMaxRuns
LgOps == {"start", "stop", "restart"}   \* TryAutoStartGateway is a start
NoRun == [st |-> "none", term |-> FALSE, wait |-> "none", probe |-> "none", crossed |-> FALSE]

----------------------------------------------------------------------------
LgInit ==
  /\ lgCmd = 0 /\ lgRun = [n \in LgRuns |-> NoRun]
  /\ lgReq \in [LgRequests -> [pc : LgOps, answer : {"none"}]]
  /\ lgLog = [run |-> 0, total |-> 0, lines |-> <<>>, ever |-> 0]
  /\ \E page \in {"none", "logs"} :   \* it follows the events, or polls the log
       /\ lgPage = [pc |-> page, queue |-> <<>>, shown |-> "none"]
       /\ lgPoll = [pc |-> IF page = "logs" THEN "idle" ELSE "off", offset |-> 0, run |-> 0,
                    last |-> 0, ordered |-> TRUE]

(* isCmdProcessAliveLocked: signal 0 reaches a child until it is waited for. *)
LgAlive(n) == n # 0 /\ lgRun[n].st \in {"booting", "serving", "deaf", "ended"}

(* EventBroadcaster.Broadcast: a page that is slow misses the event. *)
Broadcast(e) ==
  lgPage' = IF lgPage.pc \in {"none", "logs"} \/ Len(lgPage.queue) = LgBuffer THEN lgPage
            ELSE [lgPage EXCEPT !.queue = Append(@, e)]

(* LogBuffer.Reset *)
LogReset == lgLog' = [lgLog EXCEPT !.run = @ + 1, !.total = 0, !.lines = <<>>]

LgAnswer(r, a) == lgReq' = [lgReq EXCEPT ![r].pc = "done", ![r].answer = a]

(* startGatewayLocked, for the answer r: the child, the goroutine that waits  *)
(* for it, and the one that probes it.                                        *)
StartLocked(r) ==
  \E n \in LgRuns :
    /\ lgRun[n].st = "none" /\ \A m \in LgRuns : lgRun[m].st = "none" => n <= m
    /\ LogReset
    /\ \/ /\ lgCmd' = 0 /\ LgAnswer(r, "failed") /\ UNCHANGED <<lgRun, lgPage>>
       \/ /\ lgCmd' = n /\ LgAnswer(r, "ok") /\ Broadcast("starting")
          /\ lgRun' = [lgRun EXCEPT ![n] =
               [st |-> "booting", term |-> FALSE, wait |-> "waiting", probe |-> "waiting",
                crossed |-> \E q \in LgRequests : lgReq[q].pc = "sleeping"]]

(* Plausible defect: nothing looks whether the child is alive. *)
LgStart_Twice(r) ==
  /\ lgReq[r].pc = "start"
  /\ \/ lgCmd' = 0 /\ LgAnswer(r, "not_ready") /\ UNCHANGED <<lgRun, lgPage, lgLog>>
     \/ StartLocked(r)
  /\ UNCHANGED lgPoll

(* handleGatewayStart, TryAutoStartGateway: refused while the child lives, or *)
(* when gatewayStartReady finds no usable default model.                      *)
LgStart(r) ==
  /\ lgReq[r].pc = "start"
  /\ \/ /\ LgAlive(lgCmd) /\ LgAnswer(r, "already_running")
        /\ UNCHANGED <<lgCmd, lgRun, lgPage, lgLog>>
     \/ /\ ~LgAlive(lgCmd) /\ lgCmd' = 0 /\ LgAnswer(r, "not_ready")
        /\ UNCHANGED <<lgRun, lgPage, lgLog>>
     \/ ~LgAlive(lgCmd) /\ StartLocked(r)
  /\ UNCHANGED lgPoll

Signal(n) == lgRun' = [lgRun EXCEPT ![n].term = TRUE]

(* handleGatewayStop: cmd stays until the child has been waited for. *)
LgStop(r) ==
  /\ lgReq[r].pc = "stop"
  /\ \/ lgCmd = 0 /\ LgAnswer(r, "not_running") /\ UNCHANGED lgRun
     \/ lgCmd # 0 /\ LgAlive(lgCmd) /\ Signal(lgCmd) /\ LgAnswer(r, "ok")
     \/ lgCmd # 0 /\ ~LgAlive(lgCmd) /\ LgAnswer(r, "failed") /\ UNCHANGED lgRun
  /\ UNCHANGED <<lgCmd, lgPage, lgLog, lgPoll>>

(* handleGatewayRestart: the lock is free while it sleeps. *)
LgRestart(r) ==
  /\ lgReq[r].pc = "restart"
  /\ IF LgAlive(lgCmd)
     THEN Signal(lgCmd) /\ lgReq' = [lgReq EXCEPT ![r].pc = "sleeping"] /\ UNCHANGED lgCmd
     ELSE lgCmd' = 0 /\ lgReq' = [lgReq EXCEPT ![r].pc = "start"] /\ UNCHANGED lgRun
  /\ UNCHANGED <<lgPage, lgLog, lgPoll>>

LgWake(r) ==
  /\ lgReq[r].pc = "sleeping" /\ lgCmd' = 0
  /\ lgReq' = [lgReq EXCEPT ![r].pc = "start"]
  /\ UNCHANGED <<lgRun, lgPage, lgLog, lgPoll>>

----------------------------------------------------------------------------
(* The child: the port belongs to the first that takes it, and the others run *)
(* without their server; it ends when told, or by itself.                     *)
LgServe(n) ==
  /\ lgRun[n].st = "booting"
  /\ lgRun' = [lgRun EXCEPT ![n].st =
       IF \E m \in LgRuns : lgRun[m].st = "serving" THEN "deaf" ELSE "serving"]
  /\ UNCHANGED <<lgCmd, lgReq, lgPage, lgLog, lgPoll>>

LgEnd(n) ==
  /\ lgRun[n].st \in {"booting", "serving", "deaf"}
  /\ lgRun' = [lgRun EXCEPT ![n].st = "ended"]
  /\ UNCHANGED <<lgCmd, lgReq, lgPage, lgLog, lgPoll>>

(* cmd.Wait, then cmd is cleared if it is still this one, then the page is    *)
(* told.                                                                      *)
LgWaited(n) ==
  /\ lgRun[n].st = "ended" /\ lgRun' = [lgRun EXCEPT ![n].st = "gone"]
  /\ UNCHANGED <<lgCmd, lgReq, lgPage, lgLog, lgPoll>>

LgCleared(n) ==
  /\ lgRun[n].st = "gone" /\ lgRun[n].wait = "waiting"
  /\ lgRun' = [lgRun EXCEPT ![n].wait = "cleared"]
  /\ lgCmd' = IF lgCmd = n THEN 0 ELSE lgCmd
  /\ UNCHANGED <<lgReq, lgPage, lgLog, lgPoll>>

LgTellStopped(n) ==
  /\ lgRun[n].wait = "cleared" /\ Broadcast("stopped")
  /\ lgRun' = [lgRun EXCEPT ![n].wait = "done"]
  /\ UNCHANGED <<lgCmd, lgReq, lgLog, lgPoll>>

(* The probe looks whether the child is still the one, then asks the port,    *)
(* where any gateway may answer; it gives up after 30 tries.                  *)
LgProbe(n) ==
  /\ lgRun[n].probe = "waiting"
  /\ lgRun' = [lgRun EXCEPT ![n].probe = IF lgCmd = n THEN "asking" ELSE "done"]
  /\ UNCHANGED <<lgCmd, lgReq, lgPage, lgLog, lgPoll>>

LgHealth(n) ==
  /\ lgRun[n].probe = "asking"
  /\ \/ /\ \E m \in LgRuns : lgRun[m].st = "serving"
        /\ Broadcast("running") /\ lgRun' = [lgRun EXCEPT ![n].probe = "done"]
     \/ /\ \E next \in {"waiting", "done"} : lgRun' = [lgRun EXCEPT ![n].probe = next]
        /\ UNCHANGED lgPage
  /\ UNCHANGED <<lgCmd, lgReq, lgLog, lgPoll>>

----------------------------------------------------------------------------
(* handleGatewayEvents: subscribe, then the status of now, then the events. *)
LgSubscribe ==
  /\ lgPage.pc = "none" /\ lgPage' = [lgPage EXCEPT !.pc = "subscribed"]
  /\ UNCHANGED <<lgCmd, lgRun, lgReq, lgLog, lgPoll>>

LgShowStatus ==
  /\ lgPage.pc = "subscribed"
  /\ lgPage' = [lgPage EXCEPT !.pc = "open",
                  !.shown = IF LgAlive(lgCmd) THEN "running" ELSE "stopped"]
  /\ UNCHANGED <<lgCmd, lgRun, lgReq, lgLog, lgPoll>>

LgShowEvent ==
  /\ lgPage.pc = "open" /\ lgPage.queue # <<>>
  /\ lgPage' = [lgPage EXCEPT !.shown = Head(lgPage.queue), !.queue = Tail(@)]
  /\ UNCHANGED <<lgCmd, lgRun, lgReq, lgLog, lgPoll>>

(* The page goes: Unsubscribe. *)
LgLeave ==
  /\ lgPage.pc = "open" /\ lgPage' = [pc |-> "none", queue |-> <<>>, shown |-> "none"]
  /\ UNCHANGED <<lgCmd, lgRun, lgReq, lgLog, lgPoll>>

----------------------------------------------------------------------------
(* scanPipe, LogBuffer.Append: a line of a child; the lines carry the numbers *)
(* of their order, and a full buffer loses its oldest.                        *)
LgLine(n) ==
  /\ LgAlive(n) /\ lgPoll.pc # "off" /\ lgLog.ever < LgMaxLines
  /\ LET line == lgLog.ever + 1 IN
     lgLog' = [lgLog EXCEPT !.ever = line, !.total = @ + 1,
                 !.lines = IF Len(@) < LgCapacity THEN Append(@, line)
                           ELSE [@ EXCEPT ![(lgLog.total % LgCapacity) + 1] = line]]
  /\ UNCHANGED <<lgCmd, lgRun, lgReq, lgPage, lgPoll>>

(* Plausible defect: a buffer that wrapped is read from its first slot. *)
LinesSince_FromFirst(offset) ==
  LET new == lgLog.total - offset
      count == IF new > Len(lgLog.lines) THEN Len(lgLog.lines) ELSE new
  IN IF offset >= lgLog.total THEN <<>>
     ELSE SubSeq(lgLog.lines, Len(lgLog.lines) - count + 1, Len(lgLog.lines))

(* LogBuffer.LinesSince *)
LinesSince(offset) ==
  LET new   == lgLog.total - offset
      count == IF new > Len(lgLog.lines) THEN Len(lgLog.lines) ELSE new
      start == (lgLog.total - count) % LgCapacity
  IN IF offset >= lgLog.total THEN <<>>
     ELSE IF lgLog.total <= LgCapacity
     THEN SubSeq(lgLog.lines, Len(lgLog.lines) - count + 1, Len(lgLog.lines))
     ELSE [i \in 1..count |-> lgLog.lines[((start + i - 1) % LgCapacity) + 1]]

(* appendGatewayLogs: the number of the run is read to choose the offset... *)
LgPollRun ==
  /\ lgPoll.pc = "idle" /\ lgLog.run # 0
  /\ lgPoll' = [lgPoll EXCEPT !.pc = "offset", !.offset = IF lgPoll.run = lgLog.run THEN @ ELSE 0]
  /\ UNCHANGED <<lgCmd, lgRun, lgReq, lgPage, lgLog>>

(* ...and again with the lines, which the page adds to those it shows. *)
LgPollLines ==
  LET lines == LinesSince(lgPoll.offset) both == <<lgPoll.last>> \o lines IN
  /\ lgPoll.pc = "offset"
  /\ lgPoll' = [pc |-> "idle", offset |-> lgLog.total, run |-> lgLog.run, last |-> both[Len(both)],
                ordered |-> lgPoll.ordered /\ \A i \in 1..Len(lines) : both[i] < both[i + 1]]
  /\ UNCHANGED <<lgCmd, lgRun, lgReq, lgPage, lgLog>>

(* handleGatewayClearLogs *)
LgClearLogs ==
  /\ lgLog.total > 0 /\ LogReset
  /\ UNCHANGED <<lgCmd, lgRun, lgReq, lgPage, lgPoll>>

LgNext ==
  \/ \E r \in LgRequests :
       \/ LgStart(r) \/ LgStop(r) \/ LgRestart(r) \/ LgWake(r)
  \/ \E n \in LgRuns :
       \/ LgServe(n) \/ LgEnd(n) \/ LgWaited(n) \/ LgCleared(n) \/ LgTellStopped(n)
       \/ LgProbe(n) \/ LgHealth(n) \/ LgLine(n)
  \/ LgSubscribe \/ LgShowStatus \/ LgShowEvent \/ LgLeave
  \/ LgPollRun \/ LgPollLines \/ LgClearLogs

LgSpec == LgInit /\ [][LgNext]_lgVars

----------------------------------------------------------------------------
(* The state is well typed. *)
LgTypeOK ==
  /\ lgCmd \in 0..LgMaxRuns
  /\ lgRun \in [LgRuns -> [st : {"none", "booting", "serving", "deaf", "ended", "gone"},
                           term : BOOLEAN, wait : {"none", "waiting", "cleared", "done"},
                           probe : {"none", "waiting", "asking", "done"}, crossed : BOOLEAN]]
  /\ lgReq \in [LgRequests -> [pc : LgOps \cup {"sleeping", "done"},
                   answer : {"none", "ok", "failed", "already_running", "not_running", "not_ready"}]]
  /\ Len(lgPage.queue) <= LgBuffer
  /\ Len(lgLog.lines) <= LgCapacity /\ Len(lgLog.lines) <= lgLog.total

(* A child that lives and is no longer the launcher's has been told to stop,  *)
(* except one that was started while a restart slept: that restart forgets it *)
(* when it wakes.                                                             *)
OrphansAreStopping ==
  \A n \in LgRuns : LgAlive(n) /\ n # lgCmd => lgRun[n].term \/ lgRun[n].crossed

(* Whatever is lost to a full buffer, cleared, or restarted between the two   *)
(* reads of a poll, the page never shows a line twice or out of order.        *)
LinesAreOrdered == lgPoll.ordered

(* Orphans were told to stop, and the log page shows lines in order.          *)
LgInv == LgTypeOK /\ OrphansAreStopping /\ LinesAreOrdered

(* handleGatewayRestart "stops the gateway (if running) and starts a new      *)
(* instance": no two gateways live that were not told to stop.  Refuted by a  *)
(* start while a restart sleeps, which the restart forgets.                   *)
OneGateway ==
  \A m, n \in LgRuns : LgAlive(m) /\ LgAlive(n) /\ ~lgRun[m].term /\ ~lgRun[n].term => m = n

(* With nothing left to tell, the page shows whether the gateway runs.        *)
(* Refuted: the "running" of a probe that another gateway answered, or the    *)
(* late "stopped" of the child before, is the last event.                     *)
PageIsRight ==
  lgPage.pc = "open" /\ lgPage.queue = <<>> /\ (\A r \in LgRequests : lgReq[r].pc = "done")
    /\ (\A n \in LgRuns : lgRun[n].wait \in {"none", "done"} \/ lgRun[n].st \in {"serving", "deaf"})
    /\ (\A n \in LgRuns : lgRun[n].probe \in {"none", "done"})
  => (lgPage.shown = "stopped" <=> ~LgAlive(lgCmd))
=============================================================================
