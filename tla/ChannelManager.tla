--------------------------- MODULE ChannelManager ---------------------------
(* The outbound half of channels.Manager for one chat of one channel: the two *)
(* dispatchers that empty the bus, the worker of each lane with its rate      *)
(* limiter and retries, messages the agent loop sends through a worker        *)
(* directly, and StopAll.  preSend appears by its result: whether the message *)
(* was edited into a placeholder; what it does is in ChatIndicators.          *)
(*                                                                            *)
(* The texts of messages are abstracted: a message is short or is split in    *)
(* two chunks.                                                                *)
EXTENDS Naturals, Sequences, FiniteSets, SequencesExt

CONSTANTS TextMsgs,    \* messages published on the outbound channel of the bus
          LongMsgs,    \* those of them longer than MaxMessageLength
          MediaMsgs,   \* messages published on the media channel
          OtherMsgs,   \* messages for an internal or an unknown channel
          DirectMsgs,  \* messages passed to Manager.SendMessage
          NoChMsg,     \* no message
          ChQueueSize, \* defaultChannelQueueSize
          MaxRetries   \* maxRetries

ChMsgs == TextMsgs \cup MediaMsgs \cup DirectMsgs

(* A message of an unknown channel is logged once, whatever its length.       *)
ASSUME ChAssumption ==
  /\ TextMsgs \cap MediaMsgs = {} /\ DirectMsgs \cap (TextMsgs \cup MediaMsgs) = {}
  /\ IsFiniteSet(TextMsgs) /\ IsFiniteSet(MediaMsgs) /\ NoChMsg \notin ChMsgs
  /\ OtherMsgs \cap LongMsgs = {}
  /\ ChQueueSize \in Nat /\ MaxRetries \in Nat

Lanes == {"text", "media"}
Senders == Lanes \cup {"direct"}

VARIABLES chBus,      \* [Lanes -> Seq]: what the bus holds
          chDisp,     \* [Lanes -> [pc, msg]]: dispatchLoop
          chQueue,    \* [Lanes -> Seq]: queue and mediaQueue of the worker
          chClosed,   \* lanes whose queue is closed
          chSend,     \* [Senders -> [pc, msg, chunk, try]]: worker or SendMessage
          chStop,     \* progress of StopAll, which holds m.mu throughout
          chPanic,    \* a send on a closed queue ended the process
          chTaken,    \* Seq: messages in the order the dispatchers took them
          chOut,      \* Seq of <<message, chunk>>: what the service accepted
          chFailed    \* chunks logged as failed, messages logged or skipped

chVars == <<chBus, chDisp, chQueue, chClosed, chSend, chStop, chPanic, chTaken, chOut,
            chFailed>>

NumChunks(m) == IF m \in LongMsgs THEN 2 ELSE 1
Cancelled == chStop # "running"
Locked == chStop \notin {"running", "stopped"}
IdleSender(s) == [pc |-> IF s = "direct" THEN "idle" ELSE "select",
                  msg |-> NoChMsg, chunk |-> 0, try |-> 0]
Start(m, k) == [pc |-> "limit", msg |-> m, chunk |-> k, try |-> 0]

CmInit ==
  /\ chBus = [l \in Lanes |-> SetToSeq(IF l = "text" THEN TextMsgs ELSE MediaMsgs)]
  /\ chDisp = [l \in Lanes |-> [pc |-> "receive", msg |-> NoChMsg]]
  /\ chQueue = [l \in Lanes |-> <<>>]
  /\ chClosed = {}
  /\ chSend = [s \in Senders |-> IdleSender(s)]
  /\ chStop = "running" /\ chPanic = FALSE
  /\ chTaken = <<>> /\ chOut = <<>> /\ chFailed = {}

----------------------------------------------------------------------------
(* dispatchLoop *)

CmReceive(l) ==
  /\ chDisp[l].pc = "receive" /\ chBus[l] # <<>>
  /\ chDisp' = [chDisp EXCEPT ![l] = [pc |-> "lookup", msg |-> Head(chBus[l])]]
  /\ chBus' = [chBus EXCEPT ![l] = Tail(@)]
  /\ chTaken' = Append(chTaken, Head(chBus[l]))
  /\ UNCHANGED <<chQueue, chClosed, chSend, chStop, chPanic, chOut, chFailed>>

(* subscribe returned false, or the select of enqueue took ctx.Done. *)
CmDispatchStops(l) ==
  /\ Cancelled /\ chDisp[l].pc \in {"receive", "enqueue"}
  /\ chDisp' = [chDisp EXCEPT ![l].pc = "exited"]
  /\ UNCHANGED <<chBus, chQueue, chClosed, chSend, chStop, chPanic,
                 chTaken, chOut, chFailed>>

(* RLock waits while StopAll holds m.mu; other channels' messages are skipped. *)
CmLookup(l) ==
  /\ chDisp[l].pc = "lookup" /\ ~Locked
  /\ IF chDisp[l].msg \in OtherMsgs
       THEN /\ chDisp' = [chDisp EXCEPT ![l] = [pc |-> "receive", msg |-> NoChMsg]]
            /\ chFailed' = chFailed \cup {<<chDisp[l].msg, 1>>}
       ELSE /\ chDisp' = [chDisp EXCEPT ![l].pc = "enqueue"]
            /\ UNCHANGED chFailed
  /\ UNCHANGED <<chBus, chQueue, chClosed, chSend, chStop, chPanic,
                 chTaken, chOut>>

(* A plausible defect: a full queue drops the message instead of blocking. *)
CmEnqueue_NonBlocking(l) ==
  /\ chDisp[l].pc = "enqueue" /\ l \notin chClosed
  /\ chQueue' = IF Len(chQueue[l]) < ChQueueSize
                  THEN [chQueue EXCEPT ![l] = Append(@, chDisp[l].msg)] ELSE chQueue
  /\ chDisp' = [chDisp EXCEPT ![l] = [pc |-> "receive", msg |-> NoChMsg]]
  /\ UNCHANGED <<chBus, chClosed, chSend, chStop, chPanic,
                 chTaken, chOut, chFailed>>

CmEnqueue(l) ==
  /\ chDisp[l].pc = "enqueue" /\ l \notin chClosed /\ Len(chQueue[l]) < ChQueueSize
  /\ chQueue' = [chQueue EXCEPT ![l] = Append(@, chDisp[l].msg)]
  /\ chDisp' = [chDisp EXCEPT ![l] = [pc |-> "receive", msg |-> NoChMsg]]
  /\ UNCHANGED <<chBus, chClosed, chSend, chStop, chPanic,
                 chTaken, chOut, chFailed>>

(* Both cases of the select are ready when the queue is closed: Go may choose *)
(* the send, which panics.                                                    *)
CmSendOnClosed(l) ==
  /\ chDisp[l].pc = "enqueue" /\ l \in chClosed
  /\ chPanic' = TRUE
  /\ UNCHANGED <<chBus, chDisp, chQueue, chClosed, chSend, chStop,
                 chTaken, chOut, chFailed>>

----------------------------------------------------------------------------
(* runWorker, runMediaWorker, SendMessage and the sending they share *)

CmTake(l) ==
  /\ chSend[l].pc = "select" /\ chQueue[l] # <<>>
  /\ chSend' = [chSend EXCEPT ![l] = Start(Head(chQueue[l]), 1)]
  /\ chQueue' = [chQueue EXCEPT ![l] = Tail(@)]
  /\ UNCHANGED <<chBus, chDisp, chClosed, chStop, chPanic,
                 chTaken, chOut, chFailed>>

(* A plausible defect: the worker does not watch its context or its queue. *)
CmWorkerExits_Never(l) == FALSE /\ UNCHANGED chVars

CmWorkerExits(l) ==
  /\ chSend[l].pc = "select"
  /\ Cancelled \/ (l \in chClosed /\ chQueue[l] = <<>>)
  /\ chSend' = [chSend EXCEPT ![l].pc = "exited"]
  /\ UNCHANGED <<chBus, chDisp, chQueue, chClosed, chStop, chPanic,
                 chTaken, chOut, chFailed>>

CmSendMessage(m) ==
  /\ chSend["direct"].pc = "idle" /\ ~Locked /\ m \notin Range(chTaken)
  /\ chSend' = [chSend EXCEPT !["direct"] = Start(m, 1)]
  /\ chTaken' = Append(chTaken, m)
  /\ UNCHANGED <<chBus, chDisp, chQueue, chClosed, chStop, chPanic,
                 chOut, chFailed>>

(* sendWithRetry returned: the next chunk of the message, or the next message. *)
NextChunk(s) ==
  LET w == chSend[s]
  IN  chSend' = [chSend EXCEPT ![s] =
        IF w.chunk < NumChunks(w.msg)
          THEN Start(w.msg, w.chunk + 1)
          ELSE IdleSender(s)]

(* The contexts of the workers are the manager's; SendMessage has the turn's. *)
Interrupted(s) == Cancelled /\ s # "direct"

CmLimit(s) ==
  /\ chSend[s].pc = "limit"
  /\ IF Interrupted(s)
       THEN NextChunk(s)
       ELSE chSend' = [chSend EXCEPT ![s].pc = IF s = "media" THEN "send" ELSE "presend"]
  /\ UNCHANGED <<chBus, chDisp, chQueue, chClosed, chStop, chPanic,
                 chTaken, chOut, chFailed>>

(* preSend: the message became the text of a placeholder, or is to be sent.   *)
CmPreSend(s, edited) ==
  /\ chSend[s].pc = "presend"
  /\ IF edited THEN /\ chOut' = Append(chOut, <<chSend[s].msg, chSend[s].chunk>>)
                    /\ NextChunk(s)
               ELSE /\ chSend' = [chSend EXCEPT ![s].pc = "send"]
                    /\ UNCHANGED chOut
  /\ UNCHANGED <<chBus, chDisp, chQueue, chClosed, chStop, chPanic, chTaken, chFailed>>

(* One attempt and what sendWithRetry makes of its error. *)
CmAttempt(s, outcome) ==
  LET w == chSend[s]
      result == IF chStop = "stopped" THEN "permanent" ELSE outcome
      givesUp == result = "permanent" \/ w.try = MaxRetries
  IN  /\ w.pc = "send"
      /\ CASE result = "ok" -> /\ chOut' = Append(chOut, <<w.msg, w.chunk>>)
                               /\ NextChunk(s) /\ UNCHANGED chFailed
           [] result # "ok" /\ givesUp -> /\ chFailed' = chFailed \cup {<<w.msg, w.chunk>>}
                                          /\ NextChunk(s) /\ UNCHANGED chOut
           [] OTHER -> /\ chSend' = [chSend EXCEPT ![s].pc = "backoff"]
                       /\ UNCHANGED <<chOut, chFailed>>
      /\ UNCHANGED <<chBus, chDisp, chQueue, chClosed, chStop, chPanic, chTaken>>

(* The delay before the next attempt ends, or the context does. *)
CmBackoff(s) ==
  /\ chSend[s].pc = "backoff"
  /\ \/ chSend' = [chSend EXCEPT ![s].pc = "send", ![s].try = @ + 1]
     \/ Interrupted(s) /\ NextChunk(s)
  /\ UNCHANGED <<chBus, chDisp, chQueue, chClosed, chStop, chPanic,
                 chTaken, chOut, chFailed>>

----------------------------------------------------------------------------
(* StopAll *)

(* m.mu is taken and the context of dispatchers, workers and janitor ends. *)
CmStopAll ==
  /\ chStop = "running" /\ chStop' = "cancelled"
  /\ UNCHANGED <<chBus, chDisp, chQueue, chClosed, chSend, chPanic,
                 chTaken, chOut, chFailed>>

(* Each lane's queue is closed and its worker awaited, text before media. *)
CmCloseQueue(l, from, to) ==
  /\ chStop = from /\ chStop' = to
  /\ l = "media" => chSend["text"].pc = "exited"
  /\ chClosed' = chClosed \cup {l}
  /\ UNCHANGED <<chBus, chDisp, chQueue, chSend, chPanic,
                 chTaken, chOut, chFailed>>

(* The channel is stopped and m.mu released. *)
CmStopped ==
  /\ chStop = "media" /\ chSend["media"].pc = "exited"
  /\ chStop' = "stopped"
  /\ UNCHANGED <<chBus, chDisp, chQueue, chClosed, chSend, chPanic,
                 chTaken, chOut, chFailed>>

----------------------------------------------------------------------------
CmDispatch(l) == CmReceive(l) \/ CmDispatchStops(l) \/ CmLookup(l) \/ CmEnqueue(l)
CmWork(s) ==
  \/ s \in Lanes /\ (CmTake(s) \/ CmWorkerExits(s))
  \/ CmLimit(s) \/ CmBackoff(s)
  \/ \E edited \in BOOLEAN : CmPreSend(s, edited)
  \/ \E r \in {"ok", "permanent", "temporary"} : CmAttempt(s, r)
CmStopping ==
  \/ CmCloseQueue("text", "cancelled", "text")
  \/ CmCloseQueue("media", "text", "media")
  \/ CmStopped

CmNext ==
  /\ ~chPanic
  /\ \/ \E l \in Lanes : CmDispatch(l) \/ CmSendOnClosed(l)
     \/ \E s \in Senders : CmWork(s)
     \/ \E m \in DirectMsgs : CmSendMessage(m)
     \/ CmStopAll \/ CmStopping

(* Goroutines run, calls to the service return. *)
CmFairness ==
  /\ \A s \in Senders : WF_chVars(~chPanic /\ CmWork(s))
  /\ WF_chVars(~chPanic /\ CmStopping)

CmSpec == CmInit /\ [][CmNext]_chVars /\ CmFairness

----------------------------------------------------------------------------
(* The state is well typed. *)
CmTypeOK ==
  /\ chBus \in [Lanes -> Seq(ChMsgs)] /\ chQueue \in [Lanes -> Seq(ChMsgs)]
  /\ \A l \in Lanes : Len(chQueue[l]) <= ChQueueSize
  /\ chDisp \in [Lanes -> [pc : {"receive", "lookup", "enqueue", "exited"},
                           msg : ChMsgs \cup {NoChMsg}]]
  /\ chClosed \subseteq Lanes /\ chPanic \in BOOLEAN
  /\ chSend \in [Senders -> [pc : {"idle", "select", "limit", "presend", "send",
                                   "backoff", "exited"},
                             msg : ChMsgs \cup {NoChMsg}, chunk : 0..2, try : 0..MaxRetries]]
  /\ chStop \in {"running", "cancelled", "text", "media", "stopped"}
  /\ chTaken \in Seq(ChMsgs)
  /\ chOut \in Seq(ChMsgs \X (1..2)) /\ chFailed \subseteq ChMsgs \X (1..2)

(* Where chunk k of message m is, if it is not yet sent or given up. *)
Held(m, k) ==
  \/ \E l \in Lanes : chDisp[l].msg = m \/ m \in Range(chQueue[l])
  \/ \E s \in Senders : chSend[s].msg = m /\ chSend[s].chunk <= k

(* Until the manager is stopped, every chunk of every message that was taken  *)
(* from the bus or handed to SendMessage is on its way, or sent once, or      *)
(* logged as failed, and never two of these: dispatchLoop, runWorker and      *)
(* sendWithRetry between them drop and repeat nothing, whatever Send returns. *)
EachChunkOnce ==
  chStop = "running" => \A m \in Range(chTaken) : \A k \in 1..NumChunks(m) :
    Cardinality({i \in DOMAIN chOut : chOut[i] = <<m, k>>})
      + (IF <<m, k>> \in chFailed THEN 1 ELSE 0) + (IF Held(m, k) THEN 1 ELSE 0) = 1

(* Chunks of the queued text messages reach the service in the order in which *)
(* the dispatcher took the messages, retries and stops included.              *)
TextInOrder ==
  \A i, j \in DOMAIN chOut :
    i < j /\ {chOut[i][1], chOut[j][1]} \subseteq TextMsgs =>
      LET a == chOut[i] b == chOut[j]
      IN  \/ a[1] = b[1] /\ a[2] < b[2]
          \/ \E x, y \in DOMAIN chTaken : x < y /\ chTaken[x] = a[1] /\ chTaken[y] = b[1]

(* Each chunk is held, sent or given up once, and text keeps its order.       *)
CmInv == CmTypeOK /\ EachChunkOnce /\ TextInOrder

(* StopAll, which waits for the workers with m.mu held, comes to an end.      *)
StopAllReturns == chStop # "running" ~> (chStop = "stopped" \/ chPanic)

(* The comment in StopAll: "Close all worker queues and wait for them to      *)
(* drain".  Refuted: a worker may leave on the cancelled context instead.     *)
QueuesDrain == chStop = "stopped" => \A l \in Lanes : chQueue[l] = <<>>

(* No dispatcher sends on a queue StopAll has closed.  Refuted: one that took *)
(* its message before the stop looks its worker up after it.                  *)
NoSendOnClosedQueue == ~chPanic
=============================================================================
