----------------------------- MODULE WecomStream -----------------------------
(* The WeCom AI bot: the service asks with a callback, polls the stream of    *)
(* the question until it is finished, and after the deadline of the stream    *)
(* takes the answer at a response URL.  One chat, whose questions queue up;   *)
(* Send gives an answer to the head of the queue.                             *)
(*                                                                            *)
(* Polls and sends overlap: a poll looks its task up, looks at the answer and *)
(* the deadline, and acts; a send reads the head under the lock and then      *)
(* posts or offers the answer.  Deadlines and ages are abstracted: a task may *)
(* be past them at any time.                                                  *)
EXTENDS Sequences, SequencesExt, FiniteSets

CONSTANTS Streams,    \* questions of the chat; each has one task
          WsAnswers,  \* what the agent sends to the chat
          Pollers,    \* callbacks of the service under way
          WithURL,    \* questions whose callback carried a response_url
          NoStream, NoAnswer

ASSUME WsAssumption == WithURL \subseteq Streams /\ NoStream \notin Streams
                       /\ NoAnswer \notin WsAnswers

VARIABLES wsAsked,    \* tasks made
          wsMap,      \* keys of streamTasks
          wsQueue,    \* chatTasks[chat]
          wsClosed,   \* tasks with StreamClosed
          wsFinished, \* tasks with Finished
          wsCanceled, \* tasks whose ctx is done
          wsChan,     \* [Streams -> answer]: answerCh, of capacity one
          wsPoll,     \* [Pollers -> [at, task]]
          wsSend,     \* [WsAnswers -> [at, task]]
          wsShown     \* set of <<answer, task, way>>: what the user has seen

wsVars == <<wsAsked, wsMap, wsQueue, wsClosed, wsFinished, wsCanceled, wsChan, wsPoll,
            wsSend, wsShown>>
wsTasks == <<wsAsked, wsMap, wsQueue, wsClosed, wsFinished, wsCanceled>>

WsInit ==
  /\ wsAsked = {} /\ wsMap = {} /\ wsQueue = <<>> /\ wsClosed = {} /\ wsFinished = {}
  /\ wsCanceled = {} /\ wsChan = [s \in Streams |-> NoAnswer] /\ wsShown = {}
  /\ wsPoll = [p \in Pollers |-> [at |-> "idle", task |-> NoStream]]
  /\ wsSend = [a \in WsAnswers |-> [at |-> "new", task |-> NoStream]]

Without(q, s) ==
  IF s \in Range(q) THEN RemoveAt(q, CHOOSE i \in DOMAIN q : q[i] = s) ELSE q

(* Plausible defect: the task leaves the map of streams only. *)
WsRemoveTask_MapOnly(s) ==
  /\ wsCanceled' = wsCanceled \cup {s} /\ wsFinished' = wsFinished
  /\ wsMap' = wsMap \ {s} /\ wsQueue' = wsQueue
  /\ UNCHANGED <<wsAsked, wsClosed>>

(* removeTask: cancel, then under the lock out of both structures. *)
WsRemoveTask(s) ==
  /\ wsCanceled' = wsCanceled \cup {s} /\ wsFinished' = wsFinished \cup {s}
  /\ wsMap' = wsMap \ {s} /\ wsQueue' = Without(wsQueue, s)
  /\ UNCHANGED <<wsAsked, wsClosed>>

(* handleTextMessage makes the task; the goroutine that gives the message to  *)
(* the agent and the first response, a poll as any other, follow.             *)
WsAsk(s) ==
  /\ s \notin wsAsked /\ wsAsked' = wsAsked \cup {s}
  /\ wsMap' = wsMap \cup {s} /\ wsQueue' = Append(wsQueue, s)
  /\ UNCHANGED <<wsClosed, wsFinished, wsCanceled, wsChan, wsPoll, wsSend, wsShown>>

PollAt(p, at, s) == wsPoll' = [wsPoll EXCEPT ![p] = [at |-> at, task |-> s]]

(* handleStreamMessage: a poll of a task that is not found is answered at     *)
(* once and changes nothing.                                                  *)
WsLookup(p, s) ==
  /\ wsPoll[p].at = "idle" /\ s \in wsMap /\ PollAt(p, "looking", s)
  /\ UNCHANGED <<wsTasks, wsChan, wsSend, wsShown>>

(* getStreamResponse: the answer if there is one, else pending or, past the   *)
(* deadline, the notice that closes the stream.                               *)
WsAnswered(p) ==
  LET s == wsPoll[p].task IN
  /\ wsPoll[p].at = "looking" /\ wsChan[s] # NoAnswer
  /\ wsShown' = wsShown \cup {<<wsChan[s], s, "stream">>}
  /\ wsChan' = [wsChan EXCEPT ![s] = NoAnswer] /\ PollAt(p, "remove", s)
  /\ UNCHANGED <<wsTasks, wsSend>>

WsPending(p, late) ==
  LET s == wsPoll[p].task IN
  /\ wsPoll[p].at = "looking" /\ wsChan[s] = NoAnswer
  /\ IF late THEN PollAt(p, "close", s) ELSE PollAt(p, "idle", NoStream)
  /\ UNCHANGED <<wsTasks, wsChan, wsSend, wsShown>>

(* The poll takes the lock and ends the task or only its stream. *)
WsPolled(p) ==
  LET s == wsPoll[p].task IN
  /\ \/ wsPoll[p].at = "remove" /\ WsRemoveTask(s)
     \/ /\ wsPoll[p].at = "close" /\ wsClosed' = wsClosed \cup {s} /\ wsMap' = wsMap \ {s}
        /\ UNCHANGED <<wsAsked, wsQueue, wsFinished, wsCanceled>>
  /\ PollAt(p, "idle", NoStream)
  /\ UNCHANGED <<wsChan, wsSend, wsShown>>

SendAt(a, at, s) == wsSend' = [wsSend EXCEPT ![a] = [at |-> at, task |-> s]]

(* The queue without the finished tasks at its head: one that is finished     *)
(* further back stays, for removeTask leaves none there.                      *)
FromUnfinished(q) ==
  LET live == {i \in DOMAIN q : q[i] \notin wsFinished}
  IN  IF live = {} THEN <<>> ELSE SubSeq(q, Min(live), Len(q))

(* Send under the lock: the earliest unfinished task of the chat.  Without    *)
(* one the answer is dropped and Send succeeds.                               *)
WsSendHead(a) ==
  LET live == FromUnfinished(wsQueue) IN
  /\ wsSend[a].at = "new" /\ wsAsked # {} /\ wsQueue' = live
  /\ IF live = <<>> THEN SendAt(a, "sent", NoStream)
     ELSE SendAt(a, IF Head(live) \in wsClosed THEN "post" ELSE "offer", Head(live))
  /\ UNCHANGED <<wsAsked, wsMap, wsClosed, wsFinished, wsCanceled, wsChan, wsPoll, wsShown>>

(* sendViaResponseURL and what follows; without a URL the answer is dropped.  *)
WsPost(a, ok) ==
  LET s == wsSend[a].task IN
  /\ wsSend[a].at = "post"
  /\ ok => s \in WithURL
  /\ WsRemoveTask(s)
  /\ wsShown' = IF ok THEN wsShown \cup {<<a, s, "url">>} ELSE wsShown
  /\ SendAt(a, IF s \in WithURL /\ ~ok THEN "failed" ELSE "sent", s)
  /\ UNCHANGED <<wsChan, wsPoll>>

(* The select on answerCh; a task that was removed meanwhile may still take   *)
(* the answer, and a task whose context is done drops it.                     *)
WsOffer(a) ==
  LET s == wsSend[a].task IN
  /\ wsSend[a].at = "offer" /\ SendAt(a, "sent", s)
  /\ \/ wsChan[s] = NoAnswer /\ wsChan' = [wsChan EXCEPT ![s] = a]
     \/ s \in wsCanceled /\ UNCHANGED wsChan
  /\ UNCHANGED <<wsTasks, wsPoll, wsShown>>

(* cleanupOldTasks finds task s over its hour, over the grace of a closed     *)
(* stream, or left in the queue after it was finished.                        *)
WsCleanup(s) ==
  /\ s \in wsMap \cup Range(wsQueue)
  /\ wsMap' = wsMap \ {s} /\ wsCanceled' = wsCanceled \cup {s}
  /\ wsQueue' = Without(wsQueue, s)
  /\ UNCHANGED <<wsAsked, wsClosed, wsFinished, wsChan, wsPoll, wsSend, wsShown>>

WsNext ==
  \/ \E s \in Streams : WsAsk(s) \/ WsCleanup(s) \/ \E p \in Pollers : WsLookup(p, s)
  \/ \E p \in Pollers : WsAnswered(p) \/ WsPolled(p) \/ \E late \in BOOLEAN : WsPending(p, late)
  \/ \E a \in WsAnswers : WsSendHead(a) \/ WsOffer(a) \/ \E ok \in BOOLEAN : WsPost(a, ok)

(* A send goes on whenever it can, and the cleanup comes round. *)
WsFairness ==
  /\ \A a \in WsAnswers : WF_wsVars(WsOffer(a)) /\ WF_wsVars(\E ok \in BOOLEAN : WsPost(a, ok))
  /\ \A s \in Streams : WF_wsVars(WsCleanup(s))

WsSpec == WsInit /\ [][WsNext]_wsVars /\ WsFairness

----------------------------------------------------------------------------
(* The state is well typed. *)
WsTypeOK ==
  /\ wsAsked \subseteq Streams /\ wsMap \subseteq wsAsked /\ wsQueue \in Seq(wsAsked)
  /\ wsClosed \subseteq wsAsked /\ wsFinished \subseteq wsAsked /\ wsCanceled \subseteq wsAsked
  /\ wsChan \in [Streams -> WsAnswers \cup {NoAnswer}]
  /\ wsPoll \in [Pollers -> [at : {"idle", "looking", "close", "remove"},
                             task : Streams \cup {NoStream}]]
  /\ wsSend \in [WsAnswers -> [at : {"new", "post", "offer", "sent", "failed"},
                               task : Streams \cup {NoStream}]]
  /\ wsShown \subseteq WsAnswers \X Streams \X {"stream", "url"}

(* The two structures agree, however polls, sends and the cleanup overlap: a  *)
(* task that can be polled is in its chat's queue, once, and a task of the    *)
(* queue can be polled or waits for its answer to be posted; no finished task *)
(* is stranded there ("this should not happen").  No answer is shown twice.   *)
TasksAgree ==
  /\ wsMap \subseteq Range(wsQueue) /\ IsInjective(wsQueue)
  /\ Range(wsQueue) \subseteq wsMap \cup wsClosed /\ Range(wsQueue) \cap wsFinished = {}
  /\ \A x, y \in wsShown : x[1] = y[1] => x = y

(* Well typed, and the two structures agree.                                  *)
WsInv == WsTypeOK /\ TasksAgree

(* Send does not stay blocked on an answer nobody fetches, for the cleanup    *)
(* cancels the task; nor does a task stay.                                    *)
WsEnds == \A a \in WsAnswers : wsSend[a].at \in {"post", "offer"} ~>
                                 wsSend[a].at \in {"sent", "failed"}

(* An answer that was sent is shown.  Refuted: Send reads StreamClosed, the   *)
(* poll then closes the stream, and the answer stays in answerCh; and the     *)
(* second message of a turn finds its task removed by the first.              *)
SentIsShown ==
  (\A p \in Pollers : wsPoll[p].at = "idle") => \A a \in WsAnswers :
    wsSend[a].at = "sent" => \/ \E x \in wsShown : x[1] = a
                             \/ wsSend[a].task \in wsMap /\ wsChan[wsSend[a].task] = a

(* The comment on ResponseURL: "valid 1 hour, use once".  Refuted: two sends  *)
(* may both read the same closed head.                                        *)
URLUsedOnce ==
  \A x, y \in wsShown : x[2] = y[2] /\ x[3] = "url" /\ y[3] = "url" => x = y
=============================================================================
