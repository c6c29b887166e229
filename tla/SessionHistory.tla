--------------------------- MODULE SessionHistory ---------------------------
(***************************************************************************)
(* The history and the summary of one session of pkg/agent, and all who    *)
(* change them: the turns of the agent, each of which adds messages and    *)
(* compresses the history when the provider says it is too long, the       *)
(* summarizer a turn leaves behind, and the clear command.  Every call of  *)
(* the session store is one step: the store locks the session, its callers *)
(* lock nothing.                                                           *)
(***************************************************************************)
EXTENDS Conversation

CONSTANTS
    Turns,       \* runAgentLoop calls on this session
    MaxSteps,    \* AgentInstance.MaxIterations
    MaxRetries,  \* maxRetries of a provider call
    MaxCalls,    \* bound: tool calls in one response
    Threshold,   \* AgentInstance.SummarizeMessageThreshold
    MaxPart,     \* maxSummarizationMessages
    Overlapping, \* turns may overlap: debounced messages or cron jobs
    MaxClears,   \* bound
    MaxRestarts  \* bound

ASSUME SessionAssumption ==
    /\ MaxSteps \in Nat \ {0} /\ MaxRetries \in Nat /\ MaxCalls \in Nat \ {0}
    /\ Threshold \in Nat /\ MaxPart \in Nat /\ MaxClears \in Nat /\ MaxRestarts \in Nat
    /\ Overlapping \in BOOLEAN

VARIABLES
    history,      \* the messages of the session
    summary,      \* the messages the summary tells of
    turn,         \* each turn: [at, step, due, retry]
    view,         \* messages: what each turn sends to the provider next
    snap,         \* forceCompression: the history each turn has read
    summarizing,  \* the key in al.summarizing
    summarizer,   \* the goroutine each turn left behind: [at, batch, text]
    clears, clearing, restarts,
    said,         \* history variable: all messages ever added
    gone,         \* history variable: messages that compression or clear removed,
                  \* or a truncation whose summarizer had not seen them
    dropped,      \* history variable: messages a summary told of that gave way to
                  \* the summary of a long batch
    overlapped    \* history variable: two turns have been under way at once

store == <<history, summary>>
turnVars == <<turn, view, snap>>
summaryVars == <<summarizing, summarizer>>
clearVars == <<clears, clearing, restarts>>
ssGhosts == <<said, gone, dropped, overlapped>>
ssVars == <<store, turnVars, summaryVars, clearVars, ssGhosts>>

SsIdle == [at |-> "idle", batch |-> <<>>, text |-> {}]

SsInit ==
    /\ history = <<>> /\ summary = {}
    /\ turn = [t \in Turns |-> [at |-> "start", step |-> 0, due |-> <<>>, retry |-> 0]]
    /\ view = [t \in Turns |-> <<>>] /\ snap = [t \in Turns |-> <<>>]
    /\ summarizing = FALSE /\ summarizer = [t \in Turns |-> SsIdle]
    /\ clears = 0 /\ clearing = FALSE /\ restarts = 0
    /\ said = {} /\ gone = {} /\ dropped = {} /\ overlapped = FALSE

User(t) == [role |-> "user", turn |-> t, step |-> 0, n |-> 0]
Reply(t) == [role |-> "reply", turn |-> t, step |-> 0, n |-> 0]
ToolCalls(t, step, n) == [role |-> "call", turn |-> t, step |-> step, n |-> n]
ToolResult(t, step, n) == [role |-> "tool", turn |-> t, step |-> step, n |-> n]

UnderWay(t) == turn[t].at \notin {"start", "done"}
SsGoto(t, l) == turn' = [turn EXCEPT ![t].at = l]

\* AddMessage, AddFullMessage
SsAdd(m) ==
    /\ history' = Append(history, m)
    /\ said' = said \cup {m}
    /\ UNCHANGED <<summary, gone, dropped, overlapped>>

-----------------------------------------------------------------------------
(* A turn: runAgentLoop and runLLMIteration. *)

\* Without debounced messages and cron jobs Run takes one message at a time,
\* and a command is one.
BuildMessages(t) ==
    /\ turn[t].at = "start"
    /\ ~Overlapping => ~clearing /\ \A u \in Turns : ~UnderWay(u)
    /\ view' = [view EXCEPT ![t] = Append(Sanitize(history), User(t))]
    /\ overlapped' = (overlapped \/ \E u \in Turns : UnderWay(u))
    /\ SsGoto(t, "saveUser")
    /\ UNCHANGED <<store, snap, summaryVars, clearVars, said, gone, dropped>>

SaveUser(t) ==
    /\ turn[t].at = "saveUser"
    /\ SsAdd(User(t))
    /\ turn' = [turn EXCEPT ![t].at = "chat", ![t].step = 1]
    /\ UNCHANGED <<view, snap, summaryVars, clearVars>>

\* A response with tool calls: saved at once, its results one by one after it.
RespondCalls(t) ==
    /\ turn[t].at = "chat"
    /\ \E n \in 1..MaxCalls :
        LET call == ToolCalls(t, turn[t].step, n) IN
        /\ SsAdd(call)
        /\ view' = [view EXCEPT ![t] = Append(@, call)]
        /\ turn' = [turn EXCEPT ![t].at = "tools",
                                ![t].due = [i \in 1..n |-> ToolResult(t, turn[t].step, i)]]
    /\ UNCHANGED <<snap, summaryVars, clearVars>>

\* When the iterations are used up the default response is the answer.
AfterResult(r) ==
    IF Len(r.due) > 1 THEN [r EXCEPT !.due = Tail(@)]
    ELSE IF r.step < MaxSteps
         THEN [at |-> "chat", step |-> r.step + 1, due |-> <<>>, retry |-> 0]
         ELSE [r EXCEPT !.at = "reply", !.due = <<>>]

SaveResult(t) ==
    /\ turn[t].at = "tools"
    /\ SsAdd(Head(turn[t].due))
    /\ view' = [view EXCEPT ![t] = Append(@, Head(turn[t].due))]
    /\ turn' = [turn EXCEPT ![t] = AfterResult(@)]
    /\ UNCHANGED <<snap, summaryVars, clearVars>>

\* A response without tool calls, or the default response.
Answer(t) ==
    /\ turn[t].at \in {"chat", "reply"}
    /\ SsAdd(Reply(t))
    /\ view' = [view EXCEPT ![t] = <<>>]
    /\ SsGoto(t, "maybeSummarize")
    /\ UNCHANGED <<snap, summaryVars, clearVars>>

\* Any other error, or a context error after the last retry: the turn ends without an answer.
ChatFails(t) ==
    /\ turn[t].at = "chat"
    /\ SsGoto(t, "done")
    /\ view' = [view EXCEPT ![t] = <<>>]
    /\ UNCHANGED <<store, snap, summaryVars, clearVars, ssGhosts>>

\* The retries are not counted against a limit.
ContextError_Unlimited(t) ==
    /\ turn[t].at = "chat"
    /\ IF Len(history) <= 4 THEN UNCHANGED snap ELSE snap' = [snap EXCEPT ![t] = history]
    /\ turn' = [turn EXCEPT ![t].at = IF Len(history) <= 4 THEN "rebuild" ELSE "compress",
                            ![t].retry = @ + 1]
    /\ UNCHANGED <<store, view, summaryVars, clearVars, ssGhosts>>

\* The provider says the messages are too long: forceCompression reads the
\* history, writes a shorter one, and the messages are built anew from it.
ContextError(t) ==
    /\ turn[t].at = "chat" /\ turn[t].retry < MaxRetries
    /\ IF Len(history) <= 4 THEN UNCHANGED snap ELSE snap' = [snap EXCEPT ![t] = history]
    /\ turn' = [turn EXCEPT ![t].at = IF Len(history) <= 4 THEN "rebuild" ELSE "compress",
                            ![t].retry = @ + 1]
    /\ UNCHANGED <<store, view, summaryVars, clearVars, ssGhosts>>

SetCompressed(t) ==
    /\ turn[t].at = "compress"
    /\ history' = Compress(snap[t])
    /\ gone' = gone \cup ((ToSet(history) \cup ToSet(snap[t])) \ ToSet(history'))
    /\ snap' = [snap EXCEPT ![t] = <<>>]
    /\ SsGoto(t, "rebuild")
    /\ UNCHANGED <<summary, view, summaryVars, clearVars, said, dropped, overlapped>>

Rebuild(t) ==
    /\ turn[t].at = "rebuild"
    /\ view' = [view EXCEPT ![t] = Sanitize(history)]
    /\ SsGoto(t, "chat")
    /\ UNCHANGED <<store, snap, summaryVars, clearVars, ssGhosts>>

-----------------------------------------------------------------------------
(* The summarizer. *)

\* A turn starts a summarizer although one is at work.
MaybeSummarize_Always(t) ==
    /\ turn[t].at = "maybeSummarize"
    /\ SsGoto(t, "done")
    /\ IF Len(history) > Threshold
       THEN /\ summarizing' = TRUE
            /\ summarizer' = [summarizer EXCEPT ![t].at = "read"]
       ELSE UNCHANGED summaryVars
    /\ UNCHANGED <<store, view, snap, clearVars, ssGhosts>>

MaybeSummarize(t) ==
    /\ turn[t].at = "maybeSummarize"
    /\ SsGoto(t, "done")
    /\ IF Len(history) > Threshold /\ ~summarizing
       THEN /\ summarizing' = TRUE
            /\ summarizer' = [summarizer EXCEPT ![t].at = "read"]
       ELSE UNCHANGED summaryVars
    /\ UNCHANGED <<store, view, snap, clearVars, ssGhosts>>

\* All but the last four messages are to be summarized.
ToSummarize(h) == SubSeq(h, 1, Len(h) - 4)
Valid(h) == Picked(h, {i \in DOMAIN h : ~IsTool(h[i])})

SummarizerDone(t) ==
    /\ summarizer' = [summarizer EXCEPT ![t] = SsIdle]
    /\ summarizing' = FALSE

\* GetHistory; with four messages or fewer there is nothing to do.
ReadHistory(t) ==
    /\ summarizer[t].at = "read"
    /\ IF Valid(ToSummarize(history)) = <<>>
       THEN SummarizerDone(t)
       ELSE /\ summarizer' = [summarizer EXCEPT ![t].at = "prior",
                                                  ![t].batch = Valid(ToSummarize(history))]
            /\ UNCHANGED summarizing
    /\ UNCHANGED <<store, turnVars, clearVars, ssGhosts>>

\* The batch is summarized without the existing summary, however short it is.
Summarized_Afresh(valid, prior) == ToSet(valid)

\* The existing summary goes into the prompt of a single batch, not into those
\* of the two halves of a long one.
Summarized(valid, prior) ==
    ToSet(valid) \cup (IF Len(valid) <= MaxPart THEN prior ELSE {})

ReadSummary(t) ==
    /\ summarizer[t].at = "prior"
    /\ summarizer' = [summarizer EXCEPT ![t].at = "set",
         ![t].text = Summarized(summarizer[t].batch, summary)]
    /\ UNCHANGED <<store, turnVars, summarizing, clearVars, ssGhosts>>

SetSummary(t) ==
    /\ summarizer[t].at = "set"
    /\ summary' = summarizer[t].text
    /\ dropped' = dropped \cup (IF Len(summarizer[t].batch) > MaxPart THEN summary ELSE {})
    /\ summarizer' = [summarizer EXCEPT ![t].at = "truncate"]
    /\ UNCHANGED <<history, turnVars, summarizing, clearVars, said, gone, overlapped>>

\* TruncateHistory(4): the last four of what is there by now.
TruncateHistory(t) ==
    /\ summarizer[t].at = "truncate"
    /\ history' = IF Len(history) <= 4 THEN history
                  ELSE SubSeq(history, Len(history) - 3, Len(history))
    /\ gone' = gone \cup (ToSet(history) \ (ToSet(history') \cup ToSet(summarizer[t].batch)))
    /\ SummarizerDone(t)
    /\ UNCHANGED <<summary, turnVars, clearVars, said, dropped, overlapped>>

-----------------------------------------------------------------------------
(* The clear command: SetHistory, then SetSummary. *)

ClearHistory ==
    /\ clears < MaxClears /\ ~clearing
    /\ ~Overlapping => \A t \in Turns : ~UnderWay(t)
    /\ clears' = clears + 1 /\ clearing' = TRUE
    /\ history' = <<>>
    /\ gone' = gone \cup said
    /\ UNCHANGED <<summary, turnVars, summaryVars, restarts, said, dropped, overlapped>>

ClearSummary ==
    /\ clearing
    /\ summary' = {} /\ clearing' = FALSE
    /\ gone' = gone \cup summary
    /\ UNCHANGED <<history, turnVars, summaryVars, clears, restarts, said, dropped, overlapped>>

-----------------------------------------------------------------------------
\* The process ends and starts again: what the store has is what is left.
Restart ==
    /\ restarts < MaxRestarts /\ \E t \in Turns : UnderWay(t)
    /\ restarts' = restarts + 1
    /\ turn' = [t \in Turns |-> IF UnderWay(t) THEN [turn[t] EXCEPT !.at = "done"] ELSE turn[t]]
    /\ view' = [t \in Turns |-> <<>>] /\ snap' = view'
    /\ summarizing' = FALSE /\ summarizer' = [t \in Turns |-> SsIdle]
    /\ clearing' = FALSE
    /\ UNCHANGED <<store, clears, ssGhosts>>

Terminating ==
    /\ \A t \in Turns : turn[t].at = "done"
    /\ ~summarizing /\ ~clearing /\ clears = MaxClears
    /\ UNCHANGED ssVars

TurnStep(t) ==
    \/ BuildMessages(t) \/ SaveUser(t) \/ RespondCalls(t) \/ SaveResult(t)
    \/ Answer(t) \/ ChatFails(t)
    \/ ContextError(t) \/ SetCompressed(t) \/ Rebuild(t)
SummarizerStep(t) == ReadHistory(t) \/ ReadSummary(t) \/ SetSummary(t) \/ TruncateHistory(t)

SsNext ==
    \/ \E t \in Turns : TurnStep(t) \/ MaybeSummarize(t) \/ SummarizerStep(t)
    \/ ClearHistory \/ ClearSummary \/ Restart
    \/ Terminating

SsSpec == SsInit /\ [][SsNext]_ssVars

-----------------------------------------------------------------------------
Messages ==
    [role : {"user", "reply", "call", "tool"}, turn : Turns,
     step : 0..MaxSteps, n : 0..MaxCalls]

SsTypeOK ==
    /\ history \in Seq(Messages) /\ summary \subseteq Messages
    /\ \A t \in Turns :
        /\ turn[t].at \in {"start", "saveUser", "chat", "tools", "reply", "maybeSummarize",
                           "compress", "rebuild", "done"}
        /\ turn[t].step \in 0..MaxSteps /\ turn[t].retry \in 0..MaxRetries
        /\ {turn[t].due, view[t], snap[t]} \subseteq Seq(Messages)
        /\ summarizer[t].at \in {"idle", "read", "prior", "set", "truncate"}
        /\ summarizer[t].batch \in Seq(Messages) /\ summarizer[t].text \subseteq Messages
    /\ summarizing \in BOOLEAN /\ clearing \in BOOLEAN /\ overlapped \in BOOLEAN
    /\ clears \in 0..MaxClears /\ restarts \in 0..MaxRestarts
    /\ said \cup gone \cup dropped \subseteq Messages

\* Whatever turns, summarizer, compressions and clears did to the history, each
\* tool call a provider is shown is followed by all of its results.
ProviderSeesResults ==
    \A t \in Turns : turn[t].at = "chat" => CallsAnswered(view[t])

\* ... and, unless turns overlapped, each result follows its own call.
ProviderSeesCalls ==
    ~overlapped => \A t \in Turns : turn[t].at = "chat" => ResultsAnswer(view[t])

\* The summary keeps up with the truncations: what was said is in the history or
\* in the summary, unless it was compressed or cleared away, or came to be among
\* the last four only after the summarizer had read the history, or its summary
\* gave way to that of a batch of more than maxSummarizationMessages.
KeptOrSummarized ==
    \A m \in said : IsTool(m) \/ m \in ToSet(history) \cup summary \cup gone \cup dropped

(* What the provider sees is well formed.                                     *)
SsInv == SsTypeOK /\ ProviderSeesResults /\ ProviderSeesCalls

\* "Existing context" is in the prompt of a summary: what a summary told of, the
\* next one tells of.  Refuted: the two halves of a batch of more than
\* maxSummarizationMessages are summarized without it.
SummaryIsCarriedOn == dropped = {}

\* The comment of forceCompression: "keeping system prompt and last user
\* message": the message a turn answers is in what it sends to the provider.
QuestionIsAsked ==
    \A t \in Turns : turn[t].at = "chat" => \E i \in DOMAIN view[t] : view[t][i] = User(t)

\* The clear command: "Chat history cleared!".  With no turn under way, what was
\* said before is in the summary no more.
ClearedStaysCleared ==
    clears > 0 /\ ~clearing /\ ~summarizing =>
        \A m \in summary \cup ToSet(history) : m \notin gone
=============================================================================
