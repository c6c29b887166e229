------------------------------- MODULE ReplyPath -------------------------------
(***************************************************************************)
(* Who answers the user of a round, and how often.  A round is one call of *)
(* runAgentLoop: for a user message, an asynchronous tool's result (a      *)
(* system message), a heartbeat or a cron job.  The message tool may send  *)
(* during the round and sets sentInRound; processAndRespond then skips the *)
(* final response.  Every agent has a message tool of its own, but the     *)
(* flag it consults is the default agent's.                                *)
(***************************************************************************)
EXTENDS Naturals, FiniteSets

CONSTANTS
    Rounds,
    Agents, Default,  \* agents of the registry, and its default agent
    Kinds,            \* the kinds of rounds: user, system, heartbeat, cron
    Debounced         \* whether the debouncer runs user rounds concurrently

ASSUME ReplyAssumption ==
    /\ Default \in Agents /\ Debounced \in BOOLEAN
    /\ Kinds \subseteq {"user", "system", "heartbeat", "cron"}

VARIABLES
    kind, agent,  \* of each round
    rpPc,           \* "idle", "thinking", "sending", "responding", "done"
    response,     \* what the round returned: "none", "text" or "empty"
    sentInRound,  \* the flag of each agent's message tool
    told,         \* the round's message tool has sent to the user
    answered,     \* the final response of the round was published to the user
    failed,       \* rounds with a publish that failed: bus closed, context over
    disturbed     \* history: rounds during which another round wrote the flag
                  \* of the default agent's message tool

rpVars == <<kind, agent, rpPc, response, sentInRound, told, answered, failed, disturbed>>

RpInit ==
    /\ kind \in [Rounds -> Kinds]
    /\ agent \in [Rounds -> Agents]
    \* processSystemMessage and ProcessHeartbeat use the default agent.
    /\ \A r \in Rounds : kind[r] \in {"system", "heartbeat"} => agent[r] = Default
    /\ rpPc = [r \in Rounds |-> "idle"]
    /\ response = [r \in Rounds |-> "none"]
    /\ sentInRound = [a \in Agents |-> FALSE]
    /\ told = {} /\ answered = {} /\ failed = {} /\ disturbed = {}

Active(r) == rpPc[r] \notin {"idle", "done"}

\* Run takes the next message when the round is over, unless rounds run in the
\* timers of the debouncer; heartbeat and cron each have a goroutine.
Lane(r) == IF kind[r] = "system" THEN "user" ELSE kind[r]
MayStart(r) ==
    \A q \in Rounds : Active(q) /\ Lane(q) = Lane(r) => Lane(r) = "user" /\ Debounced

\* The flag remembers for which round the tool has sent.
WriteFlag_Round(r, value) ==
    /\ sentInRound' = [sentInRound EXCEPT ![agent[r]] = IF value THEN r ELSE FALSE]
    /\ UNCHANGED disturbed

WriteFlag(r, value) ==
    /\ sentInRound' = [sentInRound EXCEPT ![agent[r]] = value]
    /\ disturbed' = disturbed \cup
         {q \in Rounds \ {r} : Active(q) /\ agent[r] = Default}

RpGoto(r, l) == rpPc' = [rpPc EXCEPT ![r] = l]

-----------------------------------------------------------------------------
\* A round that starts does not clear the flag a previous round has set.
StartRound_NoReset(r) ==
    /\ rpPc[r] = "idle" /\ MayStart(r) /\ kind[r] \in {"user", "cron"}
    /\ RpGoto(r, "thinking")
    /\ UNCHANGED <<kind, agent, response, sentInRound, told, answered, failed, disturbed>>

\* processMessage routes the message and resets the flag of that agent's tool.
StartRound(r) ==
    /\ rpPc[r] = "idle" /\ MayStart(r) /\ kind[r] \in {"user", "cron"}
    /\ WriteFlag(r, FALSE)
    /\ RpGoto(r, "thinking")
    /\ UNCHANGED <<kind, agent, response, told, answered, failed>>

\* processSystemMessage and ProcessHeartbeat do not reset it.
StartInternal(r) ==
    /\ rpPc[r] = "idle" /\ MayStart(r) /\ kind[r] \in {"system", "heartbeat"}
    /\ RpGoto(r, "thinking")
    /\ UNCHANGED <<kind, agent, response, sentInRound, told, answered, failed, disturbed>>

\* MessageTool.Execute: the callback publishes to the chat of the round ...
ToolPublishes(r) ==
    /\ rpPc[r] = "thinking"
    /\ told' = told \cup {r}
    /\ RpGoto(r, "sending")
    /\ UNCHANGED <<kind, agent, response, sentInRound, answered, failed, disturbed>>

\* (or fails, and the flag stays as it is)
ToolFails(r) ==
    /\ rpPc[r] = "thinking"
    /\ failed' = failed \cup {r}
    /\ UNCHANGED <<kind, agent, rpPc, response, sentInRound, told, answered, disturbed>>

\* ... and then the flag is set.
ToolMarksSent_Never(r) ==
    /\ rpPc[r] = "sending"
    /\ RpGoto(r, "thinking")
    /\ UNCHANGED <<kind, agent, response, sentInRound, told, answered, failed, disturbed>>

ToolMarksSent(r) ==
    /\ rpPc[r] = "sending"
    /\ WriteFlag(r, TRUE)
    /\ RpGoto(r, "thinking")
    /\ UNCHANGED <<kind, agent, response, told, answered, failed>>

\* The turn ends with a text (the default response, a user-facing error) or, if
\* media was sent, with nothing.  With SendResponse it publishes the text here.
TurnEnds(r) ==
    /\ rpPc[r] = "thinking"
    /\ \E text \in {"text", "empty"} :
         /\ response' = [response EXCEPT ![r] = text]
         /\ IF kind[r] = "system" /\ text = "text"
            THEN \/ answered' = answered \cup {r} /\ UNCHANGED failed
                 \/ failed' = failed \cup {r} /\ UNCHANGED answered
            ELSE UNCHANGED <<answered, failed>>
    /\ RpGoto(r, IF kind[r] \in {"user", "system"} THEN "responding" ELSE "done")
    /\ UNCHANGED <<kind, agent, sentInRound, told, disturbed>>

\* processAndRespond publishes the response unless the message tool has sent.
\* That of a system message goes to the channel "system", which no one serves.
AlreadySent == sentInRound[Default]

Respond(r) ==
    /\ rpPc[r] = "responding"
    /\ IF response[r] = "text" /\ ~AlreadySent /\ kind[r] = "user"
       THEN \/ answered' = answered \cup {r} /\ UNCHANGED failed
            \/ failed' = failed \cup {r} /\ UNCHANGED answered
       ELSE UNCHANGED <<answered, failed>>
    /\ RpGoto(r, "done")
    /\ UNCHANGED <<kind, agent, response, sentInRound, told, disturbed>>

RpStop == (\A r \in Rounds : rpPc[r] = "done") /\ UNCHANGED rpVars

RpNext ==
    \/ \E r \in Rounds :
         \/ StartRound(r) \/ StartInternal(r)
         \/ ToolPublishes(r) \/ ToolFails(r) \/ ToolMarksSent(r)
         \/ TurnEnds(r) \/ Respond(r)
    \/ RpStop

RpSpec == RpInit /\ [][RpNext]_rpVars

-----------------------------------------------------------------------------
RpTypeOK ==
    /\ kind \in [Rounds -> Kinds] /\ agent \in [Rounds -> Agents]
    /\ rpPc \in [Rounds -> {"idle", "thinking", "sending", "responding", "done"}]
    /\ response \in [Rounds -> {"none", "text", "empty"}]
    /\ sentInRound \in [Agents -> BOOLEAN]
    /\ told \cup answered \cup failed \cup disturbed \subseteq Rounds

\* A user round of the default agent that no concurrent round disturbs gives its
\* user exactly one kind of answer: the message tool's or the final one.  It is
\* true after any earlier rounds, whoever ran them and however they ended.
UndisturbedRoundAnswersOnce ==
    \A r \in Rounds :
        rpPc[r] = "done" /\ kind[r] = "user" /\ agent[r] = Default
            /\ r \notin disturbed \cup failed /\ response[r] = "text" =>
                (r \in told) # (r \in answered)

(* Well typed, and a round nothing disturbs answers once.                     *)
RpInv == RpTypeOK /\ UndisturbedRoundAnswersOnce

\* The comment in processAndRespond: "Check if the message tool already sent a
\* response during this round.  If so, skip publishing": a user's response is
\* not skipped when the message tool has sent nothing in the round.
SkippedOnlyIfSent ==
    \A r \in Rounds :
        rpPc[r] = "done" /\ kind[r] = "user" /\ response[r] = "text" /\ r \notin told \cup failed =>
            r \in answered

\* "... to avoid duplicate messages to the user": no user round both sends with
\* the message tool and publishes its final response.
NoDuplicateAnswer == \A r \in Rounds : kind[r] = "user" => ~(r \in told /\ r \in answered)

\* The comment in CronTool.ExecuteJob on the response of a job the agent has
\* processed: "Response is automatically sent via MessageBus by AgentLoop".
CronResponseIsSent ==
    \A r \in Rounds :
        rpPc[r] = "done" /\ kind[r] = "cron" /\ response[r] = "text" /\ r \notin failed =>
            r \in told \cup answered
=============================================================================
