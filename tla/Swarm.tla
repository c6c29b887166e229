------------------------------- MODULE Swarm -------------------------------
(* Sub-agents: runs that the delegate tool starts in the background, the tool *)
(* loop each of them is, sessions_control, the announcements a later turn     *)
(* takes up, the callback that publishes the result, and the closing of the   *)
(* manager when its agent is replaced.                                        *)
(*                                                                            *)
(* A caller is the main agent (0) or a run.  What models say is abstracted to *)
(* whether they call tools, answer or fail.                                   *)
EXTENDS Naturals, Sequences, FiniteSets, SequencesExt

CONSTANTS MaxRuns,      \* runs started
          MaxLoop,      \* maxIterations
          MaxDepth,     \* defaultMaxDepth
          MaxChildren   \* defaultMaxChildren

ASSUME SwAssumption ==
  MaxRuns \in Nat /\ MaxLoop \in Nat \ {0} /\ MaxDepth \in Nat /\ MaxChildren \in Nat

Runs == 1..MaxRuns
MainAgent == 0

VARIABLES swRuns,    \* [Runs -> record]: runs and the goroutines that execute them
          swParent,  \* [Runs -> caller]: whose tool call started the run
          swNext,    \* nextID
          swNotes,   \* Seq of runs: pendingAnnouncements
          swTold,    \* Seq of <<run, how>>: what a turn or the bus was given
          swKilled,  \* runs whose own context was cancelled
          swClosed   \* nextID when Close was called, 0 before

swVars == <<swRuns, swParent, swNext, swNotes, swTold, swKilled, swClosed>>

Outcomes == {"none", "answer", "error"}
RunRecord == [status : {"none", "running", "completed", "failed", "canceled"},
              loop : 0..MaxLoop, step : {"none", "chat", "tools", "ended", "over"},
              outcome : Outcomes, parent : 0..MaxRuns, depth : 0..MaxDepth]

SwInit ==
  /\ swRuns = [r \in Runs |-> [status |-> "none", loop |-> 0, step |-> "none",
                               outcome |-> "none", parent |-> MainAgent, depth |-> 0]]
  /\ swParent = [r \in Runs |-> MainAgent] /\ swNext = 1
  /\ swNotes = <<>> /\ swTold = <<>> /\ swKilled = {} /\ swClosed = 0

Started(r) == r \in Runs /\ r < swNext
Alive(r) == swRuns[r].step \in {"chat", "tools", "ended"}

(* The context of a run ends with its own and with its caller's: a run and    *)
(* its callers up to the main agent, the smallest set that has them all.      *)
Ancestors(r) ==
  {a \in Runs : \A up \in SUBSET Runs :
     r \in up /\ (\A x \in up : swParent[x] \in up \cup {MainAgent}) => a \in up}
ContextDone(r) == Ancestors(r) \cap swKilled # {}

----------------------------------------------------------------------------
(* The delegate tool *)

(* What SessionsSpawnTool passes on of its caller: neither parent nor depth. *)
SpawnParams(caller) == [parent |-> MainAgent, depth |-> 0]

Children(p) == {r \in Runs : Started(r) /\ swRuns[r].parent = p}

(* Spawn, by the main agent or within the tool call of a run. *)
SwSpawn(caller) ==
  /\ swNext \in Runs
  /\ caller = MainAgent \/ (caller \in Runs /\ swRuns[caller].step = "tools")
  /\ LET p == SpawnParams(caller)
     IN  /\ p.depth < MaxDepth
         /\ p.parent # MainAgent => Cardinality(Children(p.parent)) < MaxChildren
         /\ swRuns' = [swRuns EXCEPT ![swNext] =
                        [status |-> "running", loop |-> 1, step |-> "chat", outcome |-> "none",
                         parent |-> p.parent, depth |-> p.depth]]
  /\ swParent' = [swParent EXCEPT ![swNext] = caller]
  /\ swNext' = swNext + 1
  /\ UNCHANGED <<swNotes, swTold, swKilled, swClosed>>

----------------------------------------------------------------------------
(* RunToolLoop *)

(* A call of the model: it answers, fails, as it does once the context is     *)
(* cancelled, or asks for tools.                                              *)
SwChat(r, reply) ==
  /\ swRuns[r].step = "chat"
  /\ ContextDone(r) => reply = "error"
  /\ swRuns' = [swRuns EXCEPT ![r].step = IF reply = "tools" THEN "tools" ELSE "ended",
                              ![r].outcome = IF reply = "tools" THEN "none" ELSE reply]
  /\ UNCHANGED <<swParent, swNext, swNotes, swTold, swKilled, swClosed>>

(* All tool calls returned: the next iteration, or the loop ends without an   *)
(* answer and without an error.                                               *)
Iterated(run) == IF run.loop < MaxLoop THEN [run EXCEPT !.loop = @ + 1, !.step = "chat"]
                                       ELSE [run EXCEPT !.step = "ended", !.outcome = "answer"]

SwToolsDone(r) ==
  /\ swRuns[r].step = "tools" /\ swRuns' = [swRuns EXCEPT ![r] = Iterated(@)]
  /\ UNCHANGED <<swParent, swNext, swNotes, swTold, swKilled, swClosed>>

(* Plausible defect: a run that was killed is not announced, though it        *)
(* answered.                                                                  *)
Announced_NotKilled(r) == swRuns[r].outcome = "answer" /\ swRuns[r].status = "running"

Announced(r) == swRuns[r].outcome = "answer"

(* The end of runSpawnedTask, under the lock: status, announcement, and then  *)
(* the callback, which a run started by another run does not have.            *)
SwEnd(r) ==
  /\ swRuns[r].step = "ended"
  /\ swRuns' = [swRuns EXCEPT ![r].step = "over",
                  ![r].status = CASE swRuns[r].outcome = "answer" -> "completed"
                                  [] ContextDone(r) -> "canceled"
                                  [] OTHER -> "failed"]
  /\ swNotes' = IF Announced(r) THEN Append(swNotes, r) ELSE swNotes
  /\ swTold' = IF swParent[r] = MainAgent THEN Append(swTold, <<r, "callback">>) ELSE swTold
  /\ UNCHANGED <<swParent, swNext, swKilled, swClosed>>

----------------------------------------------------------------------------
(* Turns, sessions_control and the closing of the agent *)

(* DrainAnnouncements at the start of a turn, of whatever chat. *)
SwDrain ==
  /\ swNotes # <<>> /\ swClosed = 0
  /\ swTold' = swTold \o [i \in DOMAIN swNotes |-> <<swNotes[i], "turn">>]
  /\ swNotes' = <<>>
  /\ UNCHANGED <<swRuns, swParent, swNext, swKilled, swClosed>>

(* killRecursive: the run and the children the manager knows, whatever their  *)
(* status is.                                                                 *)
Cancel(rs) ==
  /\ swKilled' = swKilled \cup rs
  /\ swRuns' = [r \in Runs |-> IF r \in rs THEN [swRuns[r] EXCEPT !.status = "canceled"]
                                           ELSE swRuns[r]]

Descendants(r) == {x \in Runs : Started(x) /\ (x = r \/ swRuns[x].parent = r)}

SwKill(r) ==
  /\ Started(r) /\ r \notin swKilled /\ Cancel(Descendants(r))
  /\ UNCHANGED <<swParent, swNext, swNotes, swTold, swClosed>>

(* Plausible defect: Close marks the runs and does not cancel them. *)
SwClose_MarksOnly ==
  /\ swClosed = 0 /\ swClosed' = swNext
  /\ swRuns' = [r \in Runs |-> IF swRuns[r].status = "running"
                               THEN [swRuns[r] EXCEPT !.status = "canceled"] ELSE swRuns[r]]
  /\ UNCHANGED <<swParent, swNext, swNotes, swTold, swKilled>>

(* Close: a reload replaced the agent.  Turns of it that run may spawn still. *)
SwClose ==
  /\ swClosed = 0 /\ swClosed' = swNext
  /\ Cancel({r \in Runs : swRuns[r].status = "running"})
  /\ UNCHANGED <<swParent, swNext, swNotes, swTold>>

SwNext ==
  \/ \E c \in {MainAgent} \cup Runs : SwSpawn(c)
  \/ \E r \in Runs : SwToolsDone(r) \/ SwEnd(r) \/ SwKill(r)
  \/ \E r \in Runs, reply \in {"tools", "answer", "error"} : SwChat(r, reply)
  \/ SwDrain \/ SwClose

SwSpec == SwInit /\ [][SwNext]_swVars

----------------------------------------------------------------------------
(* The state is well typed. *)
SwTypeOK ==
  /\ swRuns \in [Runs -> RunRecord] /\ swParent \in [Runs -> 0..MaxRuns]
  /\ swNext \in 1..(MaxRuns + 1) /\ swNotes \in Seq(Runs)
  /\ swTold \in Seq(Runs \X {"turn", "callback"})
  /\ swKilled \subseteq Runs /\ swClosed \in 0..(MaxRuns + 1)

Times(r, seq) == Cardinality({i \in DOMAIN seq : seq[i] = r})

(* The answer of every run is announced to one turn or waits to be, however   *)
(* drains, kills and the ends of runs interleave, and whatever is listed as   *)
(* running has a goroutine that will still change that.                       *)
AnswersAreAnnounced ==
  \A r \in Runs :
    /\ Times(r, swNotes) + Times(<<r, "turn">>, swTold)
         = IF swRuns[r].step = "over" /\ swRuns[r].outcome = "answer" THEN 1 ELSE 0
    /\ swRuns[r].status = "running" => Alive(r)

(* Close reaches every run: what the manager had when it was closed, and what *)
(* those runs start later, has a context that is over, so that no model call  *)
(* goes on for an agent that was replaced.  Only a turn of the main agent that *)
(* is still under way can start a run that goes on.                           *)
ClosedRunsAreCancelled ==
  \A r \in Runs : Alive(r) /\ (\E x \in Ancestors(r) : x < swClosed) => ContextDone(r)

(* Answers are announced once, and Close reaches every run.                   *)
SwInv == SwTypeOK /\ AnswersAreAnnounced /\ ClosedRunsAreCancelled

(* "depth limits, children limits": runs are not nested deeper than MaxDepth. *)
(* Refuted: the tool tells Spawn neither the parent nor the depth.            *)
NestingIsLimited == \A r \in Runs : Cardinality(Ancestors(r)) <= MaxDepth

(* "Run %s killed": its status stays canceled.  Refuted: the loop may still   *)
(* answer, and the end of the run sets completed.                             *)
KilledStaysCanceled == \A r \in swKilled : swRuns[r].status = "canceled"

(* A result is told to the user's agent once.  Refuted: it is both announced  *)
(* to the next turn and published by the callback.                            *)
ToldOnce == \A r \in Runs : Times(<<r, "turn">>, swTold) + Times(<<r, "callback">>, swTold) <= 1
=============================================================================
