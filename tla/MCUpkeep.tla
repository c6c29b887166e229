------------------------------ MODULE MCUpkeep ------------------------------
(***************************************************************************)
(* What must go on or come to an end: configuration reload, provider       *)
(* fallback and cooldown, the heartbeat, commands of the exec tool, and    *)
(* calls of MCP tools.  The components share no variable, so they are      *)
(* checked side by side: a behaviour takes the steps of the one in focus   *)
(* and leaves the others in one of the states they start in.               *)
(***************************************************************************)
EXTENDS GatewayReload, ProviderFallback, Heartbeat, ExecTool, McpTools

VARIABLE focus
suiteVars == <<focus, gwVars, fbVars, hbVars, exVars, mtVars>>

\* Two models of one provider, whose cooldown they share.
MCCandidates == <<<<"p", "m1">>, <<"p", "m2">>>>

\* The second server names an environment file that cannot be read.
MCConfig == [s \in MtServers |-> [type |-> "", url |-> FALSE, command |-> TRUE,
                                  envFile |-> IF s = "s1" THEN "good" ELSE "bad"]]

SuiteInit ==
    /\ focus \in {"reload", "fallback", "heartbeat", "exec", "mcp"}
    /\ GwInit /\ FbInit
    /\ HbInit /\ (focus # "heartbeat" => hbTasks = "missing" /\ hbFile = NoFile /\ hbOld = NoFile)
    /\ ExInit /\ (focus # "exec" => exAsk = CHOOSE a \in Asked : TRUE)
    /\ MtInit /\ (focus # "mcp" => mtCfg = [discovery |-> FALSE, search |-> FALSE, ttl |-> 1])

OnReload(A) == focus = "reload" /\ A /\ UNCHANGED <<focus, fbVars, hbVars, exVars, mtVars>>
OnFallback(A) == focus = "fallback" /\ A /\ UNCHANGED <<focus, gwVars, hbVars, exVars, mtVars>>
OnHeartbeat(A) == focus = "heartbeat" /\ A /\ UNCHANGED <<focus, gwVars, fbVars, exVars, mtVars>>
OnExec(A) == focus = "exec" /\ A /\ UNCHANGED <<focus, gwVars, fbVars, hbVars, mtVars>>
OnMcp(A) == focus = "mcp" /\ A /\ UNCHANGED <<focus, gwVars, fbVars, hbVars, exVars>>

SuiteNext ==
    OnReload(GwNext) \/ OnFallback(FbStep) \/ OnHeartbeat(HbNext) \/ OnExec(ExNext) \/ OnMcp(MtNext)

\* What the fairness of each component says, of the one in focus.
SuiteFairness ==
    /\ WF_suiteVars(OnReload(GwWatching)) /\ WF_suiteVars(OnReload(GwReloading))
    /\ \A t \in FbTurns : /\ WF_suiteVars(OnFallback(FbNext(t)))
                          /\ WF_suiteVars(OnFallback(\E a \in Answers : FbAnswer(t, a)))
    /\ \A g \in Gens : /\ WF_suiteVars(OnHeartbeat(HbLoopEnds(g)))
                       /\ \A s \in Sources : WF_suiteVars(OnHeartbeat(HbBeatStep(g, s)))
    /\ WF_suiteVars(OnExec(ExGuard)) /\ WF_suiteVars(OnExec(ExKill)) /\ WF_suiteVars(OnExec(ExGrace))
    /\ WF_suiteVars(OnExec(ExWaited)) /\ WF_suiteVars(OnExec(ExCtxEnds("deadline")))
    /\ WF_suiteVars(OnMcp(MtWaited)) /\ WF_suiteVars(OnMcp(MtCloses))
    /\ \A u \in MtTurns : /\ WF_suiteVars(OnMcp(MtLock(u))) /\ WF_suiteVars(OnMcp(MtAdd(u)))
                          /\ WF_suiteVars(OnMcp(MtAnswered(u, "error")))

Suite == SuiteInit /\ [][SuiteNext]_suiteVars /\ SuiteFairness

(* A turn's tries of the candidates come to an end, a command that leaves no  *)
(* process of its own behind is answered, and closing MCP waits for its calls *)
(* and no longer.                                                             *)
CallsEnd ==
    /\ focus = "fallback" => FbTurnsEnd
    /\ focus = "exec" => ExReturns
    /\ focus = "mcp" => MtCloseEnds

(* A reload that is offered is taken up, and a running heartbeat beats.       *)
ServicesGoOn ==
    /\ focus = "reload" => OfferedIsTaken
    /\ focus = "heartbeat" => KeepsBeating
=============================================================================
