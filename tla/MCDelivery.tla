----------------------------- MODULE MCDelivery -----------------------------
(***************************************************************************)
(* Between the bus and the chat services: the channel manager, what it     *)
(* shows in a chat while a turn runs, the streams of the WeCom bot, what   *)
(* adapters do with an inbound and with an outbound message, and the life  *)
(* of their connections.  The components share no variable, so they are    *)
(* checked side by side: a behaviour takes the steps of the one in focus   *)
(* and leaves the others in one of the states they start in.               *)
(***************************************************************************)
EXTENDS ChannelManager, ChatIndicators, WecomStream, AdapterInbound, AdapterOutbound,
        ConnectionLife

VARIABLE focus
suiteVars == <<focus, chVars, ciVars, wsVars, aiVars, aoVars, clVars>>

SuiteInit ==
    /\ focus \in {"manager", "indicators", "wecom", "inbound", "outbound", "connection"}
    /\ CmInit /\ CiInit /\ WsInit
    /\ AiInit /\ (focus # "inbound" => ~aiTwin /\ aiName = CHOOSE n \in DOMAIN Adapters : TRUE)
    /\ AoInit /\ (focus # "outbound" => /\ aoMode = CHOOSE m \in TextSenders : TRUE
                                        /\ aoParts = CHOOSE p \in MessagesOf({"text"}) : TRUE)
    /\ ClInit /\ (focus # "connection" => clName = CHOOSE n \in DOMAIN Lives : TRUE)

OnManager(A) == focus = "manager" /\ A /\ UNCHANGED <<focus, ciVars, wsVars, aiVars, aoVars, clVars>>
OnIndicators(A) == focus = "indicators" /\ A /\ UNCHANGED <<focus, chVars, wsVars, aiVars, aoVars, clVars>>
OnWecom(A) == focus = "wecom" /\ A /\ UNCHANGED <<focus, chVars, ciVars, aiVars, aoVars, clVars>>
OnInbound(A) == focus = "inbound" /\ A /\ UNCHANGED <<focus, chVars, ciVars, wsVars, aoVars, clVars>>
OnOutbound(A) == focus = "outbound" /\ A /\ UNCHANGED <<focus, chVars, ciVars, wsVars, aiVars, clVars>>
OnConnection(A) == focus = "connection" /\ A /\ UNCHANGED <<focus, chVars, ciVars, wsVars, aiVars, aoVars>>

SuiteNext ==
    \/ OnManager(CmNext) \/ OnIndicators(CiNext) \/ OnWecom(WsNext)
    \/ OnInbound(AiNext) \/ OnOutbound(AoNextStep) \/ OnConnection(ClNext)

\* What CmFairness, WsFairness and ClFairness say, of the component in focus.
SuiteFairness ==
    /\ \A s \in Senders : WF_suiteVars(OnManager(~chPanic /\ CmWork(s)))
    /\ WF_suiteVars(OnManager(~chPanic /\ CmStopping))
    /\ \A a \in WsAnswers : /\ WF_suiteVars(OnWecom(WsOffer(a)))
                            /\ WF_suiteVars(OnWecom(\E ok \in BOOLEAN : WsPost(a, ok)))
    /\ \A s \in Streams : WF_suiteVars(OnWecom(WsCleanup(s)))
    /\ WF_suiteVars(OnConnection(ClDial))
    /\ WF_suiteVars(OnConnection(\E ok \in BOOLEAN : ClDialed(ok)))
    /\ SF_suiteVars(OnConnection(ClDialed(TRUE)))

Suite == SuiteInit /\ [][SuiteNext]_suiteVars /\ SuiteFairness

(* StopAll returns unless it panics, a WeCom stream is finished, and a lost   *)
(* connection is dialed again.                                                *)
DeliveryEnds ==
    /\ focus = "manager" => StopAllReturns
    /\ focus = "wecom" => WsEnds
    /\ focus = "connection" => LostIsReconnected
=============================================================================
