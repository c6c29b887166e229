----------------------------- MODULE MCMessages -----------------------------
(***************************************************************************)
(* The message bus, and what the loop does with an inbound message before  *)
(* a turn: deduplication and debouncing.  The components share no          *)
(* variable, so they are checked side by side: a behaviour takes the steps *)
(* of the one in focus and leaves the other as it starts.                  *)
(***************************************************************************)
EXTENDS MessageBus, InboundPath

VARIABLE focus
suiteVars == <<focus, vars, inVars>>

\* Chats are alike: the first message may as well be of this one.
OneChat == CHOOSE c \in Chats : TRUE

SuiteInit ==
    /\ focus \in {"bus", "inbound"}
    /\ Init /\ (focus # "bus" => chan = [m \in Msgs |-> "inbound"])
    /\ InInit /\ IF focus = "inbound" THEN chat[CHOOSE m \in InMsgs : TRUE] = OneChat
                 ELSE chat = [m \in InMsgs |-> OneChat]

OnBus(A) == focus = "bus" /\ A /\ UNCHANGED <<focus, inVars>>
OnInbound(A) == focus = "inbound" /\ A /\ UNCHANGED <<focus, vars>>

SuiteNext == OnBus(Next) \/ OnInbound(InNext)

\* What FairSpec and InFairSpec say, of the component in focus.
SuiteFairness ==
    /\ \A m \in Msgs : WF_suiteVars(OnBus(PublishSelect(m)))
    /\ WF_suiteVars(OnBus(CloseNext))
    /\ WF_suiteVars(OnInbound(Tick))
    /\ \A c \in Chats : WF_suiteVars(OnInbound(Fire(c))) /\ WF_suiteVars(OnInbound(Flush(c)))

Suite == SuiteInit /\ [][SuiteNext]_suiteVars /\ SuiteFairness

(* Close ends and unblocks the publishers, and what waits in the debouncer    *)
(* is flushed.                                                                *)
MessagesEnd ==
    /\ focus = "bus" => CloseUnblocksPublishers /\ CloseEnds
    /\ focus = "inbound" => WaitingIsFlushed
=============================================================================
