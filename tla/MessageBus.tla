------------------------------- MODULE MessageBus -------------------------------
(***************************************************************************)
(* pkg/bus: three buffered channels between the chat channels and the      *)
(* agent loop, and a Close that races publishers and consumers.  Close     *)
(* never closes the three channels (a concurrent send would panic): it     *)
(* sets closed, closes done and drains what it finds.                      *)
(***************************************************************************)
EXTENDS Naturals, Sequences, FiniteSets, SequencesExt

CONSTANTS
    Msgs,       \* messages, each published once by a goroutine of its own
    BufferSize  \* defaultBusBufferSize

ASSUME BusAssumption == BufferSize \in Nat \ {0}

VARIABLES
    chan,       \* the channel each message is for
    queue,      \* the three buffered channels
    closed,     \* mb.closed
    done,       \* mb.done is closed
    pub,        \* each Publish call: "idle", "select", or what it returned
    received,   \* what the consumer of each channel was handed, in order
    listening,  \* the consumer still calls Consume or Subscribe
    drained,    \* messages Close took out of the channels
    closer      \* Close: "idle", "flagged", the channel it drains, or "done"

vars == <<chan, queue, closed, done, pub, received, listening, drained, closer>>

Chans == {"inbound", "outbound", "outboundMedia"}
\* The last label of the drain is misspelt.
AfterDrain_Ends == [inbound |-> "outbound", outbound |-> "outboundMedia", outboundMedia |-> "media"]
AfterDrain == [inbound |-> "outbound", outbound |-> "outboundMedia", outboundMedia |-> "done"]
Refused == {"ErrBusClosed", "ctx.Err"}

Init ==
    /\ chan \in [Msgs -> Chans]
    /\ queue = [c \in Chans |-> <<>>]
    /\ closed = FALSE /\ done = FALSE
    /\ pub = [m \in Msgs |-> "idle"]
    /\ received = [c \in Chans |-> <<>>]
    /\ listening = Chans
    /\ drained = {}
    /\ closer = "idle"

-----------------------------------------------------------------------------
(* PublishInbound, PublishOutbound, PublishOutboundMedia *)

Returns(m, r) == pub' = [pub EXCEPT ![m] = r]

PublishCheck(m) ==
    /\ pub[m] = "idle"
    /\ Returns(m, IF closed THEN "ErrBusClosed" ELSE "select")
    /\ UNCHANGED <<chan, queue, closed, done, received, listening, drained, closer>>

\* The message is handed over in a goroutine, so that Publish cannot block.
PublishSend_Async(m) ==
    /\ pub[m] \in {"select", "ctx.Err"} /\ Len(queue[chan[m]]) < BufferSize
    /\ m \notin ToSet(queue[chan[m]]) \cup ToSet(received[chan[m]]) \cup drained
    /\ queue' = [queue EXCEPT ![chan[m]] = Append(@, m)]
    /\ IF pub[m] = "select" THEN Returns(m, "ok") ELSE UNCHANGED pub
    /\ UNCHANGED <<chan, closed, done, received, listening, drained, closer>>

PublishSend(m) ==
    /\ pub[m] = "select" /\ Len(queue[chan[m]]) < BufferSize
    /\ queue' = [queue EXCEPT ![chan[m]] = Append(@, m)]
    /\ Returns(m, "ok")
    /\ UNCHANGED <<chan, closed, done, received, listening, drained, closer>>

PublishDone(m) ==
    /\ pub[m] = "select" /\ done
    /\ Returns(m, "ErrBusClosed")
    /\ UNCHANGED <<chan, queue, closed, done, received, listening, drained, closer>>

\* The context of the call ends, before or during the select.
PublishCtx(m) ==
    /\ pub[m] \in {"idle", "select"}
    /\ Returns(m, "ctx.Err")
    /\ UNCHANGED <<chan, queue, closed, done, received, listening, drained, closer>>

-----------------------------------------------------------------------------
(* ConsumeInbound, SubscribeOutbound, SubscribeOutboundMedia.  The select   *)
(* picks any ready case, so a message may still come out after done.        *)

Consume(c) ==
    /\ c \in listening /\ queue[c] # <<>>
    /\ received' = [received EXCEPT ![c] = Append(@, Head(queue[c]))]
    /\ queue' = [queue EXCEPT ![c] = Tail(@)]
    /\ UNCHANGED <<chan, closed, done, pub, listening, drained, closer>>

\* ok is FALSE: the bus is closed, or the consumer's context ended.
ConsumerLeaves(c) ==
    /\ c \in listening
    /\ listening' = listening \ {c}
    /\ UNCHANGED <<chan, queue, closed, done, pub, received, drained, closer>>

-----------------------------------------------------------------------------
(* Close.  A second Close loses the CompareAndSwap and changes nothing. *)

CloseFlag ==
    /\ closer = "idle" /\ ~closed
    /\ closed' = TRUE
    /\ closer' = "flagged"
    /\ UNCHANGED <<chan, queue, done, pub, received, listening, drained>>

\* Close drains at once and never closes done.
CloseDone_Forgotten ==
    /\ closer = "flagged"
    /\ closer' = "inbound"
    /\ UNCHANGED <<chan, queue, closed, done, pub, received, listening, drained>>

CloseDone ==
    /\ closer = "flagged"
    /\ done' = TRUE
    /\ closer' = "inbound"
    /\ UNCHANGED <<chan, queue, closed, pub, received, listening, drained>>

\* The drain has no default case: it waits on an empty channel.
CloseDrain_Blocking ==
    /\ closer \in Chans /\ queue[closer] # <<>>
    /\ queue' = [queue EXCEPT ![closer] = Tail(@)]
    /\ drained' = drained \cup {Head(queue[closer])}
    /\ UNCHANGED <<chan, closed, done, pub, received, listening, closer>>

\* A channel is drained until a receive would block, then the next one is.
CloseDrain ==
    /\ closer \in Chans
    /\ IF queue[closer] # <<>>
       THEN /\ queue' = [queue EXCEPT ![closer] = Tail(@)]
            /\ drained' = drained \cup {Head(queue[closer])}
            /\ UNCHANGED closer
       ELSE /\ closer' = AfterDrain[closer]
            /\ UNCHANGED <<queue, drained>>
    /\ UNCHANGED <<chan, closed, done, pub, received, listening>>

-----------------------------------------------------------------------------
BusStop ==  \* every Publish and the Close are over, no consumer has work
    /\ \A m \in Msgs : pub[m] \notin {"idle", "select"}
    /\ closer = "done"
    /\ UNCHANGED vars

PublishSelect(m) == PublishSend(m) \/ PublishDone(m)
CloseNext == CloseDone \/ CloseDrain

Next ==
    \/ \E m \in Msgs : PublishCheck(m) \/ PublishSelect(m) \/ PublishCtx(m)
    \/ \E c \in Chans : Consume(c) \/ ConsumerLeaves(c)
    \/ CloseFlag \/ CloseNext
    \/ BusStop

Spec == Init /\ [][Next]_vars

(***************************************************************************)
(* A select with a ready case is taken and Close runs on.  Nobody has to   *)
(* publish, to close, to consume or to end a context.                      *)
(***************************************************************************)
FairSpec ==
    /\ Spec
    /\ \A m \in Msgs : WF_vars(PublishSelect(m))
    /\ WF_vars(CloseNext)

-----------------------------------------------------------------------------
TypeOK ==
    /\ chan \in [Msgs -> Chans]
    /\ queue \in [Chans -> Seq(Msgs)]
    /\ closed \in BOOLEAN /\ done \in BOOLEAN
    /\ pub \in [Msgs -> {"idle", "select", "ok"} \cup Refused]
    /\ received \in [Chans -> Seq(Msgs)]
    /\ listening \subseteq Chans /\ drained \subseteq Msgs
    /\ closer \in {"idle", "flagged", "done"} \cup Chans

Queued(m) == \E c \in Chans : \E i \in 1..Len(queue[c]) : queue[c][i] = m
Handed(m) == \E c \in Chans : \E i \in 1..Len(received[c]) : received[c][i] = m

\* An error of Publish means the message was never handed to anyone and never
\* will be: callers that report the error or send again do not duplicate it,
\* whatever Close and the consumer were doing at the time.
RefusedIsNeverDelivered ==
    \A m \in Msgs : pub[m] # "ok" => ~Queued(m) /\ ~Handed(m) /\ m \notin drained

\* A message is in at most one place: no consumer is handed one that Close has
\* drained or that it has been handed before.
DeliveredAtMostOnce ==
    /\ \A m \in Msgs : ~(Queued(m) /\ Handed(m)) /\ ~(m \in drained /\ (Queued(m) \/ Handed(m)))
    /\ \A c \in Chans : IsInjective(queue[c]) /\ IsInjective(received[c])

(* What is refused is never delivered, and what is accepted is delivered once. *)
BusInv == TypeOK /\ RefusedIsNeverDelivered /\ DeliveredAtMostOnce

\* A publisher blocked on a full channel nobody reads comes back once the bus
\* is closed, and Close itself ends while publishers keep sending.
CloseUnblocksPublishers == closed ~> \A m \in Msgs : pub[m] # "select"
CloseEnds == closer # "idle" ~> closer = "done"

\* The comment in Close: "Drain buffered channels so messages aren't silently
\* lost."  Once Close has returned no accepted message is left in a channel.
NothingLeftBehind == closer = "done" => \A c \in Chans : queue[c] = <<>>
=============================================================================
