-------------------------- MODULE Delivery_proofs --------------------------
(***************************************************************************)
(* What holds between the bus and the chat services for any number of      *)
(* messages, questions, repliers, streams, connections and attempts.       *)
(***************************************************************************)
EXTENDS ChannelManager, ChatIndicators, WecomStream, AdapterInbound, AdapterOutbound,
        ConnectionLife, FiniteSetTheorems, SequenceTheorems, TLAPS

(***************************************************************************)
(* What a chat shows while a turn runs.  CiInv is inductive: each handler  *)
(* that replaces or removes the entry stops the indicator it stood for.    *)
(***************************************************************************)
LEMMA CiStepInv == CiInv /\ [CiNext]_ciVars => CiInv'
<1> SUFFICES ASSUME CiInv, [CiNext]_ciVars PROVE CiInv'
  OBVIOUS
<1> USE DEF CiInv, CiTypeOK, TypingIsOwned, Kinds
<1>1. ASSUME NEW q \in Questions, CiQuestion(q) PROVE CiInv'
  BY <1>1 DEF CiQuestion, Record, Replaced
<1>2. ASSUME NEW q \in Questions, CiTranscribed(q) PROVE CiInv'
  BY <1>2 DEF CiTranscribed, Record, Replaced
<1>3. ASSUME NEW r \in Repliers, CiPreSend(r) PROVE CiInv'
  BY <1>3 DEF CiPreSend
<1>4. ASSUME NEW r \in Repliers, NEW ok \in BOOLEAN, CiEdited(r, ok) PROVE CiInv'
  BY <1>4 DEF CiEdited
<1>5. ASSUME NEW k \in Kinds, CiJanitor(k) PROVE CiInv'
  BY <1>5 DEF CiJanitor
<1>6. CASE UNCHANGED ciVars
  BY <1>6 DEF ciVars
<1>7. QED
  BY <1>1, <1>2, <1>3, <1>4, <1>5, <1>6 DEF CiNext

\* A typing indicator that runs has an entry that will stop it, however
\* questions, replies and the janitor overlap (RecordTypingStop, preSend).
THEOREM IndicatorsCorrect == CiSpec => []CiInv
<1>1. CiInit => CiInv
  BY DEF CiInit, CiInv, CiTypeOK, TypingIsOwned, Kinds
<1>2. QED
  BY <1>1, CiStepInv, PTL DEF CiSpec

-----------------------------------------------------------------------------
(***************************************************************************)
(* The life of a connection.  The channel knows the connection that is     *)
(* open, and the loop dials only while it knows none.                      *)
(***************************************************************************)
ClIInv ==
    /\ ClTypeOK
    /\ clOpen \subseteq {clRef}
    /\ clLoop = "dialing" => clRef = 0 /\ clDials < MaxDials
    /\ clStage \in {"new", "starting"} =>
         clRef = 0 /\ clLoop = "none" /\ clDials = 0
    /\ clStage \in {"new", "failed"} => ~clDaemon
    /\ clStop # "no" => clStage = "running"
    /\ clStop \in {"waiting", "returned", "gaveUp"} => ~clDaemon
    /\ clStop = "returned" /\ life.waits => clLoop = "none"

(* Every adapter of the table has a life of known shape.                      *)
LEMMA LivesAreKnown == clName \in DOMAIN Lives => life.daemon \in BOOLEAN
<1> SUFFICES ASSUME clName \in DOMAIN Lives PROVE life.daemon \in BOOLEAN
  OBVIOUS
<1> DEFINE All == {TelegramLife, DiscordLife, SlackLife, FeishuLife, IRCLife, DingTalkLife,
                   MatrixLife, LineLife, WeComAppLife, QQLife, WhatsAppLife, OneBotLife,
                   WhatsAppNativeLife, SignalLife}
<1>1. life \in All
  BY DEF life, Lives
<1>2. \A l \in {"library", "webhook", "none", "own"} : Life(l).daemon = FALSE
  BY DEF Life
<1>3. \A x \in All : x.daemon \in BOOLEAN
  BY <1>2 DEF Life, TelegramLife, DiscordLife, SlackLife, FeishuLife, IRCLife,
     DingTalkLife, MatrixLife, LineLife, WeComAppLife, QQLife, WhatsAppLife, OneBotLife,
     WhatsAppNativeLife, SignalLife
<1>4. QED
  BY <1>1, <1>3

(* The inductive invariant holds at first.                                    *)
LEMMA ClInitIInv == ClInit => ClIInv
<1> SUFFICES ASSUME ClInit PROVE ClIInv
  OBVIOUS
<1>1. clName \in DOMAIN Lives /\ clStage = "new" /\ clStop = "no" /\ clLoop = "none" /\ clOpen = {}
  BY DEF ClInit
<1>2. clRef \in 0..MaxDials /\ clDials \in 0..MaxDials /\ clReads \in 0..MaxReads
  BY ClAssumption DEF ClInit
<1>3. clCanceled \in BOOLEAN /\ clDaemon \in BOOLEAN /\ ~clDaemon
  BY DEF ClInit
<1>4. clRef = 0 /\ clDials = 0
  BY DEF ClInit
<1>5. ClTypeOK
  BY <1>1, <1>2, <1>3 DEF ClTypeOK
<1>6. QED
  BY <1>1, <1>3, <1>4, <1>5 DEF ClIInv

(* Every step preserves it.                                                   *)
LEMMA ClStepIInv == ClIInv /\ [ClNext]_clVars => ClIInv'
<1> SUFFICES ASSUME ClIInv, [ClNext]_clVars PROVE ClIInv'
  OBVIOUS
<1>a. clName' = clName
  BY DEF ClNext, ClStart, ClDial, ClLoopEnds, ClReadDead, ClStopCancel, ClStopClose,
     ClStopReturn, ClStarted, ClDialed, ClLost, clVars
<1>b. /\ clName \in DOMAIN Lives /\ clOpen \subseteq {clRef} /\ clOpen \subseteq 1..MaxDials
      /\ clDials \in 0..MaxDials /\ clRef \in 0..MaxDials /\ clReads \in 0..MaxReads
  BY DEF ClIInv, ClTypeOK
<1>c. \A g \in clOpen : g = clRef /\ g \in Nat /\ g # 0
  BY <1>b, ClAssumption
<1>0. /\ clName' = clName /\ life' = life /\ life.daemon \in BOOLEAN
      /\ clDials \in Nat /\ clDials <= MaxDials /\ MaxDials \in Nat \ {0} /\ MaxReads \in Nat
  BY <1>a, <1>b, LivesAreKnown, ClAssumption DEF life
<1>1. CASE ClStart
  BY <1>0, <1>1 DEF ClStart, ClIInv, ClTypeOK
<1>2. ASSUME NEW ok \in BOOLEAN, ClStarted(ok) PROVE ClIInv'
  <2>1. /\ clStage = "starting" /\ clStage' \in {"running", "failed"} /\ clStop' = clStop
        /\ clReads' = clReads /\ clLoop' \in {"none", "idle"} /\ clStop = "no"
    BY <1>2 DEF ClStarted, ClIInv
  <2>2. clCanceled' \in BOOLEAN /\ clDaemon' \in BOOLEAN /\ (clStage' = "failed" => ~clDaemon')
    BY <1>2, <2>1 DEF ClStarted
  <2>3. clDials = 0 /\ clRef = 0 /\ clOpen \subseteq {0}
    BY <2>1 DEF ClIInv
  <2>4. clRef' \in 0..MaxDials /\ clDials' \in 0..MaxDials /\ clOpen' \subseteq 1..MaxDials
        /\ clOpen' \subseteq {clRef'}
    <3>1. CASE ok /\ life.loop # "webhook"
      BY <1>0, <1>b, <1>2, <2>3, <3>1 DEF ClStarted
    <3>2. CASE ~(ok /\ life.loop # "webhook")
      BY <1>0, <1>b, <1>2, <2>3, <3>2 DEF ClStarted
    <3>3. QED
      BY <3>1, <3>2
  <2>5. QED
    BY <1>0, <2>1, <2>2, <2>4 DEF ClIInv, ClTypeOK
<1>3. ASSUME NEW g \in clOpen, ClLost(g) PROVE ClIInv'
  <2>1. /\ UNCHANGED <<clStage, clCanceled, clStop, clDials, clReads, clDaemon>>
        /\ clOpen' = clOpen \ {g} /\ clRef' \in {0, clRef} /\ clLoop' \in {clLoop, "idle"}
        /\ clStop # "no" => clLoop' = clLoop
    BY <1>3 DEF ClLost
  <2>2. g = clRef /\ g # 0
    BY <1>c
  <2>3. clRef' \in 0..MaxDials /\ clOpen' \subseteq 1..MaxDials /\ \A h \in clOpen' : FALSE
    BY <1>0, <1>b, <1>c, <2>1, <2>2
  <2>4. clStage \notin {"new", "starting"} /\ clLoop # "dialing"
        /\ clLoop' \in {"none", "idle", "dialing"}
    BY <2>1, <2>2 DEF ClIInv, ClTypeOK
  <2>5. QED
    BY <1>0, <1>b, <2>1, <2>3, <2>4 DEF ClIInv, ClTypeOK
<1>4. CASE ClReadDead
  <2>1. clReads' \in 0..MaxReads
    BY <1>0, <1>b, <1>4 DEF ClReadDead
  <2>2. QED
    BY <1>0, <1>4, <2>1 DEF ClReadDead, ClIInv, ClTypeOK
<1>5. CASE ClDial
  BY <1>0, <1>5 DEF ClDial, ClIInv, ClTypeOK
<1>6. ASSUME NEW ok \in BOOLEAN, ClDialed(ok) PROVE ClIInv'
  <2>1. /\ UNCHANGED <<clStage, clCanceled, clStop, clReads, clDaemon>>
        /\ clLoop = "dialing" /\ clLoop' \in {"none", "idle"}
    BY <1>6 DEF ClDialed
  <2>2. clRef = 0 /\ clDials < MaxDials
    BY <2>1 DEF ClIInv
  <2>3. clStage \notin {"new", "starting"}
    BY <2>1 DEF ClIInv
  <2>4. clRef' \in 0..MaxDials /\ clDials' \in 0..MaxDials /\ clOpen' \subseteq 1..MaxDials
        /\ clOpen' \subseteq {clRef'}
    <3>1. clRef = 0 /\ clDials < MaxDials /\ \A g \in clOpen : FALSE
      BY <1>c, <2>2
    <3>2. CASE ok
      <4>1. clRef' = clDials + 1 /\ clDials' = clDials + 1 /\ clOpen' = clOpen \cup {clDials + 1}
        BY <1>6, <3>2 DEF ClDialed
      <4>2. clDials + 1 \in 1..MaxDials /\ clDials + 1 \in 0..MaxDials
        BY <1>0, <3>1
      <4>3. \A g \in clOpen' : g = clDials + 1
        BY <3>1, <4>1
      <4>4. QED
        BY <4>1, <4>2, <4>3
    <3>3. CASE ~ok
      BY <1>0, <1>b, <1>6, <3>1, <3>3 DEF ClDialed
    <3>4. QED
      BY <3>2, <3>3
  <2>5. clStop = "returned" => ~life.waits
    BY <2>1 DEF ClIInv
  <2>6. QED
    BY <1>0, <2>1, <2>3, <2>4, <2>5 DEF ClIInv, ClTypeOK
<1>7. CASE ClLoopEnds
  BY <1>0, <1>7 DEF ClLoopEnds, ClIInv, ClTypeOK
<1>8. CASE ClStopCancel
  BY <1>0, <1>8 DEF ClStopCancel, ClIInv, ClTypeOK
<1>9. CASE ClStopClose
  <2>1. /\ UNCHANGED <<clStage, clCanceled, clLoop, clDials, clReads>>
        /\ clStop = "canceled" /\ clStop' = "waiting" /\ clDaemon' = FALSE
    BY <1>9 DEF ClStopClose
  <2>2. \/ clOpen' = clOpen \ {clRef} /\ clRef' = 0
        \/ clOpen' = clOpen /\ clRef' = clRef
    BY <1>9 DEF ClStopClose
  <2>3. clOpen' \subseteq {clRef'} /\ clRef' \in 0..MaxDials /\ clOpen' \subseteq 1..MaxDials
        /\ (clRef = 0 => clRef' = 0)
    <3>1. CASE clOpen' = clOpen \ {clRef} /\ clRef' = 0
      <4>1. \A g \in clOpen' : FALSE
        BY <1>c, <3>1
      <4>2. QED
        BY <1>0, <3>1, <4>1
    <3>2. CASE clOpen' = clOpen /\ clRef' = clRef
      BY <1>b, <3>2
    <3>3. QED
      BY <2>2, <3>1, <3>2
  <2>4. QED
    BY <1>0, <1>b, <2>1, <2>3 DEF ClIInv, ClTypeOK
<1>10. CASE ClStopReturn
  BY <1>0, <1>10 DEF ClStopReturn, ClIInv, ClTypeOK
<1>11. CASE UNCHANGED clVars
  BY <1>0, <1>11 DEF clVars, ClIInv, ClTypeOK
<1>12. QED
  BY <1>1, <1>2, <1>3, <1>4, <1>5, <1>6, <1>7, <1>8, <1>9, <1>10, <1>11 DEF ClNext

\* A channel has one connection at a time, however losses, dials and a Stop
\* overlap; no helper process outlives a failed Start or a Stop, no loop the
\* Stop of WhatsApp that waited for it (Start, Stop and the reconnect loops).
THEOREM ConnectionCorrect == ClSpec => []ClInv
<1>1. ClIInv => ClInv
  <2> SUFFICES ASSUME ClIInv PROVE ClInv
    OBVIOUS
  <2>1. Cardinality(clOpen) <= 1
    <3>1. IsFiniteSet({clRef}) /\ Cardinality({clRef}) = 1
      BY FS_Singleton
    <3>2. clOpen \in SUBSET {clRef}
      BY DEF ClIInv
    <3>3. QED
      BY <3>1, <3>2, FS_Subset
  <2>2. QED
    BY <2>1 DEF ClIInv, ClInv, ClTypeOK, OneConnection
<1>2. QED
  BY <1>1, ClInitIInv, ClStepIInv, PTL DEF ClSpec

-----------------------------------------------------------------------------
(***************************************************************************)
(* What the chat adapters send.  AoWithin is how often the attempt under   *)
(* way may have delivered part i: not yet, once per alternative tried, or  *)
(* as often as there are alternatives.                                     *)
(***************************************************************************)
AoAlts == Len(aoMode.calls)
AoPast == aoTry * AoAlts

AoWithin(i) == IF aoResult # "sending" \/ i < aoNext THEN AoAlts
               ELSE IF aoMode.whole \/ i = aoNext THEN aoCall - 1 ELSE 0

AoShape == /\ aoMode \in TextSenders \cup MediaSenders
           /\ aoParts \in Seq(MediaParts \cup {"text"}) /\ Len(aoParts) <= AoMaxParts

AoCounters ==
    /\ aoNext \in 1..(Len(aoParts) + 1) /\ aoCall \in 1..AoAlts
    /\ aoTry \in 0..AoMaxRetries /\ aoGot \in [1..AoMaxParts -> Nat]
    /\ aoResult \in Classified \cup {"sending", "ok", "givenUp"}

\* What has been gone through has arrived, and nothing before what precedes it.
AoArrived ==
    aoMode.acked /\ ~aoMode.skips =>
        /\ \A i \in Carried : i < aoNext => aoGot[i] > 0
        /\ \A i, j \in Carried : i < j /\ aoGot[j] > 0 => aoGot[i] > 0

AoCounted == \A i \in DOMAIN aoParts : aoGot[i] <= AoPast + AoWithin(i)

AoIInv ==
    /\ AoShape /\ AoCounters /\ AoArrived /\ AoCounted
    /\ aoMode.whole => aoNext \in {1, Len(aoParts) + 1}
    /\ aoResult = "ok" => Through

(* What the tables of senders have in common.                                 *)
LEMMA ModesAreKnown ==
    \A m \in TextSenders \cup MediaSenders :
        /\ Len(m.calls) \in {1, 2} /\ m.errors \subseteq Classified
        /\ m.acked /\ m.skips => m = WeComAppMedia
        /\ m.skips => ~m.whole
<1> DEFINE Good(m) == /\ Len(m.calls) \in {1, 2} /\ m.errors \subseteq Classified
                      /\ m.acked /\ m.skips => m = WeComAppMedia
                      /\ m.skips => ~m.whole
<1> SUFFICES \A m \in TextSenders \cup MediaSenders : Good(m)
  OBVIOUS
<1>1. \A c, e : /\ Mode(c, e).calls = c /\ Mode(c, e).errors = e
                /\ ~Mode(c, e).skips
                /\ TextOf(Mode(c, e)).calls = c /\ TextOf(Mode(c, e)).errors = e
                /\ ~TextOf(Mode(c, e)).skips
  BY DEF Mode, TextOf
<1>2. \A c, e : Len(c) \in {1, 2} /\ e \subseteq Classified =>
                  Good(Mode(c, e)) /\ Good(TextOf(Mode(c, e)))
  BY <1>1
<1>3. \A x, y : Len(<<x>>) = 1 /\ Len(<<x, y>>) = 2
  OBVIOUS
<1>4. /\ Good(TelegramText) /\ Good(DiscordText) /\ Good(SlackText) /\ Good(FeishuText)
      /\ Good(LineText) /\ Good(QQText) /\ Good(MatrixText) /\ Good(WeComBotText)
      /\ Good(WeComAppText) /\ Good(SignalText) /\ Good(WhatsAppNativeText) /\ Good(DingTalkText)
      /\ Good(TelegramMedia) /\ Good(SlackMedia) /\ Good(FeishuMedia) /\ Good(MatrixMedia)
  BY <1>2, <1>3 DEF TelegramText, DiscordText, SlackText, FeishuText, LineText, QQText,
     MatrixText, WeComBotText, WeComAppText, SignalText, WhatsAppNativeText, DingTalkText,
     TelegramMedia, SlackMedia, FeishuMedia, MatrixMedia, Classified
<1>5. /\ Good(OneBotText) /\ Good(WhatsAppText) /\ Good(IRCText)
  BY DEF OneBotText, WhatsAppText, IRCText, TextOf, Mode, Classified
<1>6. /\ Good(DiscordMedia) /\ Good(LineMedia) /\ Good(QQMedia) /\ Good(OneBotMedia)
      /\ Good(WeComAppMedia)
  BY DEF DiscordMedia, LineMedia, QQMedia, OneBotMedia, WeComAppMedia, Mode, Classified
<1> HIDE DEF Good
<1>7. \A m \in TextSenders : Good(m)
  BY <1>4, <1>5 DEF TextSenders
<1>8. \A m \in MediaSenders : Good(m)
  BY <1>4, <1>6 DEF MediaSenders
<1>9. QED
  BY <1>7, <1>8

(* A message has one way to be sent, or two.                                  *)
LEMMA AltsAreFew == AoShape => AoAlts \in Nat /\ AoAlts >= 1
<1> SUFFICES ASSUME AoShape PROVE Len(aoMode.calls) \in Nat /\ Len(aoMode.calls) >= 1
  BY DEF AoAlts
<1>1. Len(aoMode.calls) \in {1, 2}
  BY ModesAreKnown DEF AoShape
<1>2. QED
  BY <1>1

(* The inductive invariant holds at first.                                    *)
LEMMA AoInitIInv == AoInit => AoIInv
<1> SUFFICES ASSUME AoInit PROVE AoIInv
  OBVIOUS
<1>1. PICK n \in 1..AoMaxParts : aoParts \in [1..n -> MediaParts \cup {"text"}]
  BY DEF AoInit, MessagesOf
<1>2. AoShape
  BY <1>1, AoAssumption DEF AoInit, AoShape
<1>3. AoAlts \in Nat /\ AoAlts >= 1 /\ Len(aoParts) \in Nat
  BY <1>2, AltsAreFew DEF AoShape
<1>4. AoCounters
  <2>1. aoNext \in 1..(Len(aoParts) + 1) /\ aoTry \in 0..AoMaxRetries
    BY <1>3, AoAssumption DEF AoInit
  <2>2. aoCall \in 1..AoAlts
    BY <1>3 DEF AoInit
  <2>3. aoGot \in [1..AoMaxParts -> Nat] /\ aoResult = "sending"
    BY DEF AoInit
  <2>4. QED
    BY <2>1, <2>2, <2>3 DEF AoCounters
<1>5. \A i \in DOMAIN aoParts : i \in 1..AoMaxParts /\ aoGot[i] = 0
  BY <1>2, AoAssumption DEF AoInit, AoShape
<1>6. AoArrived
  BY <1>5 DEF AoInit, AoArrived, Carried, Resolved
<1>8. AoCounted
  <2> SUFFICES ASSUME NEW i \in DOMAIN aoParts
               PROVE aoGot[i] <= AoPast + AoWithin(i)
    BY DEF AoCounted
  <2>1. aoGot[i] = 0 /\ aoTry = 0 /\ AoWithin(i) \in Nat
    BY <1>3, <1>5 DEF AoInit, AoWithin
  <2>2. AoPast = 0
    BY <1>3, <2>1 DEF AoPast
  <2>3. QED
    BY <2>1, <2>2
<1>9. QED
  BY <1>2, <1>4, <1>6, <1>8 DEF AoInit, AoIInv

(* Every step preserves it.                                                   *)
LEMMA AoStepIInv == AoIInv /\ [AoNextStep]_aoVars => AoIInv'
<1> SUFFICES ASSUME AoIInv, [AoNextStep]_aoVars PROVE AoIInv'
  OBVIOUS
<1>a. aoMode' = aoMode /\ aoParts' = aoParts
  BY DEF AoNextStep, AoSkip, AoReturn, AoAgain, AoSend, AoUnable, aoVars
<1>b. /\ AoShape' /\ Carried' = Carried /\ Resolved' = Resolved
      /\ Carried \subseteq Resolved /\ Resolved \subseteq DOMAIN aoParts
  BY <1>a DEF AoIInv, AoShape, Carried, Resolved
<1>c. /\ AoAlts \in Nat /\ AoAlts >= 1 /\ AoAlts' = AoAlts
      /\ aoMode.errors \subseteq Classified
      /\ Len(aoParts) \in Nat /\ DOMAIN aoParts = 1..Len(aoParts)
      /\ Len(aoParts) <= AoMaxParts /\ AoMaxParts \in Nat /\ AoMaxRetries \in Nat
  <2>1. AoAlts' = AoAlts
    BY <1>a DEF AoAlts
  <2>2. aoMode.errors \subseteq Classified
    BY ModesAreKnown DEF AoIInv, AoShape
  <2>3. QED
    BY <2>1, <2>2, AltsAreFew, AoAssumption DEF AoIInv, AoShape
<1>d. /\ aoNext \in Nat /\ aoNext >= 1 /\ aoNext <= Len(aoParts) + 1
      /\ aoCall \in Nat /\ aoCall >= 1 /\ aoCall <= AoAlts
      /\ aoTry \in Nat /\ aoTry <= AoMaxRetries
  <2>1. AoCounters
    BY DEF AoIInv
  <2>2. aoTry \in Nat /\ aoTry <= AoMaxRetries
    BY <1>c, <2>1 DEF AoCounters
  <2>3. aoNext \in Nat /\ aoNext >= 1 /\ aoNext <= Len(aoParts) + 1
    BY <1>c, <2>1 DEF AoCounters
  <2>4. aoCall \in Nat /\ aoCall >= 1 /\ aoCall <= AoAlts
    BY <1>c, <2>1 DEF AoCounters
  <2>5. QED
    BY <2>2, <2>3, <2>4
<1>f. aoMode.skips => ~aoMode.whole
  BY ModesAreKnown DEF AoIInv, AoShape
<1>p. AoPast \in Nat
  BY <1>c, <1>d DEF AoPast
<1>e. \A i \in DOMAIN aoParts :
        /\ i \in Nat /\ i >= 1 /\ i <= Len(aoParts) /\ aoGot[i] \in Nat
        /\ aoGot[i] <= AoPast + AoWithin(i)
  BY <1>c DEF AoIInv, AoCounters, AoCounted
\* The steps that deliver nothing and go on from aoNext.
<1>1. ASSUME UNCHANGED <<aoGot, aoTry>>, aoNext' \in Nat, aoNext' >= aoNext,
             aoCall' = aoCall, aoNext' <= Len(aoParts) + 1,
             \A i \in Carried : i < aoNext' => i < aoNext,
             \/ aoResult' = "sending" /\ aoNext' = aoNext + 1
             \/ aoResult' # "sending" /\ aoNext' = aoNext,
             aoResult = "sending" \/ aoResult' = "givenUp",
             aoResult' \in Classified \cup {"sending", "ok", "givenUp"},
             aoMode.whole => aoNext' = aoNext, aoResult' = "ok" => Through
      PROVE AoIInv'
  <2>1. AoCounters'
    BY <1>1, <1>a, <1>c, <1>d DEF AoIInv, AoCounters
  <2>2. AoArrived'
    BY <1>1, <1>a, <1>b DEF AoIInv, AoArrived
  <2>3. ASSUME NEW i \in DOMAIN aoParts PROVE AoWithin(i) \in Nat /\ AoWithin(i)' >= AoWithin(i)
    BY <1>1, <1>a, <1>c, <1>d, <1>e DEF AoWithin
  <2>4. AoCounted'
    <3>1. AoPast' = AoPast
      BY <1>1, <1>c DEF AoPast
    <3>2. \A i \in DOMAIN aoParts : aoGot'[i] <= AoPast + AoWithin(i)'
      <4> SUFFICES ASSUME NEW i \in DOMAIN aoParts PROVE aoGot'[i] <= AoPast + AoWithin(i)'
        OBVIOUS
      <4>1. aoGot'[i] = aoGot[i] /\ aoGot[i] \in Nat /\ aoGot[i] <= AoPast + AoWithin(i)
        BY <1>1, <1>e
      <4>2. AoWithin(i) \in Nat /\ AoWithin(i)' \in Nat /\ AoWithin(i)' >= AoWithin(i)
        BY <2>3, <1>1, <1>a, <1>c, <1>d, <1>e DEF AoWithin
      <4>3. QED
        BY <1>p, <4>1, <4>2
    <3>3. QED
      BY <1>a, <3>1, <3>2 DEF AoCounted
  <2>5. aoMode'.whole => aoNext' \in {1, Len(aoParts') + 1}
    BY <1>1, <1>a DEF AoIInv
  <2>6. aoResult' = "ok" => Through'
    BY <1>1, <1>a, <1>b DEF Through
  <2>7. QED
    BY <1>b, <2>1, <2>2, <2>4, <2>5, <2>6 DEF AoIInv
<1>2. CASE AoSkip
  <2>1. /\ UNCHANGED <<aoGot, aoTry, aoResult, aoCall>> /\ aoNext' = aoNext + 1
        /\ aoResult = "sending" /\ ~aoMode.whole /\ aoNext \notin Resolved /\ ~Through
    BY <1>2 DEF AoSkip
  <2>2. aoNext <= Len(aoParts)
    BY <1>c, <1>d, <2>1 DEF Through
  <2>3. \A i \in Carried : i < aoNext' => i < aoNext
    BY <1>b, <1>d, <1>e, <2>1
  <2>4. QED
    BY <1>1, <1>c, <1>d, <2>1, <2>2, <2>3
<1>3. CASE AoReturn
  BY <1>1, <1>3, <1>d DEF AoReturn
<1>4. ASSUME NEW class \in Classified, AoUnable(class) PROVE AoIInv'
  BY <1>1, <1>4, <1>d DEF AoUnable, Classified
<1>5. CASE AoAgain
  <2>1. CASE aoResult = "permanent" \/ aoTry = AoMaxRetries
    BY <1>1, <1>5, <2>1, <1>d DEF AoAgain, Classified
  <2>2. CASE ~(aoResult = "permanent" \/ aoTry = AoMaxRetries)
    <3>1. /\ aoGot' = aoGot /\ aoNext' = 1 /\ aoCall' = 1 /\ aoTry' = aoTry + 1
          /\ aoResult' = "sending" /\ aoResult # "sending"
      BY <1>5, <2>2 DEF AoAgain, Classified
    <3>2. aoTry + 1 \in 0..AoMaxRetries
      BY <1>c, <1>d, <2>2
    <3>3. AoCounters'
      BY <1>a, <1>c, <3>1, <3>2 DEF AoIInv, AoCounters
    <3>4. AoArrived'
      BY <1>a, <1>b, <1>e, <3>1 DEF AoIInv, AoArrived
    <3>5. AoCounted'
      <4>1. AoPast' = AoPast + AoAlts
        BY <1>c, <1>d, <3>1 DEF AoPast
      <4>2. \A i \in DOMAIN aoParts : AoWithin(i)' \in Nat /\ AoWithin(i) = AoAlts
        BY <1>a, <1>c, <1>e, <3>1 DEF AoWithin
      <4>3. \A i \in DOMAIN aoParts : aoGot'[i] <= AoPast' + AoWithin(i)'
        BY <1>c, <1>e, <1>p, <3>1, <4>1, <4>2
      <4>4. QED
        BY <1>a, <4>3 DEF AoCounted
    <3>6. QED
      BY <1>a, <1>b, <3>1, <3>3, <3>4, <3>5 DEF AoIInv
  <2>3. QED
    BY <2>1, <2>2
<1>6. ASSUME NEW arrives \in BOOLEAN, NEW known \in BOOLEAN, AoSend(arrives, known) PROVE AoIInv'
  <2>1. /\ aoResult = "sending" /\ ~Through /\ InCall \subseteq Resolved
        /\ aoTry' = aoTry /\ DOMAIN aoGot = 1..AoMaxParts
    BY <1>6 DEF AoSend, AoIInv, AoCounters
  <2>2. \A i \in DOMAIN aoParts :
          \/ aoGot'[i] = aoGot[i]
          \/ aoGot'[i] = aoGot[i] + 1 /\ i \in InCall
    BY <1>6, <1>c, <1>e, <2>1 DEF AoSend
  <2>3. /\ \A i \in DOMAIN aoParts : aoGot'[i] \in Nat /\ aoGot'[i] >= aoGot[i]
        /\ aoGot' \in [1..AoMaxParts -> Nat]
    <3>1. \A i \in 1..AoMaxParts : aoGot[i] \in Nat /\ aoGot[i] + 1 \in Nat
      BY DEF AoIInv, AoCounters
    <3>2. aoGot' \in [1..AoMaxParts -> Nat]
      BY <1>6, <2>1, <3>1 DEF AoSend
    <3>3. QED
      BY <1>e, <2>2, <3>2
  <2>4. aoNext <= Len(aoParts) /\ (aoMode.whole => aoNext = 1)
    BY <1>c, <1>d, <2>1 DEF Through, AoIInv
  <2>5. \/ /\ aoResult' = "sending" /\ aoCall' = 1
           /\ aoNext' = (IF aoMode.whole THEN Len(aoParts) ELSE aoNext) + 1
           /\ aoMode.acked => arrives
        \/ aoResult' = "sending" /\ aoNext' = aoNext /\ aoCall' = aoCall + 1
           /\ aoCall < AoAlts
        \/ aoResult' = "sending" /\ aoNext' = aoNext + 1 /\ aoCall' = 1
           /\ aoMode.acked /\ aoMode.skips /\ ~aoMode.whole
        \/ aoResult' \in Classified /\ aoNext' = aoNext /\ aoCall' = aoCall
    <3>1. CASE (arrives /\ known) \/ ~aoMode.acked
      BY <1>6, <2>1, <3>1 DEF AoSend
    <3>2. CASE ~((arrives /\ known) \/ ~aoMode.acked) /\ aoCall < AoAlts
      BY <1>6, <2>1, <3>2 DEF AoSend, AoAlts
    <3>3. CASE ~((arrives /\ known) \/ ~aoMode.acked) /\ ~(aoCall < AoAlts)
      BY <1>6, <1>c, <1>f, <2>1, <3>3 DEF AoSend, AoAlts
    <3>4. QED
      BY <3>1, <3>2, <3>3
  <2>6. AoCounters'
    BY <1>a, <1>c, <1>d, <2>1, <2>3, <2>4, <2>5 DEF AoCounters
  <2>7. AoCounted'
    <3>1. AoPast' = AoPast
      BY <1>c, <2>1 DEF AoPast
    <3> SUFFICES ASSUME NEW i \in DOMAIN aoParts PROVE aoGot'[i] <= AoPast + AoWithin(i)'
      BY <1>a, <3>1 DEF AoCounted
    <3>2. i \in Nat /\ aoGot[i] \in Nat /\ aoGot'[i] \in Nat /\ aoGot[i] <= AoPast + AoWithin(i)
      BY <1>e, <2>3
    <3>3. CASE i < aoNext
      <4>1. i \notin InCall /\ ~aoMode.whole
        BY <1>d, <1>e, <2>4, <3>2, <3>3 DEF InCall
      <4>2. AoWithin(i) = AoAlts /\ AoWithin(i)' = AoAlts
        BY <1>c, <1>d, <2>5, <3>2, <3>3, <4>1 DEF AoWithin
      <4>3. QED
        BY <2>2, <3>2, <4>1, <4>2
    <3>4. CASE ~(i < aoNext) /\ (aoMode.whole \/ i = aoNext)
      <4>1. AoWithin(i) = aoCall - 1
        BY <2>1, <3>4 DEF AoWithin
      <4>2. AoWithin(i)' \in Nat /\ AoWithin(i)' >= aoCall
        <5>1. CASE aoResult' \in Classified
          BY <1>c, <1>d, <5>1 DEF AoWithin, Classified
        <5>2. CASE aoNext' = aoNext /\ aoCall' = aoCall + 1
          BY <1>a, <1>c, <1>d, <3>4, <5>2 DEF AoWithin
        <5>3. CASE aoNext' = (IF aoMode.whole THEN Len(aoParts) ELSE aoNext) + 1
          BY <1>a, <1>c, <1>d, <1>e, <2>4, <3>2, <3>4, <5>3 DEF AoWithin
        <5>4. CASE ~aoMode.whole /\ aoNext' = aoNext + 1
          BY <1>a, <1>c, <1>d, <1>e, <2>4, <3>2, <3>4, <5>4 DEF AoWithin
        <5>5. QED
          BY <2>5, <5>1, <5>2, <5>3, <5>4
      <4>3. QED
        BY <1>d, <1>p, <2>2, <3>2, <4>1, <4>2
    <3>5. CASE ~(i < aoNext) /\ ~(aoMode.whole \/ i = aoNext)
      <4>1. AoWithin(i) = 0 /\ i \notin InCall
        BY <2>1, <3>5 DEF AoWithin, InCall
      <4>2. AoWithin(i)' \in Nat
        BY <1>a, <1>c, <1>d, <2>5, <3>5 DEF AoWithin
      <4>3. QED
        BY <1>p, <2>2, <3>2, <4>1, <4>2
    <3>6. QED
      BY <3>3, <3>4, <3>5
  <2>8. AoArrived'
    <3> SUFFICES ASSUME aoMode.acked, ~aoMode.skips
                 PROVE /\ \A i \in Carried : i < aoNext' => aoGot'[i] > 0
                       /\ \A i, j \in Carried : i < j /\ aoGot'[j] > 0 => aoGot'[i] > 0
      BY <1>a, <1>b DEF AoArrived
    <3>1. /\ \A i \in Carried : i < aoNext => aoGot[i] > 0
          /\ \A i, j \in Carried : i < j /\ aoGot[j] > 0 => aoGot[i] > 0
      BY DEF AoIInv, AoArrived
    <3>2. ASSUME NEW i \in Carried, i \in InCall, arrives PROVE aoGot'[i] > 0
      BY <1>6, <1>b, <1>c, <1>e, <2>1, <3>2 DEF AoSend, Carried
    <3>3. ASSUME NEW i \in Carried, i < aoNext' PROVE aoGot'[i] > 0
      <4>1. i \in Nat /\ i \in Resolved /\ i <= Len(aoParts) /\ aoGot'[i] >= aoGot[i]
            /\ aoGot[i] \in Nat /\ aoGot'[i] \in Nat /\ i >= 1
        BY <1>b, <1>e, <2>3
      <4>2. CASE i < aoNext
        BY <3>1, <4>1, <4>2
      <4>3. CASE ~(i < aoNext)
        <5>1. arrives /\ aoNext' = (IF aoMode.whole THEN Len(aoParts) ELSE aoNext) + 1
          BY <1>d, <2>5, <3>3, <4>1, <4>3
        <5>2. i \in InCall
          BY <1>d, <3>3, <4>1, <4>3, <5>1 DEF InCall
        <5>3. QED
          BY <3>2, <5>1, <5>2
      <4>4. QED
        BY <4>2, <4>3
    <3>4. ASSUME NEW i \in Carried, NEW j \in Carried, i < j, aoGot'[j] > 0 PROVE aoGot'[i] > 0
      <4>1. /\ i \in Nat /\ j \in Nat /\ aoGot'[i] >= aoGot[i] /\ i \in Resolved
            /\ aoGot[i] \in Nat /\ aoGot'[i] \in Nat /\ aoGot[j] \in Nat
        BY <1>b, <1>e, <2>3
      <4>2. CASE aoGot[j] > 0
        BY <3>1, <3>4, <4>1, <4>2
      <4>3. CASE ~(aoGot[j] > 0)
        <5>1. arrives /\ j \in InCall
          BY <1>6, <1>b, <1>c, <1>e, <2>1, <3>4, <4>1, <4>3 DEF AoSend
        <5>2. CASE aoMode.whole
          BY <3>2, <4>1, <5>1, <5>2 DEF InCall
        <5>3. CASE ~aoMode.whole
          <6>1. i < aoNext
            BY <3>4, <5>1, <5>3 DEF InCall
          <6>2. QED
            BY <3>1, <4>1, <6>1
        <5>4. QED
          BY <5>2, <5>3
      <4>4. QED
        BY <4>2, <4>3
    <3>5. QED
      BY <3>3, <3>4
  <2>9. QED
    <3>1. aoMode.whole => aoNext' \in {1, Len(aoParts) + 1}
      BY <1>d, <2>4, <2>5
    <3>2. aoResult' # "ok"
      BY <2>5 DEF Classified
    <3>3. QED
      BY <1>a, <1>b, <2>6, <2>7, <2>8, <3>1, <3>2 DEF AoIInv
<1>7. CASE UNCHANGED aoVars
  <2>1. UNCHANGED <<aoMode, aoParts, aoNext, aoCall, aoTry, aoGot, aoResult>>
    BY <1>7 DEF aoVars
  <2>2. AoCounters' /\ AoArrived' /\ Through' = Through
    BY <1>b, <1>c, <2>1 DEF AoIInv, AoCounters, AoArrived, Through
  <2>3. AoPast' = AoPast /\ \A i \in DOMAIN aoParts : AoWithin(i)' = AoWithin(i)
    BY <1>c, <2>1 DEF AoPast, AoWithin
  <2>4. AoCounted'
    BY <1>e, <2>1, <2>3 DEF AoCounted
  <2>5. QED
    BY <1>b, <2>1, <2>2, <2>4 DEF AoIInv
<1>8. QED
  BY <1>2, <1>3, <1>4, <1>5, <1>6, <1>7 DEF AoNextStep

\* A Send that succeeds has delivered what it transports, in order, and no part
\* arrives more often than the attempts allow, for messages of any number of
\* parts and any number of retries (the Send of 24 adapters, sendWithRetry).
THEOREM OutboundCorrect == AoSpec => []AoInv
<1>1. AoIInv => AoInv
  <2> SUFFICES ASSUME AoIInv PROVE AoInv
    OBVIOUS
  <2>1. /\ AoAlts \in Nat /\ AoAlts >= 1 /\ Len(aoParts) \in Nat /\ Len(aoParts) <= AoMaxParts
        /\ DOMAIN aoParts = 1..Len(aoParts) /\ AoMaxParts \in Nat /\ AoMaxRetries \in Nat
    BY AltsAreFew, AoAssumption DEF AoIInv, AoShape
  <2>2. aoNext \in 1..(Len(aoParts) + 1) /\ aoCall \in 1..AoAlts /\ aoTry \in 0..AoMaxRetries
        /\ aoGot \in [1..AoMaxParts -> Nat]
    BY DEF AoIInv, AoCounters
  <2>3. AoTypeOK
    <3>1. aoNext \in 1..(AoMaxParts + 1) /\ aoCall \in 1..Len(aoMode.calls)
      BY <2>1, <2>2 DEF AoAlts
    <3>2. QED
      BY <2>2, <3>1 DEF AoIInv, AoShape, AoCounters, AoTypeOK
  <2>4. SuccessIsDelivered
    <3> SUFFICES ASSUME aoMode.acked, aoMode # WeComAppMedia
                 PROVE /\ aoResult = "ok" => \A i \in Carried : aoGot[i] > 0
                       /\ \A i, j \in Carried : i < j /\ aoGot[j] > 0 => aoGot[i] > 0
      BY DEF SuccessIsDelivered
    <3>1. ~aoMode.skips
      BY ModesAreKnown DEF AoIInv, AoShape
    <3>2. \A i \in Carried : i \in Resolved /\ i \in Nat /\ i <= Len(aoParts)
      BY <2>1 DEF Carried, Resolved
    <3>3. aoResult = "ok" => \A i \in Carried : i < aoNext
      BY <2>1, <2>2, <3>2 DEF AoIInv, Through
    <3>4. QED
      BY <3>1, <3>3 DEF AoIInv, AoArrived
  <2>5. RepeatsAreBounded
    <3> SUFFICES ASSUME NEW i \in DOMAIN aoParts PROVE aoGot[i] <= (aoTry + 1) * AoAlts
      BY DEF RepeatsAreBounded, AoAlts
    <3>1. aoGot[i] \in Nat /\ aoGot[i] <= AoPast + AoWithin(i)
      BY <2>1, <2>2 DEF AoIInv, AoCounted
    <3>2. AoWithin(i) \in Nat /\ AoWithin(i) <= AoAlts
      BY <2>1, <2>2 DEF AoWithin, AoAlts
    <3>3. AoPast \in Nat /\ (aoTry + 1) * AoAlts = AoPast + AoAlts
      BY <2>1, <2>2 DEF AoPast
    <3>4. QED
      BY <2>1, <3>1, <3>2, <3>3
  <2>6. QED
    BY <2>3, <2>4, <2>5 DEF AoInv
<1>2. QED
  BY <1>1, AoInitIInv, AoStepIInv, PTL DEF AoSpec

-----------------------------------------------------------------------------
(***************************************************************************)
(* The channel manager.  A message that was taken stays in its lane, behind *)
(* those taken before it: what the service accepted, what the worker sends, *)
(* what is queued and what the dispatcher holds were taken in this order.   *)
(***************************************************************************)
(* A sender's messages; those taken, in their order; the steps of a send.     *)
MsgsOf(s) == IF s = "text" THEN TextMsgs ELSE IF s = "media" THEN MediaMsgs ELSE DirectMsgs
TakenMsgs == Range(chTaken)
TakenBefore == {p \in TakenMsgs \X TakenMsgs :
                  \E x, y \in DOMAIN chTaken : x < y /\ p = <<chTaken[x], chTaken[y]>>}
Taken(m) == m \in TakenMsgs
Before(m, n) == <<m, n>> \in TakenBefore
Sending == {"limit", "presend", "send", "backoff"}

(* Each lane handles its own messages, and its steps have what they work on.  *)
CmTypes ==
    /\ CmTypeOK
    /\ \A l \in Lanes : /\ chDisp[l].msg \in MsgsOf(l) \cup {NoChMsg}
                        /\ chDisp[l].pc = "receive" => chDisp[l].msg = NoChMsg
                        /\ chDisp[l].pc \in {"lookup", "enqueue"} => chDisp[l].msg # NoChMsg
    /\ \A s \in Senders :
         /\ chSend[s].msg \in MsgsOf(s) \cup {NoChMsg}
         /\ chSend[s].pc \in Sending <=> chSend[s].msg # NoChMsg
         /\ chSend[s].pc \in Sending => chSend[s].chunk \in 1..NumChunks(chSend[s].msg)
         /\ chSend[s].pc = "backoff" => chSend[s].try < MaxRetries

(* What is on the bus was not taken; what is anywhere else was, and once.     *)
PlacesOK ==
    /\ \A x, y \in DOMAIN chTaken : chTaken[x] = chTaken[y] => x = y
    /\ \A l \in Lanes :
         /\ \A i \in DOMAIN chBus[l] : chBus[l][i] \in MsgsOf(l) /\ ~Taken(chBus[l][i])
         /\ \A i, j \in DOMAIN chBus[l] : chBus[l][i] = chBus[l][j] => i = j
         /\ \A i \in DOMAIN chQueue[l] : chQueue[l][i] \in MsgsOf(l) /\ Taken(chQueue[l][i])
         /\ chDisp[l].msg # NoChMsg => Taken(chDisp[l].msg)
    /\ \A s \in Senders : chSend[s].msg # NoChMsg => Taken(chSend[s].msg)
    /\ \A x \in DOMAIN chOut : Taken(chOut[x][1])
    /\ \A f \in chFailed : Taken(f[1])

(* In lane l, what is further on its way was taken before what is behind it.  *)
InOrder(l) ==
    /\ \A i, j \in DOMAIN chQueue[l] : i < j => Before(chQueue[l][i], chQueue[l][j])
    /\ chDisp[l].msg # NoChMsg =>
         \A i \in DOMAIN chQueue[l] : Before(chQueue[l][i], chDisp[l].msg)
    /\ chSend[l].msg # NoChMsg =>
         /\ \A i \in DOMAIN chQueue[l] : Before(chSend[l].msg, chQueue[l][i])
         /\ chDisp[l].msg # NoChMsg => Before(chSend[l].msg, chDisp[l].msg)
    /\ \A x \in DOMAIN chOut : chOut[x][1] \in MsgsOf(l) =>
         /\ \A i \in DOMAIN chQueue[l] : Before(chOut[x][1], chQueue[l][i])
         /\ chDisp[l].msg # NoChMsg => Before(chOut[x][1], chDisp[l].msg)
         /\ chSend[l].msg # NoChMsg =>
              \/ chOut[x][1] = chSend[l].msg /\ chOut[x][2] < chSend[l].chunk
              \/ Before(chOut[x][1], chSend[l].msg)
    /\ \A x, y \in DOMAIN chOut :
         x < y /\ chOut[x][1] \in MsgsOf(l) /\ chOut[y][1] \in MsgsOf(l) =>
           \/ chOut[x][1] = chOut[y][1] /\ chOut[x][2] < chOut[y][2]
           \/ Before(chOut[x][1], chOut[y][1])

OrderOK == \A l \in Lanes : InOrder(l)

OutChunks == Range(chOut)
IsOut(c) == c \in OutChunks

(* A chunk of a message that was taken is in one of the three states.         *)
OnceOK ==
    chStop = "running" =>
      /\ \A x, y \in DOMAIN chOut : chOut[x] = chOut[y] => x = y
      /\ \A m \in ChMsgs : Taken(m) => \A k \in 1..NumChunks(m) :
           /\ IsOut(<<m, k>>) \/ <<m, k>> \in chFailed \/ Held(m, k)
           /\ ~(IsOut(<<m, k>>) /\ <<m, k>> \in chFailed)
           /\ ~(IsOut(<<m, k>>) /\ Held(m, k))
           /\ ~(<<m, k>> \in chFailed /\ Held(m, k))

CmIInv == CmTypes /\ PlacesOK /\ OrderOK /\ OnceOK

(* What appending does to a sequence, element by element.                     *)
LEMMA Appended ==
    ASSUME NEW S, NEW seq \in Seq(S), NEW e \in S, NEW new, new = Append(seq, e)
    PROVE  /\ new \in Seq(S) /\ Len(seq) \in Nat /\ Len(new) = Len(seq) + 1
           /\ DOMAIN seq = 1..Len(seq) /\ DOMAIN new = 1..(Len(seq) + 1)
           /\ \A i \in DOMAIN seq : new[i] = seq[i]
           /\ new[Len(seq) + 1] = e
BY AppendProperties, LenProperties

(* What taking the head off a sequence does, element by element.              *)
LEMMA Beheaded ==
    ASSUME NEW S, NEW seq \in Seq(S), seq # <<>>, NEW new, new = Tail(seq)
    PROVE  /\ new \in Seq(S) /\ Len(seq) \in Nat \ {0} /\ Len(new) = Len(seq) - 1
           /\ DOMAIN seq = 1..Len(seq) /\ DOMAIN new = 1..(Len(seq) - 1)
           /\ \A i \in DOMAIN new : new[i] = seq[i + 1]
           /\ Head(seq) = seq[1] /\ Head(seq) \in S
<1>1. /\ new \in Seq(S) /\ Len(new) = Len(seq) - 1 /\ Head(seq) \in S
      /\ \A i \in 1..Len(new) : new[i] = seq[i + 1]
  BY HeadTailProperties
<1>2. Len(seq) \in Nat \ {0} /\ DOMAIN seq = 1..Len(seq)
  BY EmptySeq, LenProperties
<1>3. DOMAIN new = 1..(Len(seq) - 1)
  BY <1>1, LenProperties
<1>4. Head(seq) = seq[1]
  BY <1>2
<1>5. QED
  BY <1>1, <1>2, <1>3, <1>4

(* The messages taken, and which of them were taken before which.             *)
LEMMA TakenIs ==
    /\ \A m : Taken(m) <=> \E x \in DOMAIN chTaken : chTaken[x] = m
    /\ \A a, b : Before(a, b) <=>
         \E x, y \in DOMAIN chTaken : x < y /\ chTaken[x] = a /\ chTaken[y] = b
<1>1. \A m : Taken(m) <=> \E x \in DOMAIN chTaken : chTaken[x] = m
  BY DEF Taken, TakenMsgs, Range
<1>2. \A x \in DOMAIN chTaken : chTaken[x] \in TakenMsgs
  BY DEF TakenMsgs, Range
<1>3. ASSUME NEW a, NEW b
      PROVE  Before(a, b) <=>
               \E x, y \in DOMAIN chTaken : x < y /\ chTaken[x] = a /\ chTaken[y] = b
  BY <1>2 DEF Before, TakenBefore
<1>4. QED
  BY <1>1, <1>3

(* A message that was taken is taken once, and no message is before itself.   *)
LEMMA BeforeIsStrict ==
    ASSUME PlacesOK, chTaken \in Seq(ChMsgs)
    PROVE  \A m : ~Before(m, m)
<1>1. DOMAIN chTaken = 1..Len(chTaken) /\ Len(chTaken) \in Nat
  BY LenProperties
<1>2. QED
  BY <1>1, TakenIs DEF PlacesOK

(* What taking a message changes: it is after every other one.                *)
LEMMA TakenGrows ==
    ASSUME PlacesOK, chTaken \in Seq(ChMsgs), NEW m \in ChMsgs, ~Taken(m),
           chTaken' = Append(chTaken, m)
    PROVE  /\ chTaken' \in Seq(ChMsgs)
           /\ \A x, y \in DOMAIN chTaken' : chTaken'[x] = chTaken'[y] => x = y
           /\ TakenMsgs' = TakenMsgs \cup {m}
           /\ TakenBefore \subseteq TakenBefore'
           /\ \A a \in TakenMsgs : <<a, m>> \in TakenBefore'
<1> DEFINE new == chTaken'
           last == Len(chTaken) + 1
<1>1. /\ new \in Seq(ChMsgs) /\ Len(chTaken) \in Nat
      /\ DOMAIN chTaken = 1..Len(chTaken) /\ DOMAIN new = 1..(Len(chTaken) + 1)
      /\ \A i \in DOMAIN chTaken : new[i] = chTaken[i]
      /\ new[Len(chTaken) + 1] = m
  BY Appended
<1>2. /\ DOMAIN new = DOMAIN chTaken \cup {last} /\ last \notin DOMAIN chTaken
      /\ \A i \in DOMAIN chTaken : i < last
  BY <1>1
<1>3. last \in DOMAIN new /\ new[last] = m
  BY <1>1
<1>4. \A x, y \in DOMAIN chTaken : chTaken[x] = chTaken[y] => x = y
  BY DEF PlacesOK
<1>5. \A x \in DOMAIN chTaken : chTaken[x] # m
  BY DEF Taken, TakenMsgs, Range
<1>6. \A x, y \in DOMAIN new : new[x] = new[y] => x = y
  BY <1>1, <1>2, <1>3, <1>4, <1>5
<1>7. TakenMsgs' = TakenMsgs \cup {m}
  BY <1>1, <1>2, <1>3 DEF TakenMsgs, Range
<1>8. ASSUME NEW p \in TakenBefore PROVE p \in TakenBefore'
  <2>1. PICK x, y \in DOMAIN chTaken : x < y /\ p = <<chTaken[x], chTaken[y]>>
    BY DEF TakenBefore
  <2>2. p \in TakenMsgs \X TakenMsgs
    BY DEF TakenBefore
  <2>3. x \in DOMAIN new /\ y \in DOMAIN new /\ p = <<new[x], new[y]>>
    BY <2>1, <1>1, <1>2
  <2>4. p \in TakenMsgs' \X TakenMsgs'
    BY <2>2, <1>7
  <2>5. QED
    BY <2>1, <2>3, <2>4 DEF TakenBefore
<1>9. ASSUME NEW a \in TakenMsgs PROVE <<a, m>> \in TakenBefore'
  <2>1. PICK x \in DOMAIN chTaken : chTaken[x] = a
    BY DEF TakenMsgs, Range
  <2>2. x \in DOMAIN new /\ x < last /\ <<a, m>> = <<new[x], new[last]>>
    BY <2>1, <1>1, <1>2, <1>3
  <2>3. QED
    BY <2>2, <1>3, <1>7 DEF TakenBefore
<1>10. QED
  BY <1>1, <1>6, <1>7, <1>8, <1>9

(* A step that moves no message keeps every message in its place.             *)
LEMMA NothingMoves ==
    ASSUME PlacesOK, OrderOK, OnceOK,
           UNCHANGED <<chBus, chQueue, chTaken, chOut, chFailed>>,
           chStop' = "running" => chStop = "running",
           \A l \in Lanes : chDisp'[l].msg = chDisp[l].msg,
           \A s \in Senders : /\ chSend'[s].msg = chSend[s].msg
                              /\ chSend'[s].chunk = chSend[s].chunk
    PROVE  PlacesOK' /\ OrderOK' /\ OnceOK'
<1> Lanes \subseteq Senders
  BY DEF Senders
<1>1. UNCHANGED <<TakenMsgs, TakenBefore, OutChunks>>
  BY DEF TakenMsgs, TakenBefore, OutChunks
<1>2. \A m, k : Held(m, k)' <=> Held(m, k)
  BY DEF Held
<1> USE DEF Taken, Before, IsOut
<1>3. PlacesOK'
  BY <1>1 DEF PlacesOK
<1>4. OrderOK'
  BY <1>1 DEF OrderOK, InOrder
<1>5. OnceOK'
  BY <1>1, <1>2 DEF OnceOK
<1>6. QED
  BY <1>3, <1>4, <1>5

(* The dispatcher of lane l takes the message m from the bus.                 *)
LEMMA MessageReceived ==
    ASSUME CmTypes, PlacesOK, OrderOK, OnceOK, NEW l \in Lanes, CmReceive(l)
    PROVE  PlacesOK' /\ OrderOK' /\ OnceOK'
<1> USE DEF Taken, Before, IsOut
<1> DEFINE m == Head(chBus[l])
<1>1. chBus[l] \in Seq(ChMsgs) /\ chBus[l] # <<>> /\ chTaken \in Seq(ChMsgs)
  BY DEF CmTypes, CmTypeOK, CmReceive
<1> DEFINE rest == Tail(chBus[l])
<1>2. /\ m \in ChMsgs /\ m = chBus[l][1] /\ 1 \in DOMAIN chBus[l]
      /\ Len(chBus[l]) \in Nat \ {0}
      /\ DOMAIN chBus[l] = 1..Len(chBus[l]) /\ DOMAIN rest = 1..(Len(chBus[l]) - 1)
      /\ \A i \in DOMAIN rest : rest[i] = chBus[l][i + 1]
  <2> DEFINE b == chBus[l]
             t == Tail(b)
  <2>1. b \in Seq(ChMsgs) /\ b # <<>> /\ t = Tail(b)
    BY <1>1
  <2> HIDE DEF t
  <2>2. /\ Len(b) \in Nat \ {0} /\ DOMAIN b = 1..Len(b) /\ DOMAIN t = 1..(Len(b) - 1)
        /\ \A i \in DOMAIN t : t[i] = b[i + 1]
        /\ Head(b) = b[1] /\ Head(b) \in ChMsgs
    BY <2>1, Beheaded
  <2>3. QED
    BY <2>2 DEF t
<1>3. m \in MsgsOf(l) /\ ~Taken(m)
  BY <1>2 DEF PlacesOK
<1>4. /\ chTaken' = Append(chTaken, m) /\ chDisp[l].pc = "receive"
      /\ chBus' = [chBus EXCEPT ![l] = rest]
      /\ chDisp' = [chDisp EXCEPT ![l] = [pc |-> "lookup", msg |-> m]]
      /\ UNCHANGED <<chQueue, chClosed, chSend, chStop, chPanic, chOut, chFailed>>
  BY DEF CmReceive
<1>5. /\ DOMAIN chBus = Lanes /\ DOMAIN chDisp = Lanes /\ chDisp[l].msg = NoChMsg
      /\ NoChMsg \notin ChMsgs
  BY <1>4, ChAssumption DEF CmTypes, CmTypeOK
<1>6. /\ chBus'[l] = rest /\ \A o \in Lanes \ {l} : chBus'[o] = chBus[o]
      /\ chDisp'[l].msg = m /\ \A o \in Lanes \ {l} : chDisp'[o] = chDisp[o]
  BY <1>4, <1>5
<1>7. /\ \A x, y \in DOMAIN chTaken' : chTaken'[x] = chTaken'[y] => x = y
      /\ TakenMsgs' = TakenMsgs \cup {m} /\ TakenBefore \subseteq TakenBefore'
      /\ \A a \in TakenMsgs : <<a, m>> \in TakenBefore'
  BY <1>1, <1>2, <1>3, <1>4, TakenGrows
<1>8. \A i \in DOMAIN rest : i + 1 \in DOMAIN chBus[l] /\ i + 1 # 1
  BY <1>2
<1>9. /\ \A i \in DOMAIN rest : rest[i] \in MsgsOf(l) /\ ~Taken(rest[i]) /\ rest[i] # m
      /\ \A i, j \in DOMAIN rest : rest[i] = rest[j] => i = j
  <2>1. \A i, j \in DOMAIN rest : i + 1 = j + 1 => i = j
    BY <1>2
  <2>2. QED
    BY <1>2, <1>8, <2>1 DEF PlacesOK
<1>10. \A o \in Lanes : o # l => m \notin MsgsOf(o)
  BY <1>3, ChAssumption DEF MsgsOf, Lanes
<1> HIDE DEF m, rest
<1>11. PlacesOK'
  <2>1. ASSUME NEW o \in Lanes
        PROVE  /\ \A i \in DOMAIN chBus'[o] : /\ chBus'[o][i] \in MsgsOf(o)
                                               /\ chBus'[o][i] \notin TakenMsgs'
               /\ \A i, j \in DOMAIN chBus'[o] : chBus'[o][i] = chBus'[o][j] => i = j
               /\ chDisp'[o].msg # NoChMsg => chDisp'[o].msg \in TakenMsgs'
    <3>1. CASE o = l
      BY <3>1, <1>6, <1>7, <1>9
    <3>2. CASE o # l
      <4>1. chBus'[o] = chBus[o] /\ chDisp'[o] = chDisp[o]
        BY <3>2, <1>6
      <4>2. QED
        BY <3>2, <4>1, <1>7, <1>10 DEF PlacesOK
    <3>3. QED
      BY <3>1, <3>2
  <2>2. QED
    BY <2>1, <1>4, <1>7 DEF PlacesOK
<1>12. OrderOK'
  <2>1. \A o \in Lanes : chDisp'[o].msg # NoChMsg => (chDisp'[o].msg = chDisp[o].msg \/ chDisp'[o].msg = m)
    BY <1>6
  <2>2. \A o \in Lanes : chSend[o].msg # NoChMsg => Taken(chSend[o].msg)
    BY DEF PlacesOK, Senders
  <2>3. /\ \A o \in Lanes : \A i \in DOMAIN chQueue[o] : Taken(chQueue[o][i])
        /\ \A x \in DOMAIN chOut : Taken(chOut[x][1])
    BY DEF PlacesOK
  <2>4. QED
    BY <2>1, <2>2, <2>3, <1>4, <1>7 DEF OrderOK, InOrder
<1>13. OnceOK'
  <2>1. UNCHANGED OutChunks
    BY <1>4 DEF OutChunks
  <2>2. ASSUME NEW n \in ChMsgs, NEW k PROVE Held(n, k)' <=> (Held(n, k) \/ n = m)
    <3>1. (\E o \in Lanes : chDisp'[o].msg = n) <=> (n = m \/ \E o \in Lanes : chDisp[o].msg = n)
      BY <1>5, <1>6
    <3>2. QED
      BY <1>4, <3>1 DEF Held
  <2>3. \A k : ~IsOut(<<m, k>>) /\ <<m, k>> \notin chFailed
    <3>1. \A x \in DOMAIN chOut : chOut[x][1] # m
      BY <1>3 DEF PlacesOK
    <3>2. \A f \in chFailed : f[1] # m
      BY <1>3 DEF PlacesOK
    <3>3. QED
      BY <3>1, <3>2 DEF OutChunks, Range
  <2>4. QED
    BY <2>1, <2>2, <2>3, <1>4, <1>7 DEF OnceOK
<1>14. QED
  BY <1>11, <1>12, <1>13

(* Each sender and each lane has messages of its own.                         *)
LEMMA LanesApart ==
    /\ \A r, s \in Senders : r # s => MsgsOf(r) \cap MsgsOf(s) = {}
    /\ \A s \in Senders : MsgsOf(s) \subseteq ChMsgs
    /\ NoChMsg \notin ChMsgs
    /\ Lanes \subseteq Senders /\ "direct" \in Senders /\ "direct" \notin Lanes
BY ChAssumption DEF MsgsOf, Senders, Lanes, ChMsgs

(* A message that is held is in one place.                                    *)
LEMMA OnePlace ==
    ASSUME CmTypes, PlacesOK, OrderOK
    PROVE  /\ \A l \in Lanes : chDisp[l].msg # NoChMsg =>
                /\ \A o \in Lanes \ {l} : chDisp[o].msg # chDisp[l].msg
                /\ \A o \in Lanes : chDisp[l].msg \notin Range(chQueue[o])
                /\ \A s \in Senders : chSend[s].msg # chDisp[l].msg
           /\ \A s \in Senders : chSend[s].msg # NoChMsg =>
                /\ \A l \in Lanes : /\ chDisp[l].msg # chSend[s].msg
                                    /\ chSend[s].msg \notin Range(chQueue[l])
                /\ \A r \in Senders \ {s} : chSend[r].msg # chSend[s].msg
<1> USE DEF Before, Taken
<1>1. \A m : <<m, m>> \notin TakenBefore
  BY BeforeIsStrict DEF CmTypes, CmTypeOK
<1>2. \A o \in Lanes : \A i \in DOMAIN chQueue[o] : chQueue[o][i] \in MsgsOf(o)
  BY DEF PlacesOK
<1>3. /\ \A o \in Lanes : chDisp[o].msg # NoChMsg => chDisp[o].msg \in MsgsOf(o)
      /\ \A s \in Senders : chSend[s].msg # NoChMsg => chSend[s].msg \in MsgsOf(s)
  BY DEF CmTypes
<1>4. /\ \A o \in Lanes : chDisp[o].msg # NoChMsg => chDisp[o].msg \notin Range(chQueue[o])
      /\ \A o \in Lanes : chSend[o].msg # NoChMsg => chSend[o].msg \notin Range(chQueue[o])
      /\ \A o \in Lanes : chDisp[o].msg # NoChMsg => chDisp[o].msg # chSend[o].msg
  BY <1>1 DEF OrderOK, InOrder, Range
<1>5. ASSUME NEW m, NEW s \in Senders, NEW o \in Lanes, m \in MsgsOf(s), s # o
      PROVE  m \notin Range(chQueue[o])
  BY <1>2, <1>5, LanesApart DEF Range
<1>6. QED
  BY <1>3, <1>4, <1>5, LanesApart

(* A message for another channel is logged and forgotten.                     *)
LEMMA MessageSkipped ==
    ASSUME CmTypes, PlacesOK, OrderOK, OnceOK, NEW l \in Lanes, CmLookup(l),
           chDisp[l].msg \in OtherMsgs
    PROVE  PlacesOK' /\ OrderOK' /\ OnceOK'
<1> USE DEF Taken, Before, IsOut
<1> PICK m : m = chDisp[l].msg
  OBVIOUS
<1>1. /\ chDisp[l].pc = "lookup" /\ chFailed' = chFailed \cup {<<m, 1>>}
      /\ chDisp' = [chDisp EXCEPT ![l] = [pc |-> "receive", msg |-> NoChMsg]]
      /\ UNCHANGED <<chBus, chQueue, chClosed, chSend, chStop, chPanic, chTaken, chOut>>
  BY DEF CmLookup
<1>2. m # NoChMsg /\ m \in ChMsgs /\ NumChunks(m) = 1
  BY <1>1, ChAssumption, LanesApart DEF CmTypes, NumChunks
<1>3. UNCHANGED <<TakenMsgs, TakenBefore, OutChunks>>
  BY <1>1 DEF TakenMsgs, TakenBefore, OutChunks
<1>4. chDisp'[l].msg = NoChMsg /\ \A o \in Lanes \ {l} : chDisp'[o] = chDisp[o]
  BY <1>1 DEF CmTypes, CmTypeOK
<1>5. m \in TakenMsgs
  BY <1>2 DEF PlacesOK
<1>6. PlacesOK'
  <2>1. \A o \in Lanes : chDisp'[o].msg # NoChMsg => chDisp'[o] = chDisp[o]
    BY <1>4
  <2>2. QED
    BY <2>1, <1>1, <1>3, <1>5 DEF PlacesOK
<1>7. OrderOK'
  <2>1. \A o \in Lanes : chDisp'[o].msg # NoChMsg => chDisp'[o] = chDisp[o]
    BY <1>4
  <2>2. UNCHANGED <<chQueue, chSend, chOut, TakenBefore>>
    BY <1>1, <1>3
  <2>3. ASSUME NEW o \in Lanes PROVE InOrder(o)'
    <3>1. InOrder(o)
      BY DEF OrderOK
    <3>2. QED
      BY <2>1, <2>2, <3>1 DEF InOrder
  <2>4. QED
    BY <2>3 DEF OrderOK
<1>8. OnceOK'
  <2>1. \A k : Held(m, k) /\ ~Held(m, k)'
    <3>1. /\ \A o \in Lanes : chDisp'[o].msg # m /\ m \notin Range(chQueue[o])
          /\ \A s \in Senders : chSend[s].msg # m
      BY <1>2, <1>4, OnePlace
    <3>2. QED
      BY <1>1, <3>1 DEF Held
  <2>2. ASSUME NEW n \in ChMsgs, n # m, NEW k PROVE Held(n, k)' <=> Held(n, k)
    <3>1. (\E o \in Lanes : chDisp'[o].msg = n) <=> (\E o \in Lanes : chDisp[o].msg = n)
      BY <2>2, <1>4, LanesApart
    <3>2. QED
      BY <1>1, <3>1 DEF Held
  <2>3. QED
    BY <2>1, <2>2, <1>1, <1>2, <1>3 DEF OnceOK
<1>9. QED
  BY <1>6, <1>7, <1>8

(* The dispatcher of lane l puts its message behind those in the queue.       *)
LEMMA MessageQueued ==
    ASSUME CmTypes, PlacesOK, OrderOK, OnceOK, NEW l \in Lanes, CmEnqueue(l)
    PROVE  PlacesOK' /\ OrderOK' /\ OnceOK'
<1> USE DEF Taken, Before, IsOut
<1> DEFINE m == chDisp[l].msg
           q == chQueue[l]
           new == Append(q, m)
<1>1. /\ chDisp[l].pc = "enqueue" /\ chQueue' = [chQueue EXCEPT ![l] = new]
      /\ chDisp' = [chDisp EXCEPT ![l] = [pc |-> "receive", msg |-> NoChMsg]]
      /\ UNCHANGED <<chBus, chClosed, chSend, chStop, chPanic, chTaken, chOut, chFailed>>
  BY DEF CmEnqueue
<1>2. m # NoChMsg /\ m \in ChMsgs /\ m \in MsgsOf(l) /\ m \in TakenMsgs
  BY <1>1, LanesApart DEF CmTypes, PlacesOK
<1>3. UNCHANGED <<TakenMsgs, TakenBefore, OutChunks>>
  BY <1>1 DEF TakenMsgs, TakenBefore, OutChunks
<1>4. /\ chDisp'[l].msg = NoChMsg /\ \A o \in Lanes \ {l} : chDisp'[o] = chDisp[o]
      /\ chQueue'[l] = new /\ \A o \in Lanes \ {l} : chQueue'[o] = chQueue[o]
  BY <1>1 DEF CmTypes, CmTypeOK
<1>5. q \in Seq(ChMsgs)
  BY DEF CmTypes, CmTypeOK
<1>6. PICK last : /\ DOMAIN new = DOMAIN q \cup {last} /\ new[last] = m
                  /\ \A i \in DOMAIN q : new[i] = q[i] /\ ~(last < i)
                  /\ ~(last < last)
  <2> HIDE DEF new, m, q
  <2>1. /\ DOMAIN q = 1..Len(q) /\ DOMAIN new = 1..(Len(q) + 1) /\ Len(q) \in Nat
        /\ new[Len(q) + 1] = m /\ \A i \in DOMAIN q : new[i] = q[i]
    BY <1>2, <1>5, Appended DEF new
  <2>2. QED
    BY <2>1
<1> HIDE DEF m, q, new
<1>7. PlacesOK'
  <2>1. \A o \in Lanes : chDisp'[o].msg # NoChMsg => chDisp'[o] = chDisp[o]
    BY <1>4
  <2>2. ASSUME NEW o \in Lanes, NEW i \in DOMAIN chQueue'[o]
        PROVE  chQueue'[o][i] \in MsgsOf(o) /\ chQueue'[o][i] \in TakenMsgs
    BY <1>2, <1>4, <1>6 DEF PlacesOK, q
  <2>3. QED
    BY <2>1, <2>2, <1>1, <1>3 DEF PlacesOK
<1>8. OrderOK'
  <2>1. /\ \A i, j \in DOMAIN new : i < j => <<new[i], new[j]>> \in TakenBefore
        /\ chSend[l].msg # NoChMsg =>
             \A i \in DOMAIN new : <<chSend[l].msg, new[i]>> \in TakenBefore
        /\ \A x \in DOMAIN chOut : chOut[x][1] \in MsgsOf(l) =>
             \A i \in DOMAIN new : <<chOut[x][1], new[i]>> \in TakenBefore
    BY <1>2, <1>6 DEF OrderOK, InOrder, q, m
  <2>2. \A o \in Lanes : o # l => chDisp'[o] = chDisp[o] /\ chQueue'[o] = chQueue[o]
    BY <1>4
  <2>3. UNCHANGED <<chSend, chOut, TakenBefore>>
    BY <1>1, <1>3
  <2>4. InOrder(l)'
    <3>1. InOrder(l)
      BY DEF OrderOK
    <3>2. chQueue'[l] = new /\ chDisp'[l].msg = NoChMsg
      BY <1>4
    <3>3. QED
      BY <2>1, <2>3, <3>1, <3>2 DEF InOrder
  <2>5. ASSUME NEW o \in Lanes, o # l PROVE InOrder(o)'
    BY <2>2, <2>3, <2>5 DEF OrderOK, InOrder
  <2>6. QED
    BY <2>4, <2>5 DEF OrderOK
<1>9. OnceOK'
  <2>1. Range(new) = Range(q) \cup {m}
    BY <1>6 DEF Range
  <2>2. ASSUME NEW n \in ChMsgs, NEW k PROVE Held(n, k)' <=> Held(n, k)
    <3>1. (\E o \in Lanes : chDisp'[o].msg = n \/ n \in Range(chQueue'[o]))
            <=> (\E o \in Lanes : chDisp[o].msg = n \/ n \in Range(chQueue[o]))
      BY <2>1, <1>4, LanesApart DEF m, q
    <3>2. QED
      BY <1>1, <3>1 DEF Held
  <2>3. QED
    BY <2>2, <1>1, <1>3 DEF OnceOK
<1>10. QED
  BY <1>7, <1>8, <1>9

(* The worker of lane l takes the first message of its queue.                 *)
LEMMA MessageTaken ==
    ASSUME CmTypes, PlacesOK, OrderOK, OnceOK, NEW l \in Lanes, CmTake(l)
    PROVE  PlacesOK' /\ OrderOK' /\ OnceOK'
<1> USE DEF Taken, Before, IsOut
<1> PICK q, m : q = chQueue[l] /\ m = Head(q)
  OBVIOUS
<1> DEFINE rest == Tail(q)
<1>1. /\ chSend[l].pc = "select" /\ q # <<>> /\ chQueue' = [chQueue EXCEPT ![l] = rest]
      /\ chSend' = [chSend EXCEPT ![l] = Start(m, 1)]
      /\ UNCHANGED <<chBus, chDisp, chClosed, chStop, chPanic, chTaken, chOut, chFailed>>
  BY DEF CmTake
<1>2. q \in Seq(ChMsgs)
  BY DEF CmTypes, CmTypeOK
<1>3. UNCHANGED <<TakenMsgs, TakenBefore, OutChunks>>
  BY <1>1 DEF TakenMsgs, TakenBefore, OutChunks
<1>4. /\ chSend'[l].msg = m /\ chSend'[l].chunk = 1 /\ chSend[l].msg = NoChMsg
      /\ \A r \in Senders \ {l} : chSend'[r] = chSend[r]
      /\ chQueue'[l] = rest /\ \A o \in Lanes \ {l} : chQueue'[o] = chQueue[o]
  <2>1. DOMAIN chSend = Senders /\ DOMAIN chQueue = Lanes /\ l \in Senders
    BY LanesApart DEF CmTypes, CmTypeOK
  <2>2. chSend[l].msg = NoChMsg
    BY <1>1, <2>1 DEF CmTypes, Sending
  <2>3. QED
    BY <1>1, <2>1, <2>2 DEF Start
<1>5. /\ 1 \in DOMAIN q /\ q[1] = m
      /\ \A i \in DOMAIN rest : /\ i + 1 \in DOMAIN q /\ rest[i] = q[i + 1] /\ 1 < i + 1
                                /\ \A j \in DOMAIN rest : i < j => i + 1 < j + 1
      /\ \A i \in DOMAIN q : i = 1 \/ \E j \in DOMAIN rest : i = j + 1
  <2> HIDE DEF rest
  <2>1. /\ Len(q) \in Nat \ {0} /\ DOMAIN q = 1..Len(q) /\ DOMAIN rest = 1..(Len(q) - 1)
        /\ \A i \in DOMAIN rest : rest[i] = q[i + 1]
        /\ m = q[1]
    BY <1>1, <1>2, Beheaded DEF rest
  <2>2. ASSUME NEW i \in DOMAIN q, i # 1 PROVE i - 1 \in DOMAIN rest /\ i = (i - 1) + 1
    BY <2>1, <2>2
  <2>3. QED
    BY <2>1, <2>2
<1>6. m \in MsgsOf(l) /\ m \in TakenMsgs /\ m \in ChMsgs /\ m # NoChMsg
  BY <1>5, LanesApart DEF PlacesOK
<1> HIDE DEF rest
<1>7. PlacesOK'
  <2>1. ASSUME NEW o \in Lanes, NEW i \in DOMAIN chQueue'[o]
        PROVE  chQueue'[o][i] \in MsgsOf(o) /\ chQueue'[o][i] \in TakenMsgs
    BY <1>4, <1>5 DEF PlacesOK
  <2>2. \A r \in Senders : chSend'[r].msg # NoChMsg => chSend'[r].msg \in TakenMsgs
    BY <1>4, <1>6 DEF PlacesOK
  <2>3. QED
    BY <2>1, <2>2, <1>1, <1>3 DEF PlacesOK
<1>8. OrderOK'
  <2>1. UNCHANGED <<chDisp, chOut, TakenBefore>>
    BY <1>1, <1>3
  <2>2. InOrder(l)'
    <3>1. InOrder(l)
      BY DEF OrderOK
    <3>2. /\ \A i \in DOMAIN q : chQueue[l][i] = q[i]
          /\ DOMAIN chQueue[l] = DOMAIN q
      OBVIOUS
    <3>3. /\ \A i, j \in DOMAIN rest : i < j => <<rest[i], rest[j]>> \in TakenBefore
          /\ chDisp[l].msg # NoChMsg =>
               \A i \in DOMAIN rest : <<rest[i], chDisp[l].msg>> \in TakenBefore
          /\ \A i \in DOMAIN rest : <<m, rest[i]>> \in TakenBefore
          /\ chDisp[l].msg # NoChMsg => <<m, chDisp[l].msg>> \in TakenBefore
      BY <3>1, <3>2, <1>5 DEF InOrder
    <3>4. \A x \in DOMAIN chOut : chOut[x][1] \in MsgsOf(l) =>
            /\ \A i \in DOMAIN rest : <<chOut[x][1], rest[i]>> \in TakenBefore
            /\ <<chOut[x][1], m>> \in TakenBefore
            /\ chDisp[l].msg # NoChMsg => <<chOut[x][1], chDisp[l].msg>> \in TakenBefore
      BY <3>1, <3>2, <1>5 DEF InOrder
    <3>5. \A x, y \in DOMAIN chOut :
            x < y /\ chOut[x][1] \in MsgsOf(l) /\ chOut[y][1] \in MsgsOf(l) =>
              \/ chOut[x][1] = chOut[y][1] /\ chOut[x][2] < chOut[y][2]
              \/ <<chOut[x][1], chOut[y][1]>> \in TakenBefore
      BY <3>1 DEF InOrder
    <3>6. chQueue'[l] = rest /\ chSend'[l].msg = m
      BY <1>4
    <3>7. QED
      BY <2>1, <3>3, <3>4, <3>5, <3>6 DEF InOrder
  <2>3. ASSUME NEW o \in Lanes, o # l PROVE InOrder(o)'
    <3>1. chQueue'[o] = chQueue[o] /\ chSend'[o] = chSend[o]
      BY <2>3, <1>4, LanesApart
    <3>2. InOrder(o)
      BY DEF OrderOK
    <3>3. QED
      BY <2>1, <3>1, <3>2 DEF InOrder
  <2>4. QED
    BY <2>2, <2>3 DEF OrderOK
<1>9. OnceOK'
  <2>1. Range(q) = Range(rest) \cup {m}
    BY <1>5 DEF Range
  <2>2. ASSUME NEW n \in ChMsgs, NEW k \in 1..NumChunks(n) PROVE Held(n, k)' <=> Held(n, k)
    <3>1. (\E o \in Lanes : n \in Range(chQueue[o]))
             <=> (n = m \/ \E o \in Lanes : n \in Range(chQueue'[o]))
      BY <2>1, <1>4
    <3>2. 1 <= k /\ n # NoChMsg
      BY LanesApart DEF NumChunks
    <3>3. l \in Senders /\ chDisp' = chDisp
      BY LanesApart, <1>1
    <3>4. (\E s \in Senders : chSend'[s].msg = n /\ chSend'[s].chunk <= k)
             <=> (n = m \/ \E s \in Senders : chSend[s].msg = n /\ chSend[s].chunk <= k)
      BY <1>4, <3>2, <3>3
    <3>5. QED
      BY <3>1, <3>3, <3>4 DEF Held
  <2>3. QED
    BY <2>2, <1>1, <1>3 DEF OnceOK
<1>10. QED
  BY <1>7, <1>8, <1>9

(* The agent loop hands the message m to the channel itself.                  *)
LEMMA MessageHandedOver ==
    ASSUME CmTypes, PlacesOK, OrderOK, OnceOK, NEW m \in DirectMsgs, CmSendMessage(m)
    PROVE  PlacesOK' /\ OrderOK' /\ OnceOK'
<1> USE DEF Taken, Before, IsOut
<1>1. /\ chSend["direct"].pc = "idle" /\ m \notin TakenMsgs /\ chTaken' = Append(chTaken, m)
      /\ chSend' = [chSend EXCEPT !["direct"] = Start(m, 1)]
      /\ UNCHANGED <<chBus, chDisp, chQueue, chClosed, chStop, chPanic, chOut, chFailed>>
  BY DEF CmSendMessage, TakenMsgs
<1>2. m \in MsgsOf("direct") /\ m \in ChMsgs /\ m # NoChMsg
  BY LanesApart DEF MsgsOf, ChMsgs
<1>3. /\ \A x, y \in DOMAIN chTaken' : chTaken'[x] = chTaken'[y] => x = y
      /\ TakenMsgs' = TakenMsgs \cup {m} /\ TakenBefore \subseteq TakenBefore'
  BY <1>1, <1>2, TakenGrows DEF CmTypes, CmTypeOK
<1>4. UNCHANGED OutChunks
  BY <1>1 DEF OutChunks
<1>5. /\ chSend'["direct"].msg = m /\ chSend'["direct"].chunk = 1
      /\ chSend["direct"].msg = NoChMsg
      /\ \A r \in Senders \ {"direct"} : chSend'[r] = chSend[r]
  <2>1. DOMAIN chSend = Senders /\ "direct" \in Senders
    BY LanesApart DEF CmTypes, CmTypeOK
  <2>2. chSend["direct"].msg = NoChMsg
    BY <1>1, <2>1 DEF CmTypes, Sending
  <2>3. QED
    BY <1>1, <2>1, <2>2 DEF Start
<1>6. \A o \in Lanes : \A i \in DOMAIN chBus[o] : chBus[o][i] # m
  BY <1>2, LanesApart DEF PlacesOK
<1>7. PlacesOK'
  <2>1. \A r \in Senders : chSend'[r].msg # NoChMsg => chSend'[r].msg \in TakenMsgs'
    BY <1>3, <1>5 DEF PlacesOK
  <2>2. QED
    BY <2>1, <1>1, <1>3, <1>6 DEF PlacesOK
<1>8. OrderOK'
  <2>1. UNCHANGED <<chDisp, chOut, chQueue>>
    BY <1>1
  <2>2. ASSUME NEW o \in Lanes PROVE InOrder(o)'
    <3>1. chSend'[o] = chSend[o]
      BY <1>5, LanesApart
    <3>2. InOrder(o)
      BY DEF OrderOK
    <3>3. QED
      BY <2>1, <3>1, <3>2, <1>3 DEF InOrder
  <2>3. QED
    BY <2>2 DEF OrderOK
<1>9. OnceOK'
  <2>1. ASSUME NEW n \in ChMsgs, NEW k \in 1..NumChunks(n)
        PROVE  Held(n, k)' <=> (Held(n, k) \/ n = m)
    <3>1. 1 <= k /\ n # NoChMsg /\ "direct" \in Senders
      BY LanesApart DEF NumChunks
    <3>2. (\E s \in Senders : chSend'[s].msg = n /\ chSend'[s].chunk <= k)
             <=> (n = m \/ \E s \in Senders : chSend[s].msg = n /\ chSend[s].chunk <= k)
      BY <1>5, <3>1
    <3>3. QED
      BY <1>1, <3>2 DEF Held
  <2>2. \A k : <<m, k>> \notin OutChunks /\ <<m, k>> \notin chFailed
    <3>1. \A x \in DOMAIN chOut : chOut[x][1] # m
      BY <1>1 DEF PlacesOK
    <3>2. \A f \in chFailed : f[1] # m
      BY <1>1 DEF PlacesOK
    <3>3. QED
      BY <3>1, <3>2 DEF OutChunks, Range
  <2>3. QED
    BY <2>1, <2>2, <1>1, <1>3, <1>4 DEF OnceOK
<1>10. QED
  BY <1>7, <1>8, <1>9

(* A chunk is over: the service accepted it, it is logged as failed, or the   *)
(* stop interrupted it.  The sender goes on to the next chunk, or the message *)
(* is done.                                                                   *)
LEMMA ChunkDone ==
    ASSUME CmTypes, PlacesOK, OrderOK, OnceOK, NEW s \in Senders, chSend[s].pc \in Sending,
           NextChunk(s), UNCHANGED <<chBus, chDisp, chQueue, chStop, chTaken>>,
           \/ chOut' = Append(chOut, <<chSend[s].msg, chSend[s].chunk>>) /\ UNCHANGED chFailed
           \/ /\ chFailed' = chFailed \cup {<<chSend[s].msg, chSend[s].chunk>>}
              /\ UNCHANGED chOut
           \/ Cancelled /\ UNCHANGED <<chOut, chFailed>>
    PROVE  PlacesOK' /\ OrderOK' /\ OnceOK'
<1> USE DEF Taken, Before, IsOut
<1> PICK m, k : m = chSend[s].msg /\ k = chSend[s].chunk
  OBVIOUS
<1> DEFINE c == <<m, k>>
<1>1. UNCHANGED <<TakenMsgs, TakenBefore>>
  BY DEF TakenMsgs, TakenBefore
<1>2. /\ m \in MsgsOf(s) /\ m \in ChMsgs /\ m # NoChMsg /\ m \in TakenMsgs
      /\ k \in 1..NumChunks(m) /\ k \in 1..2
  <2>1. m \in MsgsOf(s) /\ m # NoChMsg /\ k \in 1..NumChunks(m)
    BY DEF CmTypes
  <2>2. m \in ChMsgs /\ m \in TakenMsgs
    BY <2>1, LanesApart DEF PlacesOK
  <2>3. QED
    BY <2>1, <2>2 DEF NumChunks
<1>3. /\ \A r \in Senders \ {s} : chSend'[r] = chSend[r]
      /\ k < NumChunks(m) => chSend'[s].msg = m /\ chSend'[s].chunk = k + 1
      /\ ~(k < NumChunks(m)) => chSend'[s].msg = NoChMsg
  <2>1. DOMAIN chSend = Senders
    BY DEF CmTypes, CmTypeOK
  <2>2. chSend' = [chSend EXCEPT ![s] = IF k < NumChunks(m) THEN Start(m, k + 1)
                                                            ELSE IdleSender(s)]
    BY DEF NextChunk
  <2>3. QED
    BY <2>1, <2>2 DEF Start, IdleSender
<1>4. c \in ChMsgs \X (1..2) /\ c[1] = m /\ c[2] = k
  BY <1>2
<1>5. chOut \in Seq(ChMsgs \X (1..2))
  BY DEF CmTypes, CmTypeOK
<1>6. /\ \A x \in DOMAIN chOut' : \/ x \in DOMAIN chOut /\ chOut'[x] = chOut[x]
                                  \/ chOut'[x] = c
      /\ \A x, y \in DOMAIN chOut' : x < y => x \in DOMAIN chOut /\ chOut'[x] = chOut[x]
      /\ DOMAIN chOut \subseteq DOMAIN chOut'
      /\ \A x \in DOMAIN chOut : chOut'[x] = chOut[x]
      /\ \A x, y \in DOMAIN chOut' : \/ x = y \/ x \in DOMAIN chOut \/ y \in DOMAIN chOut
      /\ chOut' = Append(chOut, c) => \E x \in DOMAIN chOut' : chOut'[x] = c
  <2>1. CASE chOut' = chOut
    <3>1. chOut # Append(chOut, c)
      <4> DEFINE a == Append(chOut, c)
      <4>1. Len(a) = Len(chOut) + 1 /\ Len(chOut) \in Nat
        <5> HIDE DEF c
        <5>1. QED
          BY <1>4, <1>5, Appended
      <4>2. QED
        BY <4>1
    <3>2. QED
      BY <2>1, <3>1
  <2>2. CASE chOut' = Append(chOut, c)
    <3> HIDE DEF c
    <3>1. /\ DOMAIN chOut = 1..Len(chOut) /\ DOMAIN chOut' = 1..(Len(chOut) + 1)
          /\ Len(chOut) \in Nat /\ chOut'[Len(chOut) + 1] = c
          /\ \A x \in DOMAIN chOut : chOut'[x] = chOut[x]
      BY <2>2, <1>4, <1>5, Appended
    <3>2. /\ DOMAIN chOut' = DOMAIN chOut \cup {Len(chOut) + 1}
          /\ \A x \in DOMAIN chOut' : ~(Len(chOut) + 1 < x)
      BY <3>1
    <3>3. QED
      BY <3>1, <3>2
  <2>3. QED
    BY <2>1, <2>2
<1> HIDE DEF c
<1>7. PlacesOK'
  <2>1. \A r \in Senders : chSend'[r].msg # NoChMsg => chSend'[r].msg \in TakenMsgs
    BY <1>2, <1>3 DEF PlacesOK
  <2>2. \A x \in DOMAIN chOut' : chOut'[x][1] \in TakenMsgs
    BY <1>2, <1>4, <1>6 DEF PlacesOK
  <2>3. \A f \in chFailed' : f[1] \in TakenMsgs
    BY <1>2, <1>4 DEF PlacesOK, c
  <2>4. QED
    BY <2>1, <2>2, <2>3, <1>1 DEF PlacesOK
<1>8. OrderOK'
  <2>1. ASSUME s \in Lanes PROVE InOrder(s)'
    <3>1. InOrder(s)
      BY <2>1 DEF OrderOK
    <3>2. \A x \in DOMAIN chOut' : chOut'[x][1] \in MsgsOf(s) =>
            /\ \A i \in DOMAIN chQueue[s] : <<chOut'[x][1], chQueue[s][i]>> \in TakenBefore
            /\ chDisp[s].msg # NoChMsg => <<chOut'[x][1], chDisp[s].msg>> \in TakenBefore
      BY <3>1, <1>2, <1>4, <1>6 DEF InOrder
    <3>3. \A x \in DOMAIN chOut' : chOut'[x][1] \in MsgsOf(s) /\ chSend'[s].msg # NoChMsg =>
            \/ chOut'[x][1] = chSend'[s].msg /\ chOut'[x][2] < chSend'[s].chunk
            \/ <<chOut'[x][1], chSend'[s].msg>> \in TakenBefore
      <4> SUFFICES ASSUME NEW x \in DOMAIN chOut', chOut'[x][1] \in MsgsOf(s),
                          k < NumChunks(m)
                   PROVE  \/ chOut'[x][1] = m /\ chOut'[x][2] < k + 1
                          \/ <<chOut'[x][1], m>> \in TakenBefore
        BY <1>2, <1>3
      <4>1. CASE chOut'[x] = c
        BY <4>1, <1>2, <1>4
      <4>2. CASE x \in DOMAIN chOut /\ chOut'[x] = chOut[x]
        <5>1. \/ chOut[x][1] = m /\ chOut[x][2] < k
              \/ <<chOut[x][1], m>> \in TakenBefore
          BY <4>2, <3>1, <1>2 DEF InOrder
        <5>2. chOut[x][2] \in 1..2
          BY <4>2, <1>5
        <5>3. QED
          BY <4>2, <5>1, <5>2, <1>2
      <4>3. QED
        BY <4>1, <4>2, <1>6
    <3>4. \A x, y \in DOMAIN chOut' :
            x < y /\ chOut'[x][1] \in MsgsOf(s) /\ chOut'[y][1] \in MsgsOf(s) =>
              \/ chOut'[x][1] = chOut'[y][1] /\ chOut'[x][2] < chOut'[y][2]
              \/ <<chOut'[x][1], chOut'[y][1]>> \in TakenBefore
      <4> SUFFICES ASSUME NEW x \in DOMAIN chOut', NEW y \in DOMAIN chOut', x < y,
                          chOut'[x][1] \in MsgsOf(s), chOut'[y][1] \in MsgsOf(s)
                   PROVE  \/ chOut'[x][1] = chOut'[y][1] /\ chOut'[x][2] < chOut'[y][2]
                          \/ <<chOut'[x][1], chOut'[y][1]>> \in TakenBefore
        OBVIOUS
      <4>1. x \in DOMAIN chOut /\ chOut'[x] = chOut[x]
        BY <1>6
      <4>2. CASE chOut'[y] = c
        <5>1. \/ chOut[x][1] = m /\ chOut[x][2] < k
              \/ <<chOut[x][1], m>> \in TakenBefore
          BY <4>1, <3>1, <1>2 DEF InOrder
        <5>2. QED
          BY <4>1, <4>2, <5>1, <1>4
      <4>3. CASE y \in DOMAIN chOut /\ chOut'[y] = chOut[y]
        BY <4>1, <4>3, <3>1 DEF InOrder
      <4>4. QED
        BY <4>2, <4>3, <1>6
    <3>5. \A i \in DOMAIN chQueue[s] : <<m, chQueue[s][i]>> \in TakenBefore
      BY <3>1, <1>2 DEF InOrder
    <3>6. chDisp[s].msg # NoChMsg => <<m, chDisp[s].msg>> \in TakenBefore
      BY <3>1, <1>2 DEF InOrder
    <3>7. chSend'[s].msg # NoChMsg => chSend'[s].msg = m
      BY <1>3
    <3>8. QED
      BY <3>1, <3>2, <3>3, <3>4, <3>5, <3>6, <3>7, <1>1 DEF InOrder
  <2>2. ASSUME NEW o \in Lanes, o # s PROVE InOrder(o)'
    <3>1. InOrder(o) /\ chSend'[o] = chSend[o] /\ m \notin MsgsOf(o)
      BY <2>2, <1>2, <1>3, LanesApart DEF OrderOK
    <3>2. \A x \in DOMAIN chOut' : chOut'[x][1] \in MsgsOf(o) =>
            x \in DOMAIN chOut /\ chOut'[x] = chOut[x]
      BY <3>1, <1>4, <1>6
    <3>3. QED
      BY <3>1, <3>2, <1>1 DEF InOrder
  <2>3. QED
    BY <2>1, <2>2 DEF OrderOK
<1>9. OnceOK'
  <2> SUFFICES ASSUME chStop' = "running" PROVE OnceOK'
    BY DEF OnceOK
  <2>1. \/ chOut' = Append(chOut, c) /\ UNCHANGED chFailed
        \/ chFailed' = chFailed \cup {c} /\ UNCHANGED chOut
    BY DEF Cancelled, c
  <2>2. /\ \A o \in Lanes : chDisp[o].msg # m /\ m \notin Range(chQueue[o])
        /\ \A r \in Senders \ {s} : chSend[r].msg # m
    BY <1>2, OnePlace
  <2>3. ASSUME NEW j \in 1..NumChunks(m)
        PROVE  (Held(m, j) <=> k <= j) /\ (Held(m, j)' <=> k + 1 <= j)
    <3>1. Held(m, j) <=> k <= j
      BY <2>2 DEF Held
    <3>2. Held(m, j)' <=> k + 1 <= j
      <4>1. Held(m, j)' <=> chSend'[s].msg = m /\ chSend'[s].chunk <= j
        BY <2>2, <1>3 DEF Held
      <4>2. j \in Nat /\ NumChunks(m) \in Nat /\ j <= NumChunks(m)
        BY DEF NumChunks
      <4>3. CASE k < NumChunks(m)
        BY <4>1, <4>3, <1>3
      <4>4. CASE ~(k < NumChunks(m))
        BY <4>1, <4>2, <4>4, <1>2, <1>3
      <4>5. QED
        BY <4>3, <4>4
    <3>3. QED
      BY <3>1, <3>2
  <2>4. ASSUME NEW n \in ChMsgs, n # m, NEW j PROVE Held(n, j)' <=> Held(n, j)
    <3>1. (\E r \in Senders : chSend'[r].msg = n /\ chSend'[r].chunk <= j)
            <=> (\E r \in Senders : chSend[r].msg = n /\ chSend[r].chunk <= j)
      <4>1. chSend[s].msg # n /\ chSend'[s].msg # n
        BY <2>4, <1>3, LanesApart
      <4>2. QED
        BY <4>1, <1>3
    <3>2. QED
      BY <3>1 DEF Held
  <2>5. c \notin OutChunks /\ c \notin chFailed
    BY <2>3, <1>2 DEF OnceOK, c
  <2>6. \A x \in DOMAIN chOut : chOut[x] # c
    BY <2>5 DEF OutChunks, Range
  <2>7. \A x, y \in DOMAIN chOut' : chOut'[x] = chOut'[y] => x = y
    BY <2>6, <1>6 DEF OnceOK
  <2>8. \/ OutChunks' = OutChunks \cup {c} /\ chFailed' = chFailed
        \/ OutChunks' = OutChunks /\ chFailed' = chFailed \cup {c}
    BY <2>1, <1>6 DEF OutChunks, Range
  <2>9. ASSUME NEW n \in ChMsgs, n \in TakenMsgs, NEW j \in 1..NumChunks(n)
        PROVE  /\ <<n, j>> \in OutChunks' \/ <<n, j>> \in chFailed' \/ Held(n, j)'
               /\ ~(<<n, j>> \in OutChunks' /\ <<n, j>> \in chFailed')
               /\ ~(<<n, j>> \in OutChunks' /\ Held(n, j)')
               /\ ~(<<n, j>> \in chFailed' /\ Held(n, j)')
    <3>1. /\ <<n, j>> \in OutChunks \/ <<n, j>> \in chFailed \/ Held(n, j)
          /\ ~(<<n, j>> \in OutChunks /\ <<n, j>> \in chFailed)
          /\ ~(<<n, j>> \in OutChunks /\ Held(n, j))
          /\ ~(<<n, j>> \in chFailed /\ Held(n, j))
      BY <2>9 DEF OnceOK
    <3>2. <<n, j>> = c <=> n = m /\ j = k
      BY DEF c
    <3>3. n = m /\ j = k => ~Held(n, j)'
      BY <2>3, <1>2
    <3>4. ~(n = m /\ j = k) => (Held(n, j)' <=> Held(n, j))
      <4>1. CASE n # m
        BY <4>1, <2>4
      <4>2. CASE n = m /\ j # k
        <5>1. j \in Nat
          BY DEF NumChunks
        <5>2. k <= j <=> k + 1 <= j
          BY <4>2, <5>1, <1>2
        <5>3. QED
          BY <4>2, <5>2, <2>3
      <4>3. QED
        BY <4>1, <4>2
    <3>5. QED
      BY <3>1, <3>2, <3>3, <3>4, <2>5, <2>8
  <2>10. QED
    BY <2>7, <2>9, <1>1 DEF OnceOK
<1>10. QED
  BY <1>7, <1>8, <1>9

(* The lane l of the dispatchers, after its entry was replaced by d.          *)
LEMMA DispTypes ==
    ASSUME CmTypes, NEW l \in Lanes, NEW d,
           d \in [pc : {"receive", "lookup", "enqueue", "exited"}, msg : ChMsgs \cup {NoChMsg}],
           d.msg \in MsgsOf(l) \cup {NoChMsg}, d.pc = "receive" => d.msg = NoChMsg,
           d.pc \in {"lookup", "enqueue"} => d.msg # NoChMsg,
           chDisp' = [chDisp EXCEPT ![l] = d]
    PROVE  /\ chDisp' \in [Lanes -> [pc : {"receive", "lookup", "enqueue", "exited"},
                                     msg : ChMsgs \cup {NoChMsg}]]
           /\ \A o \in Lanes : /\ chDisp'[o].msg \in MsgsOf(o) \cup {NoChMsg}
                               /\ chDisp'[o].pc = "receive" => chDisp'[o].msg = NoChMsg
                               /\ chDisp'[o].pc \in {"lookup", "enqueue"} => chDisp'[o].msg # NoChMsg
<1>1. chDisp \in [Lanes -> [pc : {"receive", "lookup", "enqueue", "exited"},
                            msg : ChMsgs \cup {NoChMsg}]]
  BY DEF CmTypes, CmTypeOK
<1>2. chDisp'[l] = d /\ \A o \in Lanes \ {l} : chDisp'[o] = chDisp[o]
  BY <1>1
<1>3. QED
  BY <1>1, <1>2 DEF CmTypes

(* The record of a sender, and what its step says of its message.             *)
SendRecord == [pc : {"idle", "select", "limit", "presend", "send", "backoff", "exited"},
               msg : ChMsgs \cup {NoChMsg}, chunk : 0..2, try : 0..MaxRetries]
SendOK(s, w) ==
    /\ w.msg \in MsgsOf(s) \cup {NoChMsg}
    /\ w.pc \in Sending <=> w.msg # NoChMsg
    /\ w.pc \in Sending => w.chunk \in 1..NumChunks(w.msg)
    /\ w.pc = "backoff" => w.try < MaxRetries

(* The sender s, after its entry was replaced by w.                           *)
LEMMA SendTypes ==
    ASSUME CmTypes, NEW s \in Senders, NEW w \in SendRecord, SendOK(s, w),
           chSend' = [chSend EXCEPT ![s] = w]
    PROVE  chSend' \in [Senders -> SendRecord] /\ \A r \in Senders : SendOK(r, chSend'[r])
<1>1. chSend \in [Senders -> SendRecord] /\ \A r \in Senders : SendOK(r, chSend[r])
  BY DEF CmTypes, CmTypeOK, SendRecord, SendOK
<1>2. chSend'[s] = w /\ \A r \in Senders \ {s} : chSend'[r] = chSend[r]
  BY <1>1
<1> HIDE DEF SendRecord, SendOK
<1>3. QED
  BY <1>1, <1>2

(* The dispatchers keep the types.                                            *)
LEMMA DispatchTypes ==
    ASSUME CmTypes, PlacesOK, NEW l \in Lanes, CmDispatch(l) \/ CmSendOnClosed(l)
    PROVE  CmTypes'
<1> DEFINE D == [pc : {"receive", "lookup", "enqueue", "exited"}, msg : ChMsgs \cup {NoChMsg}]
<1>1. /\ chDisp \in [Lanes -> D] /\ chBus \in [Lanes -> Seq(ChMsgs)]
      /\ chQueue \in [Lanes -> Seq(ChMsgs)] /\ chTaken \in Seq(ChMsgs)
      /\ chDisp[l] \in D /\ chBus[l] \in Seq(ChMsgs) /\ chQueue[l] \in Seq(ChMsgs)
      /\ chDisp[l].msg \in MsgsOf(l) \cup {NoChMsg}
      /\ chDisp[l].pc \in {"lookup", "enqueue"} => chDisp[l].msg # NoChMsg
  BY DEF CmTypes, CmTypeOK
<1>2. MsgsOf(l) \subseteq ChMsgs /\ NoChMsg \notin ChMsgs
  BY LanesApart
<1>3. CASE CmReceive(l)
  <2> DEFINE m == Head(chBus[l])
             b == chBus[l]
             d == [pc |-> "lookup", msg |-> m]
  <2>1. /\ b # <<>> /\ chDisp' = [chDisp EXCEPT ![l] = d]
        /\ chBus' = [chBus EXCEPT ![l] = Tail(b)] /\ chTaken' = Append(chTaken, m)
        /\ UNCHANGED <<chQueue, chClosed, chSend, chStop, chPanic, chOut, chFailed>>
    BY <1>3 DEF CmReceive
  <2>2. Tail(b) \in Seq(ChMsgs) /\ m \in ChMsgs /\ m = b[1] /\ 1 \in DOMAIN b
    <3> HIDE DEF b
    <3>1. b \in Seq(ChMsgs)
      BY <1>1 DEF b
    <3>2. /\ Tail(b) \in Seq(ChMsgs) /\ Len(b) \in Nat \ {0} /\ DOMAIN b = 1..Len(b)
          /\ Head(b) = b[1] /\ Head(b) \in ChMsgs
      BY <2>1, <3>1, Beheaded
    <3>3. QED
      BY <3>2 DEF b
  <2>3. m \in MsgsOf(l)
    BY <2>2 DEF PlacesOK
  <2>4. d \in D /\ d.msg \in MsgsOf(l) /\ d.pc = "lookup" /\ d.msg # NoChMsg
    BY <2>2, <2>3, <1>2
  <2>5. chTaken' \in Seq(ChMsgs)
    BY <2>1, <2>2, <1>1, AppendProperties
  <2>6. chBus' \in [Lanes -> Seq(ChMsgs)]
    BY <2>1, <2>2, <1>1
  <2> HIDE DEF d, m, b
  <2>7. QED
    BY <2>1, <2>4, <2>5, <2>6, DispTypes DEF CmTypes, CmTypeOK, SendRecord, SendOK
<1>4. CASE CmDispatchStops(l)
  <2> DEFINE d == [chDisp[l] EXCEPT !.pc = "exited"]
  <2>1. d \in D /\ d.msg = chDisp[l].msg /\ d.pc = "exited" /\ chDisp' = [chDisp EXCEPT ![l] = d]
    BY <1>1, <1>4 DEF CmDispatchStops
  <2> HIDE DEF d
  <2>2. QED
    BY <2>1, <1>1, <1>4, DispTypes DEF CmTypes, CmTypeOK, SendRecord, SendOK, CmDispatchStops
<1>5. CASE CmLookup(l)
  <2>1. CASE chDisp[l].msg \in OtherMsgs
    <3> DEFINE d == [pc |-> "receive", msg |-> NoChMsg]
    <3>1. d \in D /\ d.msg = NoChMsg /\ d.pc = "receive" /\ chDisp' = [chDisp EXCEPT ![l] = d]
      BY <1>5, <2>1 DEF CmLookup
    <3>2. chFailed' \subseteq ChMsgs \X (1..2)
      BY <1>1, <1>2, <1>5, <2>1 DEF CmLookup, CmTypes, CmTypeOK
    <3>3. UNCHANGED <<chBus, chQueue, chClosed, chSend, chStop, chPanic, chTaken, chOut>>
      BY <1>5 DEF CmLookup
    <3> HIDE DEF d
    <3>4. QED
      BY <3>1, <3>2, <3>3, DispTypes DEF CmTypes, CmTypeOK, SendRecord, SendOK
  <2>2. CASE chDisp[l].msg \notin OtherMsgs
    <3> DEFINE d == [chDisp[l] EXCEPT !.pc = "enqueue"]
    <3>1. d \in D /\ d.msg = chDisp[l].msg /\ d.pc = "enqueue"
          /\ chDisp' = [chDisp EXCEPT ![l] = d] /\ chDisp[l].pc = "lookup"
      BY <1>1, <1>5, <2>2 DEF CmLookup
    <3>2. UNCHANGED <<chBus, chQueue, chClosed, chSend, chStop, chPanic, chTaken, chOut, chFailed>>
      BY <1>5, <2>2 DEF CmLookup
    <3> HIDE DEF d
    <3>3. QED
      BY <3>1, <3>2, <1>1, DispTypes DEF CmTypes, CmTypeOK, SendRecord, SendOK
  <2>3. QED
    BY <2>1, <2>2
<1>6. CASE CmEnqueue(l)
  <2> DEFINE d == [pc |-> "receive", msg |-> NoChMsg]
             q == chQueue[l]
             m == chDisp[l].msg
             new == Append(q, m)
  <2>1. /\ d \in D /\ d.msg = NoChMsg /\ d.pc = "receive" /\ chDisp' = [chDisp EXCEPT ![l] = d]
        /\ Len(q) < ChQueueSize /\ chQueue' = [chQueue EXCEPT ![l] = new]
        /\ chDisp[l].pc = "enqueue"
        /\ UNCHANGED <<chBus, chClosed, chSend, chStop, chPanic, chTaken, chOut, chFailed>>
    BY <1>6 DEF CmEnqueue
  <2>2. m \in ChMsgs
    BY <2>1, <1>1, <1>2
  <2>3. new \in Seq(ChMsgs) /\ Len(new) = Len(q) + 1 /\ Len(q) \in Nat
    <3> HIDE DEF m, q
    <3>1. q \in Seq(ChMsgs)
      BY <1>1 DEF q
    <3>2. QED
      BY <2>2, <3>1, Appended
  <2> HIDE DEF d, new, m, q
  <2>4. /\ chQueue' \in [Lanes -> Seq(ChMsgs)]
        /\ chQueue'[l] = new /\ \A o \in Lanes \ {l} : chQueue'[o] = chQueue[o]
    BY <2>1, <2>3, <1>1
  <2>5. Len(new) <= ChQueueSize
    BY <2>1, <2>3, ChAssumption
  <2>6. \A o \in Lanes : Len(chQueue'[o]) <= ChQueueSize
    BY <2>4, <2>5 DEF CmTypes, CmTypeOK
  <2>7. QED
    BY <2>1, <2>4, <2>6, DispTypes DEF CmTypes, CmTypeOK, SendRecord, SendOK
<1>7. CASE CmSendOnClosed(l)
  BY <1>7 DEF CmTypes, CmTypeOK, SendRecord, SendOK, CmSendOnClosed
<1>8. QED
  BY <1>3, <1>4, <1>5, <1>6, <1>7 DEF CmDispatch

(* A sender that starts a chunk is well typed.                                *)
LEMMA StartOK ==
    ASSUME NEW s \in Senders, NEW m \in MsgsOf(s), NEW k \in 1..NumChunks(m)
    PROVE  Start(m, k) \in SendRecord /\ SendOK(s, Start(m, k))
<1>1. m \in ChMsgs /\ m # NoChMsg /\ k \in 0..2 /\ 0 \in 0..MaxRetries
  BY LanesApart, ChAssumption DEF NumChunks
<1>2. QED
  BY <1>1 DEF Start, SendRecord, SendOK, Sending

(* So is one at rest.                                                         *)
LEMMA IdleOK ==
    ASSUME NEW s \in Senders
    PROVE  IdleSender(s) \in SendRecord /\ SendOK(s, IdleSender(s))
<1>1. 0 \in 0..MaxRetries /\ 0 \in 0..2
  BY ChAssumption
<1>2. QED
  BY <1>1 DEF IdleSender, SendRecord, SendOK, Sending

(* The chunk being sent, and the record of the sender once it is over.        *)
LEMMA NextOK ==
    ASSUME CmTypes, NEW s \in Senders, chSend[s].pc \in Sending
    PROVE  /\ <<chSend[s].msg, chSend[s].chunk>> \in ChMsgs \X (1..2)
           /\ NextChunk(s) =>
                \E w \in SendRecord : SendOK(s, w) /\ chSend' = [chSend EXCEPT ![s] = w]
<1>1. /\ chSend[s].msg \in MsgsOf(s) /\ chSend[s].chunk \in 1..NumChunks(chSend[s].msg)
      /\ chSend[s].msg \in ChMsgs
  BY LanesApart DEF CmTypes
<1>2. chSend[s].chunk \in 1..2
  BY <1>1 DEF NumChunks
<1>3. CASE chSend[s].chunk < NumChunks(chSend[s].msg)
  <2> DEFINE w == Start(chSend[s].msg, chSend[s].chunk + 1)
  <2>1. chSend[s].chunk + 1 \in 1..NumChunks(chSend[s].msg)
    BY <1>2, <1>3 DEF NumChunks
  <2>2. w \in SendRecord /\ SendOK(s, w)
    BY <1>1, <2>1, StartOK
  <2>3. NextChunk(s) => chSend' = [chSend EXCEPT ![s] = w]
    BY <1>3 DEF NextChunk
  <2>4. QED
    BY <1>1, <1>2, <2>2, <2>3
<1>4. CASE ~(chSend[s].chunk < NumChunks(chSend[s].msg))
  <2>1. NextChunk(s) => chSend' = [chSend EXCEPT ![s] = IdleSender(s)]
    BY <1>4 DEF NextChunk
  <2>2. QED
    BY <1>1, <1>2, <2>1, IdleOK
<1>5. QED
  BY <1>3, <1>4

(* A step of a sender, whose record becomes w.                                *)
LEMMA SenderTypes ==
    ASSUME CmTypes, NEW s \in Senders, NEW w \in SendRecord, SendOK(s, w),
           chSend' = [chSend EXCEPT ![s] = w], UNCHANGED <<chBus, chDisp, chClosed, chStop, chPanic>>,
           chQueue' \in [Lanes -> Seq(ChMsgs)], \A l \in Lanes : Len(chQueue'[l]) <= ChQueueSize,
           chTaken' \in Seq(ChMsgs), chOut' \in Seq(ChMsgs \X (1..2)),
           chFailed' \subseteq ChMsgs \X (1..2)
    PROVE  CmTypes'
<1>1. chSend' \in [Senders -> SendRecord] /\ \A r \in Senders : SendOK(r, chSend'[r])
  BY SendTypes
<1>2. QED
  BY <1>1 DEF CmTypes, CmTypeOK, SendRecord, SendOK

(* A sender whose chunk is not over changes its step and counts its tries.    *)
LEMMA StepOK ==
    ASSUME CmTypes, NEW s \in Senders, chSend[s].pc \in Sending, NEW p \in Sending,
           NEW t \in 0..MaxRetries, p = "backoff" => t < MaxRetries,
           chSend' = [chSend EXCEPT ![s] = [@ EXCEPT !.pc = p, !.try = t]],
           UNCHANGED <<chBus, chDisp, chQueue, chClosed, chStop, chPanic, chTaken, chOut,
                       chFailed>>
    PROVE  CmTypes' /\ \A r \in Senders : /\ chSend'[r].msg = chSend[r].msg
                                          /\ chSend'[r].chunk = chSend[r].chunk
<1> DEFINE w == [chSend[s] EXCEPT !.pc = p, !.try = t]
<1>1. chSend \in [Senders -> SendRecord] /\ SendOK(s, chSend[s])
  BY DEF CmTypes, CmTypeOK, SendRecord, SendOK
<1>2. /\ w \in SendRecord /\ w.msg = chSend[s].msg /\ w.chunk = chSend[s].chunk
      /\ w.pc = p /\ w.try = t
  BY <1>1 DEF SendRecord, Sending
<1>3. SendOK(s, w)
  BY <1>1, <1>2 DEF SendOK
<1>4. chSend' = [chSend EXCEPT ![s] = w]
  OBVIOUS
<1> HIDE DEF w
<1>5. /\ chQueue' \in [Lanes -> Seq(ChMsgs)] /\ \A l \in Lanes : Len(chQueue'[l]) <= ChQueueSize
      /\ chTaken' \in Seq(ChMsgs) /\ chOut' \in Seq(ChMsgs \X (1..2))
      /\ chFailed' \subseteq ChMsgs \X (1..2)
  BY DEF CmTypes, CmTypeOK
<1>6. CmTypes'
  BY <1>2, <1>3, <1>4, <1>5, SenderTypes
<1>7. chSend'[s] = w /\ \A r \in Senders \ {s} : chSend'[r] = chSend[r]
  BY <1>1, <1>4
<1>8. QED
  BY <1>2, <1>6, <1>7

(* A chunk that is over leaves the invariant as it was.                       *)
LEMMA DoneStep ==
    ASSUME CmIInv, NEW s \in Senders, chSend[s].pc \in Sending, NextChunk(s),
           UNCHANGED <<chBus, chDisp, chQueue, chClosed, chStop, chPanic, chTaken>>,
           \/ chOut' = Append(chOut, <<chSend[s].msg, chSend[s].chunk>>) /\ UNCHANGED chFailed
           \/ /\ chFailed' = chFailed \cup {<<chSend[s].msg, chSend[s].chunk>>}
              /\ UNCHANGED chOut
           \/ Cancelled /\ UNCHANGED <<chOut, chFailed>>
    PROVE  CmIInv'
<1> DEFINE c == <<chSend[s].msg, chSend[s].chunk>>
<1>1. PlacesOK' /\ OrderOK' /\ OnceOK'
  BY ChunkDone DEF CmIInv
<1>2. c \in ChMsgs \X (1..2)
  BY NextOK DEF CmIInv
<1>3. PICK w \in SendRecord : SendOK(s, w) /\ chSend' = [chSend EXCEPT ![s] = w]
  BY NextOK DEF CmIInv
<1>4. \/ chOut' = Append(chOut, c) /\ UNCHANGED chFailed
      \/ chFailed' = chFailed \cup {c} /\ UNCHANGED chOut
      \/ UNCHANGED <<chOut, chFailed>>
  OBVIOUS
<1> HIDE DEF c
<1>5. chOut \in Seq(ChMsgs \X (1..2)) /\ chFailed \subseteq ChMsgs \X (1..2)
  BY DEF CmIInv, CmTypes, CmTypeOK
<1>6. chOut' \in Seq(ChMsgs \X (1..2)) /\ chFailed' \subseteq ChMsgs \X (1..2)
  <2>1. CASE chOut' = Append(chOut, c) /\ UNCHANGED chFailed
    BY <2>1, <1>2, <1>5, AppendProperties
  <2>2. CASE chFailed' = chFailed \cup {c} /\ UNCHANGED chOut
    BY <2>2, <1>2, <1>5
  <2>3. CASE UNCHANGED <<chOut, chFailed>>
    BY <2>3, <1>5
  <2>4. QED
    BY <2>1, <2>2, <2>3, <1>4
<1>7. /\ chQueue' \in [Lanes -> Seq(ChMsgs)] /\ \A l \in Lanes : Len(chQueue'[l]) <= ChQueueSize
      /\ chTaken' \in Seq(ChMsgs)
  BY DEF CmIInv, CmTypes, CmTypeOK
<1>8. CmTypes'
  BY <1>3, <1>6, <1>7, SenderTypes DEF CmIInv
<1>9. QED
  BY <1>1, <1>8 DEF CmIInv

(* A sender in the middle of a chunk leaves the invariant as it was.          *)
LEMMA MidStep ==
    ASSUME CmIInv, NEW s \in Senders, chSend[s].pc \in Sending, NEW p \in Sending,
           NEW t \in 0..MaxRetries, p = "backoff" => t < MaxRetries,
           chSend' = [chSend EXCEPT ![s] = [@ EXCEPT !.pc = p, !.try = t]],
           UNCHANGED <<chBus, chDisp, chQueue, chClosed, chStop, chPanic, chTaken, chOut,
                       chFailed>>
    PROVE  CmIInv'
<1>1. CmTypes' /\ \A r \in Senders : /\ chSend'[r].msg = chSend[r].msg
                                     /\ chSend'[r].chunk = chSend[r].chunk
  BY StepOK DEF CmIInv
<1>2. PlacesOK' /\ OrderOK' /\ OnceOK'
  BY <1>1, NothingMoves DEF CmIInv
<1>3. QED
  BY <1>1, <1>2 DEF CmIInv

(* The dispatchers.                                                           *)
LEMMA DispatchStep ==
    ASSUME CmIInv, NEW l \in Lanes, CmDispatch(l) \/ CmSendOnClosed(l)
    PROVE  CmIInv'
<1> USE DEF CmIInv
<1>1. CmTypes'
  BY DispatchTypes
<1>2. CASE CmReceive(l)
  BY <1>1, <1>2, MessageReceived
<1>3. DOMAIN chDisp = Lanes
  BY DEF CmTypes, CmTypeOK
<1>4. CASE CmDispatchStops(l)
  <2>1. \A o \in Lanes : chDisp'[o].msg = chDisp[o].msg
    BY <1>3, <1>4 DEF CmDispatchStops
  <2>2. QED
    BY <1>1, <2>1, <1>4, NothingMoves DEF CmDispatchStops
<1>5. CASE CmLookup(l)
  <2>1. CASE chDisp[l].msg \in OtherMsgs
    BY <1>1, <1>5, <2>1, MessageSkipped
  <2>2. CASE chDisp[l].msg \notin OtherMsgs
    <3>1. \A o \in Lanes : chDisp'[o].msg = chDisp[o].msg
      <4>1. chDisp' = [chDisp EXCEPT ![l].pc = "enqueue"]
        BY <1>5, <2>2 DEF CmLookup
      <4>2. chDisp[l] \in [pc : {"receive", "lookup", "enqueue", "exited"},
                           msg : ChMsgs \cup {NoChMsg}]
        BY DEF CmTypes, CmTypeOK
      <4>3. QED
        BY <1>3, <4>1, <4>2
    <3>2. UNCHANGED <<chBus, chQueue, chClosed, chSend, chStop, chPanic, chTaken, chOut,
                      chFailed>>
      BY <1>5, <2>2 DEF CmLookup
    <3>3. QED
      BY <1>1, <3>1, <3>2, NothingMoves
  <2>3. QED
    BY <2>1, <2>2
<1>6. CASE CmEnqueue(l)
  BY <1>1, <1>6, MessageQueued
<1>7. CASE CmSendOnClosed(l)
  BY <1>1, <1>7, NothingMoves DEF CmSendOnClosed
<1>8. QED
  BY <1>2, <1>4, <1>5, <1>6, <1>7 DEF CmDispatch

(* The workers, and SendMessage once it has its message.                      *)
LEMMA WorkStep ==
    ASSUME CmIInv, NEW s \in Senders, CmWork(s)
    PROVE  CmIInv'
<1>1. CmTypes
  BY DEF CmIInv
<1>2. /\ chSend \in [Senders -> SendRecord] /\ chSend[s] \in SendRecord
      /\ SendOK(s, chSend[s]) /\ chSend[s].try \in 0..MaxRetries
  BY <1>1 DEF CmTypes, CmTypeOK, SendRecord, SendOK
<1>3. chSend[s] = [chSend[s] EXCEPT !.try = chSend[s].try]
  BY <1>2 DEF SendRecord
<1>4. ASSUME s \in Lanes, CmTake(s) PROVE CmIInv'
  <2> DEFINE q == chQueue[s]
             m == Head(q)
             rest == Tail(q)
  <2>1. /\ q # <<>> /\ chSend' = [chSend EXCEPT ![s] = Start(m, 1)]
        /\ chQueue' = [chQueue EXCEPT ![s] = rest]
        /\ UNCHANGED <<chBus, chDisp, chClosed, chStop, chPanic, chTaken, chOut, chFailed>>
    BY <1>4 DEF CmTake
  <2>2. /\ q \in Seq(ChMsgs) /\ chQueue \in [Lanes -> Seq(ChMsgs)] /\ Len(q) <= ChQueueSize
        /\ chTaken \in Seq(ChMsgs) /\ chOut \in Seq(ChMsgs \X (1..2))
        /\ chFailed \subseteq ChMsgs \X (1..2)
        /\ \A l \in Lanes : Len(chQueue[l]) <= ChQueueSize
    BY <1>1, <1>4 DEF CmTypes, CmTypeOK
  <2>3. /\ rest \in Seq(ChMsgs) /\ Len(rest) = Len(q) - 1 /\ Len(q) \in Nat \ {0}
        /\ m = q[1] /\ 1 \in DOMAIN q
    <3> HIDE DEF q
    <3>1. /\ rest \in Seq(ChMsgs) /\ Len(rest) = Len(q) - 1 /\ Len(q) \in Nat \ {0}
          /\ m = q[1] /\ DOMAIN q = 1..Len(q)
      BY <2>1, <2>2, Beheaded
    <3>2. QED
      BY <3>1
  <2>4. m \in MsgsOf(s)
    BY <1>4, <2>3 DEF CmIInv, PlacesOK
  <2>5. Start(m, 1) \in SendRecord /\ SendOK(s, Start(m, 1))
    <3>1. 1 \in 1..NumChunks(m)
      BY DEF NumChunks
    <3>2. QED
      BY <2>4, <3>1, StartOK
  <2>6. Len(rest) <= ChQueueSize
    BY <2>2, <2>3, ChAssumption
  <2> HIDE DEF rest, m, q
  <2>7. chQueue' \in [Lanes -> Seq(ChMsgs)] /\ \A l \in Lanes : Len(chQueue'[l]) <= ChQueueSize
    <3>1. chQueue'[s] = rest /\ \A l \in Lanes \ {s} : chQueue'[l] = chQueue[l]
      BY <1>4, <2>1, <2>2
    <3>2. QED
      BY <2>1, <2>2, <2>3, <2>6, <3>1
  <2>8. CmTypes'
    BY <1>1, <2>1, <2>2, <2>5, <2>7, SenderTypes
  <2>9. QED
    BY <1>4, <2>8, MessageTaken DEF CmIInv
<1>5. ASSUME s \in Lanes, CmWorkerExits(s) PROVE CmIInv'
  <2> DEFINE w == [chSend[s] EXCEPT !.pc = "exited"]
  <2>1. /\ chSend' = [chSend EXCEPT ![s] = w] /\ chSend[s].pc = "select"
        /\ UNCHANGED <<chBus, chDisp, chQueue, chClosed, chStop, chPanic, chTaken, chOut, chFailed>>
    BY <1>5 DEF CmWorkerExits
  <2>2. w \in SendRecord /\ w.msg = chSend[s].msg /\ w.chunk = chSend[s].chunk /\ w.pc = "exited"
    BY <1>2 DEF SendRecord
  <2>3. SendOK(s, w)
    BY <1>2, <2>1, <2>2 DEF SendOK, Sending
  <2> HIDE DEF w
  <2>4. /\ chQueue \in [Lanes -> Seq(ChMsgs)] /\ \A l \in Lanes : Len(chQueue[l]) <= ChQueueSize
        /\ chTaken \in Seq(ChMsgs) /\ chOut \in Seq(ChMsgs \X (1..2))
        /\ chFailed \subseteq ChMsgs \X (1..2)
    BY <1>1 DEF CmTypes, CmTypeOK
  <2>5. CmTypes'
    BY <1>1, <2>1, <2>2, <2>3, <2>4, SenderTypes
  <2>6. \A r \in Senders : chSend'[r].msg = chSend[r].msg /\ chSend'[r].chunk = chSend[r].chunk
    BY <1>2, <2>1, <2>2
  <2>7. QED
    BY <2>1, <2>5, <2>6, NothingMoves DEF CmIInv
<1>6. ASSUME CmLimit(s) PROVE CmIInv'
  <2>1. chSend[s].pc \in Sending
    BY <1>6 DEF CmLimit, Sending
  <2>2. CASE Interrupted(s)
    BY <1>6, <2>1, <2>2, DoneStep DEF CmLimit, Interrupted
  <2>3. CASE ~Interrupted(s)
    <3> DEFINE p == IF s = "media" THEN "send" ELSE "presend"
    <3>1. p \in Sending /\ p # "backoff"
      BY DEF Sending
    <3>2. chSend' = [chSend EXCEPT ![s] = [@ EXCEPT !.pc = p, !.try = chSend[s].try]]
      BY <1>2, <1>6, <2>3 DEF CmLimit, SendRecord
    <3> HIDE DEF p
    <3>3. UNCHANGED <<chBus, chDisp, chQueue, chClosed, chStop, chPanic, chTaken, chOut, chFailed>>
      BY <1>6 DEF CmLimit
    <3>4. QED
      BY <1>2, <2>1, <3>1, <3>2, <3>3, MidStep
  <2>4. QED
    BY <2>2, <2>3
<1>7. ASSUME NEW edited \in BOOLEAN, CmPreSend(s, edited) PROVE CmIInv'
  <2>1. chSend[s].pc \in Sending
    BY <1>7 DEF CmPreSend, Sending
  <2>2. CASE edited
    BY <1>7, <2>1, <2>2, DoneStep DEF CmPreSend
  <2>3. CASE ~edited
    <3>1. chSend' = [chSend EXCEPT ![s] = [@ EXCEPT !.pc = "send", !.try = chSend[s].try]]
      BY <1>2, <1>7, <2>3 DEF CmPreSend, SendRecord
    <3>2. UNCHANGED <<chBus, chDisp, chQueue, chClosed, chStop, chPanic, chTaken, chOut, chFailed>>
      BY <1>7, <2>3 DEF CmPreSend
    <3>3. "send" \in Sending
      BY DEF Sending
    <3>4. QED
      BY <1>2, <2>1, <3>1, <3>2, <3>3, MidStep
  <2>4. QED
    BY <2>2, <2>3
<1>8. ASSUME NEW outcome \in {"ok", "permanent", "temporary"}, CmAttempt(s, outcome)
      PROVE  CmIInv'
  <2>1. chSend[s].pc \in Sending
    BY <1>8 DEF CmAttempt, Sending
  <2>2. UNCHANGED <<chBus, chDisp, chQueue, chClosed, chStop, chPanic, chTaken>>
    BY <1>8 DEF CmAttempt
  <2>3. \/ /\ chOut' = Append(chOut, <<chSend[s].msg, chSend[s].chunk>>)
           /\ NextChunk(s) /\ UNCHANGED chFailed
        \/ /\ chFailed' = chFailed \cup {<<chSend[s].msg, chSend[s].chunk>>}
           /\ NextChunk(s) /\ UNCHANGED chOut
        \/ /\ chSend[s].try # MaxRetries
           /\ chSend' = [chSend EXCEPT ![s].pc = "backoff"] /\ UNCHANGED <<chOut, chFailed>>
    BY <1>8 DEF CmAttempt
  <2>4. CASE /\ chSend[s].try # MaxRetries
             /\ chSend' = [chSend EXCEPT ![s].pc = "backoff"] /\ UNCHANGED <<chOut, chFailed>>
    <3>1. chSend' = [chSend EXCEPT ![s] = [@ EXCEPT !.pc = "backoff", !.try = chSend[s].try]]
      BY <1>2, <2>4 DEF SendRecord
    <3>2. chSend[s].try < MaxRetries /\ "backoff" \in Sending
      BY <1>2, <2>4, ChAssumption DEF Sending
    <3>3. QED
      BY <1>2, <2>1, <2>2, <2>4, <3>1, <3>2, MidStep
  <2>5. QED
    BY <2>1, <2>2, <2>3, <2>4, DoneStep
<1>9. ASSUME CmBackoff(s) PROVE CmIInv'
  <2>1. chSend[s].pc \in Sending /\ chSend[s].try < MaxRetries
    BY <1>2, <1>9 DEF CmBackoff, Sending, SendOK
  <2>2. UNCHANGED <<chBus, chDisp, chQueue, chClosed, chStop, chPanic, chTaken, chOut, chFailed>>
    BY <1>9 DEF CmBackoff
  <2>3. CASE chSend' = [chSend EXCEPT ![s].pc = "send", ![s].try = @ + 1]
    <3>1. chSend' = [chSend EXCEPT ![s] = [@ EXCEPT !.pc = "send", !.try = chSend[s].try + 1]]
      BY <1>2, <2>3 DEF SendRecord
    <3>2. chSend[s].try + 1 \in 0..MaxRetries /\ "send" \in Sending
      BY <1>2, <2>1, ChAssumption DEF Sending
    <3>3. QED
      BY <2>1, <2>2, <3>1, <3>2, MidStep
  <2>4. CASE Interrupted(s) /\ NextChunk(s)
    BY <2>1, <2>2, <2>4, DoneStep DEF Interrupted
  <2>5. QED
    BY <1>9, <2>3, <2>4 DEF CmBackoff
<1>10. QED
  BY <1>4, <1>5, <1>6, <1>7, <1>8, <1>9 DEF CmWork

(* The agent loop hands a message over.                                       *)
LEMMA HandOverStep ==
    ASSUME CmIInv, NEW m \in DirectMsgs, CmSendMessage(m)
    PROVE  CmIInv'
<1>1. CmTypes
  BY DEF CmIInv
<1>2. /\ chSend' = [chSend EXCEPT !["direct"] = Start(m, 1)] /\ chTaken' = Append(chTaken, m)
      /\ UNCHANGED <<chBus, chDisp, chQueue, chClosed, chStop, chPanic, chOut, chFailed>>
  BY DEF CmSendMessage
<1>3. m \in ChMsgs /\ m \in MsgsOf("direct") /\ 1 \in 1..NumChunks(m) /\ "direct" \in Senders
  BY LanesApart DEF MsgsOf, ChMsgs, NumChunks
<1>4. Start(m, 1) \in SendRecord /\ SendOK("direct", Start(m, 1))
  BY <1>3, StartOK
<1>5. /\ chQueue \in [Lanes -> Seq(ChMsgs)] /\ \A l \in Lanes : Len(chQueue[l]) <= ChQueueSize
      /\ chTaken \in Seq(ChMsgs) /\ chOut \in Seq(ChMsgs \X (1..2))
      /\ chFailed \subseteq ChMsgs \X (1..2)
  BY <1>1 DEF CmTypes, CmTypeOK
<1>6. chTaken' \in Seq(ChMsgs)
  BY <1>2, <1>3, <1>5, AppendProperties
<1>7. CmTypes'
  BY <1>1, <1>2, <1>3, <1>4, <1>5, <1>6, SenderTypes
<1>8. QED
  BY <1>7, MessageHandedOver DEF CmIInv

(* StopAll moves no message.                                                  *)
LEMMA StopStep ==
    ASSUME CmIInv, CmStopAll \/ CmStopping
    PROVE  CmIInv'
<1>1. /\ UNCHANGED <<chBus, chDisp, chQueue, chSend, chPanic, chTaken, chOut, chFailed>>
      /\ chStop' \in {"cancelled", "text", "media", "stopped"}
      /\ chClosed' \subseteq chClosed \cup Lanes
  BY DEF CmStopAll, CmStopping, CmCloseQueue, CmStopped, Lanes
<1>2. CmTypes'
  BY <1>1 DEF CmIInv, CmTypes, CmTypeOK
<1>3. PlacesOK' /\ OrderOK' /\ OnceOK'
  BY <1>1, NothingMoves DEF CmIInv
<1>4. QED
  BY <1>2, <1>3 DEF CmIInv

(* Every step of the manager preserves the invariant.                         *)
LEMMA CmStepInv == CmIInv /\ [CmNext]_chVars => CmIInv'
<1> SUFFICES ASSUME CmIInv, [CmNext]_chVars PROVE CmIInv'
  OBVIOUS
<1>1. CASE CmNext
  BY <1>1, DispatchStep, WorkStep, HandOverStep, StopStep DEF CmNext
<1>2. CASE UNCHANGED chVars
  <2>1. CmTypes'
    BY <1>2 DEF chVars, CmIInv, CmTypes, CmTypeOK
  <2>2. PlacesOK' /\ OrderOK' /\ OnceOK'
    BY <1>2, NothingMoves DEF chVars, CmIInv
  <2>3. QED
    BY <2>1, <2>2 DEF CmIInv
<1>3. QED
  BY <1>1, <1>2

(* A finite set, as a sequence, is there once and in no order in particular.  *)
LEMMA AsSequence ==
    ASSUME NEW S, IsFiniteSet(S)
    PROVE  /\ SetToSeq(S) \in Seq(S) /\ \A i \in DOMAIN SetToSeq(S) : SetToSeq(S)[i] \in S
           /\ \A i, j \in DOMAIN SetToSeq(S) : SetToSeq(S)[i] = SetToSeq(S)[j] => i = j
<1> DEFINE n == Cardinality(S)
<1>1. n \in Nat /\ ExistsBijection(1..n, S)
  BY FS_CardinalityType
<1>2. \E f \in [1..n -> S] : IsInjective(f)
  BY <1>1 DEF ExistsBijection, Bijection, Injection, IsInjective
<1>3. SetToSeq(S) \in [1..n -> S] /\ IsInjective(SetToSeq(S))
  BY <1>2 DEF SetToSeq
<1> DEFINE t == SetToSeq(S)
<1> HIDE DEF t, n
<1>4. t \in [1..n -> S] /\ IsInjective(t)
  BY <1>3 DEF t, n
<1>5. DOMAIN t = 1..n /\ t \in Seq(S) /\ \A i \in DOMAIN t : t[i] \in S
  BY <1>1, <1>4 DEF n
<1>6. \A i, j \in DOMAIN t : t[i] = t[j] => i = j
  BY <1>4 DEF IsInjective
<1>7. QED
  BY <1>5, <1>6 DEF t

(* At first every message is on the bus.                                      *)
LEMMA CmInitInv == CmInit => CmIInv
<1> SUFFICES ASSUME CmInit PROVE CmIInv
  OBVIOUS
<1>1. /\ chBus \in [Lanes -> Seq(ChMsgs)]
      /\ \A l \in Lanes : \A i \in DOMAIN chBus[l] : chBus[l][i] \in MsgsOf(l)
      /\ \A l \in Lanes : \A i, j \in DOMAIN chBus[l] : chBus[l][i] = chBus[l][j] => i = j
  <2>1. ASSUME NEW l \in Lanes
        PROVE  /\ chBus[l] \in Seq(MsgsOf(l)) /\ \A i \in DOMAIN chBus[l] : chBus[l][i] \in MsgsOf(l)
               /\ \A i, j \in DOMAIN chBus[l] : chBus[l][i] = chBus[l][j] => i = j
    <3>1. IsFiniteSet(MsgsOf(l)) /\ chBus[l] = SetToSeq(MsgsOf(l))
      BY ChAssumption DEF CmInit, MsgsOf, Lanes
    <3>2. QED
      BY <3>1, AsSequence
  <2>2. \A l \in Lanes : MsgsOf(l) \subseteq ChMsgs
    BY LanesApart
  <2>3. \A l \in Lanes : Seq(MsgsOf(l)) \subseteq Seq(ChMsgs)
    BY <2>2
  <2>4. DOMAIN chBus = Lanes /\ chBus = [l \in Lanes |-> chBus[l]]
    BY DEF CmInit
  <2>5. chBus \in [Lanes -> Seq(ChMsgs)]
    BY <2>1, <2>3, <2>4
  <2>6. QED
    BY <2>1, <2>5
<1>2. /\ chDisp = [l \in Lanes |-> [pc |-> "receive", msg |-> NoChMsg]]
      /\ chQueue = [l \in Lanes |-> <<>>] /\ chSend = [s \in Senders |-> IdleSender(s)]
      /\ chClosed = {} /\ chStop = "running" /\ chPanic = FALSE
      /\ chTaken = <<>> /\ chOut = <<>> /\ chFailed = {}
  BY DEF CmInit
<1>3. \A s \in Senders : IdleSender(s) \in SendRecord /\ SendOK(s, IdleSender(s))
  BY IdleOK
<1>4. /\ \A l \in Lanes : chQueue[l] = <<>> /\ Len(chQueue[l]) <= ChQueueSize
                          /\ DOMAIN chQueue[l] = {} /\ chQueue[l] \in Seq(ChMsgs)
      /\ \A l \in Lanes : chDisp[l].msg = NoChMsg /\ chDisp[l].pc = "receive"
      /\ \A s \in Senders : chSend[s].msg = NoChMsg
  <2>1. Len(<<>>) = 0 /\ DOMAIN <<>> = {} /\ <<>> \in Seq(ChMsgs)
    BY EmptySeq
  <2>2. 0 <= ChQueueSize
    BY ChAssumption
  <2>3. QED
    BY <1>2, <2>1, <2>2 DEF IdleSender
<1>5. DOMAIN chTaken = {} /\ DOMAIN chOut = {} /\ chFailed = {} /\ TakenMsgs = {}
      /\ chTaken \in Seq(ChMsgs) /\ chOut \in Seq(ChMsgs \X (1..2))
  BY <1>2, EmptySeq DEF TakenMsgs, Range
<1>6. CmTypes
  <2>1. chSend \in [Senders -> SendRecord] /\ \A s \in Senders : SendOK(s, chSend[s])
    BY <1>2, <1>3
  <2>2. chQueue \in [Lanes -> Seq(ChMsgs)]
    BY <1>2, EmptySeq
  <2>3. QED
    BY <1>1, <1>2, <1>4, <1>5, <2>1, <2>2
       DEF CmTypes, CmTypeOK, SendRecord, SendOK
<1>7. PlacesOK
  BY <1>1, <1>4, <1>5 DEF PlacesOK, Taken
<1>8. OrderOK
  BY <1>4, <1>5, LanesApart DEF OrderOK, InOrder
<1>9. OnceOK
  BY <1>5 DEF OnceOK, Taken
<1>10. QED
  BY <1>6, <1>7, <1>8, <1>9 DEF CmIInv

(* How often a chunk was accepted, where no chunk was accepted twice.         *)
LEMMA OutOnce ==
    ASSUME \A x, y \in DOMAIN chOut : chOut[x] = chOut[y] => x = y, NEW c
    PROVE  Cardinality({i \in DOMAIN chOut : chOut[i] = c}) = IF IsOut(c) THEN 1 ELSE 0
<1>1. IsOut(c) <=> \E x \in DOMAIN chOut : chOut[x] = c
  BY DEF IsOut, OutChunks, Range
<1>2. CASE \E x \in DOMAIN chOut : chOut[x] = c
  <2>1. PICK x \in DOMAIN chOut : chOut[x] = c
    BY <1>2
  <2>2. {i \in DOMAIN chOut : chOut[i] = c} = {x}
    BY <2>1
  <2>3. QED
    BY <1>1, <1>2, <2>2, FS_Singleton
<1>3. CASE ~\E x \in DOMAIN chOut : chOut[x] = c
  <2>1. {i \in DOMAIN chOut : chOut[i] = c} = {}
    BY <1>3
  <2>2. QED
    BY <1>1, <1>3, <2>1, FS_EmptySet
<1>4. QED
  BY <1>2, <1>3

(* What the invariant says of the chunks is what the run checks.              *)
LEMMA CmIInvImplies == CmIInv => CmInv
<1> SUFFICES ASSUME CmIInv PROVE CmInv
  OBVIOUS
<1>1. CmTypeOK
  BY DEF CmIInv, CmTypes
<1>2. EachChunkOnce
  <2> SUFFICES ASSUME chStop = "running", NEW m \in Range(chTaken), NEW k \in 1..NumChunks(m)
               PROVE  Cardinality({i \in DOMAIN chOut : chOut[i] = <<m, k>>})
                        + (IF <<m, k>> \in chFailed THEN 1 ELSE 0)
                        + (IF Held(m, k) THEN 1 ELSE 0) = 1
    BY DEF EachChunkOnce
  <2> DEFINE n == Cardinality({i \in DOMAIN chOut : chOut[i] = <<m, k>>})
  <2>1. n = IF IsOut(<<m, k>>) THEN 1 ELSE 0
    <3>1. \A x, y \in DOMAIN chOut : chOut[x] = chOut[y] => x = y
      BY DEF CmIInv, OnceOK
    <3>2. QED
      BY <3>1, OutOnce
  <2>2. m \in ChMsgs /\ Taken(m)
    <3>1. chTaken \in Seq(ChMsgs)
      BY <1>1 DEF CmTypeOK
    <3>2. QED
      BY <3>1 DEF Taken, TakenMsgs, Range
  <2>3. /\ IsOut(<<m, k>>) \/ <<m, k>> \in chFailed \/ Held(m, k)
        /\ ~(IsOut(<<m, k>>) /\ <<m, k>> \in chFailed)
        /\ ~(IsOut(<<m, k>>) /\ Held(m, k))
        /\ ~(<<m, k>> \in chFailed /\ Held(m, k))
    BY <2>2 DEF CmIInv, OnceOK
  <2> HIDE DEF n
  <2>4. n + (IF <<m, k>> \in chFailed THEN 1 ELSE 0) + (IF Held(m, k) THEN 1 ELSE 0) = 1
    BY <2>1, <2>3
  <2>5. QED
    BY <2>4 DEF n
<1>3. TextInOrder
  <2> SUFFICES ASSUME NEW i \in DOMAIN chOut, NEW j \in DOMAIN chOut, i < j,
                      chOut[i][1] \in TextMsgs, chOut[j][1] \in TextMsgs
               PROVE  \/ chOut[i][1] = chOut[j][1] /\ chOut[i][2] < chOut[j][2]
                      \/ \E x, y \in DOMAIN chTaken : /\ x < y /\ chTaken[x] = chOut[i][1]
                                                      /\ chTaken[y] = chOut[j][1]
    BY DEF TextInOrder
  <2>1. "text" \in Lanes /\ MsgsOf("text") = TextMsgs
    BY DEF Lanes, MsgsOf
  <2>2. \/ chOut[i][1] = chOut[j][1] /\ chOut[i][2] < chOut[j][2]
        \/ Before(chOut[i][1], chOut[j][1])
    BY <2>1 DEF CmIInv, OrderOK, InOrder
  <2>3. QED
    BY <2>2, TakenIs
<1>4. QED
  BY <1>1, <1>2, <1>3 DEF CmInv

(* TLC: CmInv.  However dispatchers, workers, SendMessage, retries and        *)
(* StopAll overlap, a chunk is held, sent or given up once until the stop,    *)
(* and text messages reach the service in the order they were taken.          *)
THEOREM ManagerCorrect == CmSpec => []CmInv
<1>1. CmInit => CmIInv
  BY CmInitInv
<1>2. CmIInv /\ [CmNext]_chVars => CmIInv'
  BY CmStepInv
<1>3. CmIInv => CmInv
  BY CmIInvImplies
<1>4. QED
  BY <1>1, <1>2, <1>3, PTL DEF CmSpec

-----------------------------------------------------------------------------
(***************************************************************************)
(* AdapterInbound.  What is left of a handler ends with its only publish;  *)
(* a check that its message fails, and the mark of its id, are ahead of it *)
(* until they are taken.                                                   *)
(***************************************************************************)
HandlerSteps == {"allow", "bots", "blind", "content", "dedupe", "fetch", "fetched", "group",
                 "grouponly", "own", "publish", "slot", "text"}

\* What is left of a handler still has step x; it has it only once.
Ahead(x, rest) == \E i \in 1..Len(rest) : rest[i] = x
OnlyOnce(x, rest) == \A i, j \in 1..Len(rest) : rest[i] = x /\ rest[j] = x => i = j

\* The adapters with a dedupe map, and those that take every message of a group.
Dedupers == {"qq", "onebot", "wecom", "wecom_app"}
Unguarded == {"whatsapp", "whatsapp_native", "wecom_app", "slack"}

EndsWithPublish(rest) ==
    /\ rest \in Seq(HandlerSteps) /\ Len(rest) > 0 /\ rest[Len(rest)] = "publish"
    /\ OnlyOnce("publish", rest) /\ OnlyOnce("slot", rest) /\ OnlyOnce("dedupe", rest)

\* What each handler of the table has.
HandlerOK(name, handler) ==
    /\ EndsWithPublish(handler)
    /\ name \in Dedupers => Ahead("dedupe", handler)
    /\ name \notin Unguarded =>
         Ahead("group", handler) \/ Ahead("blind", handler) \/ handler = QQGroup

\* Each adapter is looked at by itself: nothing else here depends on the table.
LEMMA EveryHandler ==
    ASSUME NEW name \in DOMAIN Adapters, NEW handler \in Adapters[name]
    PROVE  HandlerOK(name, handler)
<1> USE DEF HandlerOK, EndsWithPublish, OnlyOnce, Ahead, Dedupers, Unguarded, HandlerSteps
<1>1. HandlerOK("telegram", Telegram)
    BY DEF Telegram
<1>2. HandlerOK("discord", Discord)
    BY DEF Discord
<1>3. HandlerOK("slack", SlackMessage)
    BY DEF SlackMessage
<1>4. HandlerOK("slack", SlackMention)
    BY DEF SlackMention
<1>5. HandlerOK("slack", SlackCommand)
    BY DEF SlackCommand
<1>6. HandlerOK("feishu", Feishu)
    BY DEF Feishu
<1>7. HandlerOK("line", Line)
    BY DEF Line
<1>8. HandlerOK("qq", QQDirect)
    BY DEF QQDirect, QQGroup
<1>9. HandlerOK("qq", QQGroup)
    BY DEF QQGroup
<1>10. HandlerOK("onebot", OneBot)
    BY DEF OneBot
<1>11. HandlerOK("matrix", Matrix)
    BY DEF Matrix
<1>12. HandlerOK("wecom", WeComBot)
    BY DEF WeComBot
<1>13. HandlerOK("wecom_app", WeComApp)
    BY DEF WeComApp
<1>14. HandlerOK("signal", SignalData)
    BY DEF SignalData
<1>15. HandlerOK("signal", SignalSync)
    BY DEF SignalSync
<1>16. HandlerOK("whatsapp", WhatsApp)
    BY DEF WhatsApp
<1>17. HandlerOK("whatsapp_native", WhatsAppNative)
    BY DEF WhatsAppNative
<1>18. HandlerOK("irc", IRC)
    BY DEF IRC
<1>19. HandlerOK("dingtalk", DingTalk)
    BY DEF DingTalk
<1>20. \/ name = "telegram" /\ handler \in {Telegram}
       \/ name = "discord" /\ handler \in {Discord}
       \/ name = "slack" /\ handler \in {SlackMessage, SlackMention, SlackCommand}
       \/ name = "feishu" /\ handler \in {Feishu}
       \/ name = "line" /\ handler \in {Line}
       \/ name = "qq" /\ handler \in {QQDirect, QQGroup}
       \/ name = "onebot" /\ handler \in {OneBot}
       \/ name = "matrix" /\ handler \in {Matrix}
       \/ name = "wecom" /\ handler \in {WeComBot}
       \/ name = "wecom_app" /\ handler \in {WeComApp}
       \/ name = "signal" /\ handler \in {SignalData, SignalSync}
       \/ name = "whatsapp" /\ handler \in {WhatsApp}
       \/ name = "whatsapp_native" /\ handler \in {WhatsAppNative}
       \/ name = "irc" /\ handler \in {IRC}
       \/ name = "dingtalk" /\ handler \in {DingTalk}
    BY DEF Adapters
<1> HIDE DEF HandlerOK
<1> QED
    BY <1>1, <1>2, <1>3, <1>4, <1>5, <1>6, <1>7, <1>8, <1>9, <1>10, <1>11, <1>12, <1>13, <1>14, <1>15, <1>16, <1>17, <1>18, <1>19, <1>20

\* Who has marked the message's id, and who cannot write the slot any more.
Marked(d) == Published(d) \/ (aiState[d] = "handled" /\ ~Ahead("dedupe", aiRest[d]))
Slotted(d) == /\ aiState[d] # "new"
              /\ aiState[d] = "handled" => ~Ahead("slot", aiRest[d])

AiRests ==
    /\ aiRest \in [AiDeliveries -> Seq(HandlerSteps)]
    /\ \A d \in AiDeliveries : aiState[d] = "handled" => EndsWithPublish(aiRest[d])

\* A group that the bot keeps out of is still ahead of the handler as a check.
AiGuards ==
    \A d \in AiDeliveries :
        aiMsg[d].chat = "closed" /\ aiName \notin Unguarded =>
            /\ ~Published(d)
            /\ aiState[d] = "handled" =>
                 Ahead("group", aiRest[d]) \/ Ahead("blind", aiRest[d])

AiAllowed == \A d \in AiDeliveries : Published(d) => aiMsg[d].allowed

\* One delivery of a message marks its id.
AiMarks ==
    aiTwin /\ aiName \in Dedupers =>
        /\ \A d \in AiDeliveries : Marked(d) => 1 \in aiSeen
        /\ \A d, e \in AiDeliveries : Marked(d) /\ Marked(e) => d = e

\* A slot that an answer has used is not written again.
AiSlots ==
    aiName \in TakesSlot =>
        /\ aiSlot # 0 => Slotted(aiSlot)
        /\ \A u \in aiUsed : Slotted(u[2]) /\ u[2] # aiSlot

AiIInv == AiTypeOK /\ AiRests /\ AiGuards /\ AiAllowed /\ AiMarks /\ AiSlots /\ TokenUsedOnce

\* What the checks that matter here let pass.
LEMMA ChecksAre ==
    ASSUME NEW d
    PROVE  /\ Passes("publish", d) => aiMsg[d].allowed
           /\ Passes("dedupe", d) => AiId(d) \notin aiSeen
           /\ Passes("slot", d)
           /\ aiMsg[d].chat = "closed" => ~Passes("group", d) /\ ~Passes("blind", d)
<1>1. Passes("publish", d) => aiMsg[d].allowed
    BY Zenon DEF Passes
<1>2. Passes("dedupe", d) => AiId(d) \notin aiSeen
    BY Zenon DEF Passes
<1>3. Passes("slot", d)
    BY Zenon DEF Passes
<1>4. ASSUME aiMsg[d].chat = "closed" PROVE ~Passes("group", d)
    BY <1>4, Zenon DEF Passes, InGroup, ShouldRespondInGroup
<1>5. ASSUME aiMsg[d].chat = "closed" PROVE ~Passes("blind", d)
    BY <1>5, Zenon DEF Passes, InGroup, RespondsBlind
<1> QED
    BY <1>1, <1>2, <1>3, <1>4, <1>5

\* A step of a handler takes the first of what is left; publish is the last.
LEMMA RestMoves ==
    ASSUME NEW rest, EndsWithPublish(rest)
    PROVE  /\ Head(rest) \in HandlerSteps /\ Tail(rest) \in Seq(HandlerSteps)
           /\ Head(rest) # "publish" => EndsWithPublish(Tail(rest))
           /\ Head(rest) = "publish" => \A x : Ahead(x, rest) => x = "publish"
           /\ \A x : Ahead(x, Tail(rest)) => Ahead(x, rest)
           /\ \A x : Ahead(x, rest) => Head(rest) = x \/ Ahead(x, Tail(rest))
           /\ Ahead(Head(rest), rest)
           /\ Head(rest) \in {"slot", "dedupe"} => ~Ahead(Head(rest), Tail(rest))
<1> PICK n \in Nat : n = Len(rest) /\ n > 0
    BY DEF EndsWithPublish
<1> DEFINE t == Tail(rest)
<1>1. rest \in Seq(HandlerSteps) /\ rest # <<>> /\ rest[n] = "publish"
    BY DEF EndsWithPublish
<1>2. /\ Head(rest) = rest[1] /\ t \in Seq(HandlerSteps)
      /\ Len(t) = n - 1 /\ \A i \in 1..(n - 1) : t[i] = rest[i + 1]
    BY <1>1
<1> HIDE DEF t
<1>3. Head(rest) \in HandlerSteps /\ Ahead(Head(rest), rest)
    BY <1>1, <1>2 DEF Ahead
<1>4. \A x : OnlyOnce(x, rest) => OnlyOnce(x, t)
    BY <1>2 DEF OnlyOnce
<1>5. \A x : Ahead(x, t) => Ahead(x, rest)
    BY <1>2 DEF Ahead
<1>6. ASSUME NEW x, Ahead(x, rest), Head(rest) # x PROVE Ahead(x, t)
    <2>1. PICK i \in 1..n : rest[i] = x
        BY <1>6 DEF Ahead
    <2>4. i # 1
        BY <1>2, <1>6, <2>1
    <2>5. i - 1 \in 1..(n - 1) /\ i = (i - 1) + 1
        BY <2>4
    <2>2. PICK j \in 1..(n - 1) : i = j + 1
        BY <2>5
    <2>3. t[j] = x
        BY <1>2, <2>1, <2>2
    <2> QED
        BY <1>2, <2>2, <2>3 DEF Ahead
<1>7. Head(rest) # "publish" => EndsWithPublish(t)
    <2>1. Head(rest) # "publish" => n - 1 \in 1..(n - 1)
        BY <1>1, <1>2
    <2> QED
        BY <1>1, <1>2, <1>4, <2>1 DEF EndsWithPublish
<1>8. ASSUME Head(rest) = "publish", NEW x, Ahead(x, rest) PROVE x = "publish"
    <2>1. n = 1
        BY <1>1, <1>2, <1>8 DEF EndsWithPublish, OnlyOnce
    <2> QED
        BY <1>1, <1>8, <2>1 DEF Ahead
<1>9. ASSUME OnlyOnce(Head(rest), rest) PROVE ~Ahead(Head(rest), t)
    BY <1>1, <1>2, <1>9 DEF OnlyOnce, Ahead
<1> QED
    BY <1>2, <1>3, <1>5, <1>6, <1>7, <1>8, <1>9 DEF t, EndsWithPublish

LEMMA AiInitInv == AiAssumption /\ AiInit => AiIInv
<1> SUFFICES ASSUME AiAssumption, AiInit PROVE AiIInv
    OBVIOUS
<1>1. AiNone \in AiMessages
    <2>1. [robot |-> TRUE, allowed |-> TRUE, chat |-> "direct", body |-> "none"] \in AiMessages
        BY DEF AiMessages
    <2> QED
        BY <2>1 DEF AiNone
<1>2. AiTypeOK
    BY <1>1 DEF AiInit, AiTypeOK
<1>3. AiRests /\ AiGuards /\ AiAllowed /\ AiMarks
    BY DEF AiInit, AiRests, AiGuards, AiAllowed, AiMarks, Marked, Published
<1>4. AiSlots /\ TokenUsedOnce
    BY DEF AiInit, AiSlots, TokenUsedOnce
<1> QED
    BY <1>2, <1>3, <1>4 DEF AiIInv

\* A message arrives at the first step of a handler.
LEMMA ArriveInv ==
    ASSUME AiAssumption, AiIInv, NEW d \in AiDeliveries, NEW m \in AiMessages,
           NEW handler \in Adapters[aiName], AiArrive(d, m, handler)
    PROVE  AiIInv'
<1> USE DEF AiIInv
<1>1. /\ aiState[d] = "new" /\ Fits(handler, m)
      /\ aiMsg' = [aiMsg EXCEPT ![d] = m] /\ aiRest' = [aiRest EXCEPT ![d] = handler]
      /\ aiState' = [aiState EXCEPT ![d] = "handled"]
      /\ UNCHANGED <<aiName, aiTwin, aiSeen, aiFetched, aiSlot, aiSeq, aiUsed>>
    BY DEF AiArrive
<1>2. HandlerOK(aiName, handler)
    BY EveryHandler DEF AiTypeOK
<1>3. handler \in Seq(HandlerSteps) /\ EndsWithPublish(handler)
    BY <1>2 DEF HandlerOK, EndsWithPublish
<1>4. AiTypeOK'
    BY <1>1 DEF AiTypeOK
<1>5. AiRests'
    BY <1>1, <1>3 DEF AiRests, AiTypeOK
<1>6. /\ aiState'[d] = "handled" /\ aiMsg'[d] = m /\ aiRest'[d] = handler
      /\ \A e \in AiDeliveries \ {d} :
           aiState'[e] = aiState[e] /\ aiMsg'[e] = aiMsg[e] /\ aiRest'[e] = aiRest[e]
    BY <1>1 DEF AiTypeOK, AiRests
<1>7. AiGuards'
    <2>1. m.chat = "closed" => handler # QQGroup
        BY <1>1 DEF Fits
    <2>2. ASSUME m.chat = "closed", aiName \notin Unguarded
          PROVE  Ahead("group", handler) \/ Ahead("blind", handler)
        BY <1>2, <2>1, <2>2 DEF HandlerOK
    <2> QED
        BY <1>1, <1>6, <2>2 DEF AiGuards, Published
<1>8. AiAllowed'
    BY <1>6 DEF AiAllowed, Published
<1>9. AiMarks'
    <2>1. aiName \in Dedupers => Ahead("dedupe", handler)
        BY <1>2 DEF HandlerOK
    <2> QED
        BY <1>1, <1>6, <2>1 DEF AiMarks, Marked, Published
<1>10. AiSlots'
    BY <1>1, <1>6 DEF AiSlots, Slotted, AiTypeOK
<1>11. TokenUsedOnce'
    BY <1>1 DEF TokenUsedOnce
<1> QED
    BY <1>4, <1>5, <1>7, <1>8, <1>9, <1>10, <1>11

\* A handler takes its next step.
LEMMA HandleInv ==
    ASSUME AiAssumption, AiIInv, NEW d \in AiDeliveries, AiHandle(d)
    PROVE  AiIInv'
<1> USE DEF AiIInv
<1> PICK rest, step : rest = aiRest[d] /\ step = Head(rest)
    OBVIOUS
<1> DEFINE ok == Passes(step, d)
<1> HIDE DEF ok
<1>1. /\ aiState[d] = "handled"
      /\ aiRest' = [aiRest EXCEPT ![d] = Tail(rest)]
      /\ aiState' = [aiState EXCEPT ![d] = IF ~ok THEN "dropped"
                                           ELSE IF step = "publish" THEN "published" ELSE @]
      /\ aiSeen' = IF step = "dedupe" THEN aiSeen \cup {AiId(d)} ELSE aiSeen
      /\ aiFetched' \in {aiFetched, aiFetched \cup {d}}
      /\ IF step = "slot" THEN aiSlot' = d /\ aiSeq' = 0 ELSE UNCHANGED <<aiSlot, aiSeq>>
      /\ UNCHANGED <<aiName, aiMsg, aiTwin, aiUsed>>
    BY DEF AiHandle, ok
<1>2. EndsWithPublish(rest)
    BY <1>1 DEF AiRests
<1>3. /\ Tail(rest) \in Seq(HandlerSteps)
      /\ step # "publish" => EndsWithPublish(Tail(rest))
      /\ step = "publish" => \A x : Ahead(x, rest) => x = "publish"
      /\ \A x : Ahead(x, Tail(rest)) => Ahead(x, rest)
      /\ \A x : Ahead(x, rest) => step = x \/ Ahead(x, Tail(rest))
      /\ Ahead(step, rest)
      /\ step \in {"slot", "dedupe"} => ~Ahead(step, Tail(rest))
    BY <1>2, RestMoves
<1>4. /\ ok /\ step = "publish" => aiMsg[d].allowed
      /\ ok /\ step = "dedupe" => AiId(d) \notin aiSeen
      /\ step = "slot" => ok
      /\ aiMsg[d].chat = "closed" /\ step \in {"group", "blind"} => ~ok
    BY ChecksAre DEF ok
<1>5. AiTypeOK'
    BY <1>1 DEF AiTypeOK, AiId
<1>6. /\ aiRest'[d] = Tail(rest)
      /\ \/ aiState'[d] = "dropped" /\ ~ok
         \/ aiState'[d] = "published" /\ ok /\ step = "publish"
         \/ aiState'[d] = "handled" /\ ok /\ step # "publish"
      /\ \A e \in AiDeliveries \ {d} : aiState'[e] = aiState[e] /\ aiRest'[e] = aiRest[e]
    BY <1>1 DEF AiTypeOK, AiRests
<1>7. AiRests'
    BY <1>1, <1>3, <1>6 DEF AiRests
<1>8. AiGuards'
    BY <1>1, <1>3, <1>4, <1>6 DEF AiGuards, Published
<1>9. AiAllowed'
    BY <1>1, <1>4, <1>6 DEF AiAllowed, Published
<1>10. AiMarks'
    <2> SUFFICES ASSUME aiTwin, aiName \in Dedupers
                 PROVE  /\ \A e \in AiDeliveries : Marked(e)' => 1 \in aiSeen'
                        /\ \A e, f \in AiDeliveries : Marked(e)' /\ Marked(f)' => e = f
        BY <1>1 DEF AiMarks
    <2>1. \A e \in AiDeliveries \ {d} : Marked(e)' <=> Marked(e)
        BY <1>6 DEF Marked, Published
    <2>2. Marked(d)' => Marked(d) \/ (step = "dedupe" /\ 1 \notin aiSeen)
        BY <1>1, <1>3, <1>4, <1>6 DEF Marked, Published, AiId
    <2>3. 1 \in aiSeen \/ step = "dedupe" => 1 \in aiSeen'
        BY <1>1 DEF AiId
    <2> QED
        BY <2>1, <2>2, <2>3 DEF AiMarks
<1>11. AiSlots'
    <2> SUFFICES ASSUME aiName \in TakesSlot
                 PROVE  /\ aiSlot' # 0 => Slotted(aiSlot)'
                        /\ \A u \in aiUsed : Slotted(u[2])' /\ u[2] # aiSlot'
        BY <1>1 DEF AiSlots
    <2>1. \A e \in AiDeliveries : Slotted(e) => Slotted(e)'
        BY <1>1, <1>3, <1>6 DEF Slotted
    <2>2. step = "slot" => ~Slotted(d) /\ Slotted(d)'
        BY <1>1, <1>3, <1>6 DEF Slotted
    <2>3. aiSlot' = IF step = "slot" THEN d ELSE aiSlot
        BY <1>1
    <2>4. aiSlot \in AiDeliveries \cup {0} /\ \A u \in aiUsed : u[2] \in AiDeliveries
        BY DEF AiTypeOK
    <2>5. aiSlot' # 0 => Slotted(aiSlot)'
        <3> PICK s : s = aiSlot'
            OBVIOUS
        <3>1. s # 0 => Slotted(s)'
            BY <2>1, <2>2, <2>3, <2>4 DEF AiSlots
        <3> QED
            BY <3>1 DEF Slotted
    <2> QED
        BY <2>1, <2>2, <2>3, <2>4, <2>5 DEF AiSlots
<1>12. TokenUsedOnce'
    BY <1>1 DEF TokenUsedOnce
<1> QED
    BY <1>5, <1>7, <1>8, <1>9, <1>10, <1>11, <1>12

\* Send looks at the slot, and takes it where the adapter does.
LEMMA AnswerInv ==
    ASSUME AiAssumption, AiIInv, NEW d \in AiDeliveries, AiAnswer(d)
    PROVE  AiIInv'
<1> USE DEF AiIInv
<1>1. /\ aiState[d] = "published" /\ aiState' = [aiState EXCEPT ![d] = "answering"]
      /\ aiUsed' = IF aiName \in TakesSlot \cup ReadsSlot /\ aiSlot # 0
                   THEN aiUsed \cup {<<d, aiSlot, 0>>} ELSE aiUsed
      /\ aiSlot' = SlotAfter
      /\ UNCHANGED <<aiName, aiMsg, aiTwin, aiRest, aiSeen, aiFetched, aiSeq>>
    BY DEF AiAnswer
<1>2. /\ aiState'[d] = "answering"
      /\ \A e \in AiDeliveries \ {d} : aiState'[e] = aiState[e]
    BY <1>1 DEF AiTypeOK
<1>3. AiTypeOK'
    BY <1>1 DEF AiTypeOK, SlotAfter
<1>4. AiRests' /\ AiGuards' /\ AiAllowed' /\ AiMarks'
    BY <1>1, <1>2 DEF AiRests, AiGuards, AiAllowed, AiMarks, Marked, Published
<1>5. ASSUME aiName \in TakesSlot PROVE AiSlots' /\ TokenUsedOnce'
    <2>1. aiSlot' = 0 /\ \A u \in aiUsed' : u \in aiUsed \/ u[2] = aiSlot
        BY <1>1, <1>5 DEF SlotAfter
    <2>2. \A u \in aiUsed' : u[2] \in AiDeliveries /\ u[2] # 0
        BY <1>3, AiAssumption DEF AiTypeOK
    <2>3. \A e \in AiDeliveries : Slotted(e) => Slotted(e)'
        BY <1>1, <1>2 DEF Slotted
    <2>4. AiSlots'
        BY <1>5, <2>1, <2>2, <2>3 DEF AiSlots
    <2>5. \A u \in aiUsed' : u \in aiUsed \/ u = <<d, aiSlot, 0>>
        BY <1>1
    <2>6. TokenUsedOnce'
        BY <1>1, <1>5, <2>5 DEF AiSlots, TokenUsedOnce
    <2> QED
        BY <2>4, <2>6
<1> QED
    BY <1>1, <1>3, <1>4, <1>5 DEF AiSlots, TokenUsedOnce

\* Send ends; only QQ counts, and QQ does not take the slot.
LEMMA SentInv ==
    ASSUME AiAssumption, AiIInv, NEW d \in AiDeliveries, AiSent(d)
    PROVE  AiIInv'
<1> USE DEF AiIInv
<1>1. /\ aiState[d] = "answering" /\ aiState' = [aiState EXCEPT ![d] = "answered"]
      /\ \/ aiName = "qq" /\ aiSeq' = aiSeq + 1
            /\ aiUsed' = {IF u[1] = d THEN <<d, u[2], aiSeq + 1>> ELSE u : u \in aiUsed}
         \/ aiName # "qq" /\ UNCHANGED <<aiSeq, aiUsed>>
      /\ UNCHANGED <<aiName, aiMsg, aiTwin, aiRest, aiSeen, aiFetched, aiSlot>>
    BY DEF AiSent
<1>2. /\ aiState'[d] = "answered"
      /\ \A e \in AiDeliveries \ {d} : aiState'[e] = aiState[e]
    BY <1>1 DEF AiTypeOK
<1>3. aiUsed' \subseteq AiDeliveries \X AiDeliveries \X Nat
    BY <1>1 DEF AiTypeOK
<1>4. AiTypeOK'
    BY <1>1, <1>3 DEF AiTypeOK
<1>5. AiRests' /\ AiGuards' /\ AiAllowed' /\ AiMarks'
    BY <1>1, <1>2 DEF AiRests, AiGuards, AiAllowed, AiMarks, Marked, Published
<1>6. aiName \in TakesSlot => aiUsed' = aiUsed
    BY <1>1 DEF TakesSlot
<1>7. \A e \in AiDeliveries : Slotted(e) => Slotted(e)'
    BY <1>1, <1>2 DEF Slotted
<1>8. AiSlots' /\ TokenUsedOnce'
    <2>1. aiSlot \in AiDeliveries \cup {0} /\ \A u \in aiUsed : u[2] \in AiDeliveries
        BY DEF AiTypeOK
    <2>2. aiName' = aiName /\ aiSlot' = aiSlot
        BY <1>1
    <2>3. aiSlot # 0 /\ aiName \in TakesSlot => Slotted(aiSlot)'
        <3> PICK s : s = aiSlot
            OBVIOUS
        <3>1. s # 0 /\ aiName \in TakesSlot => Slotted(s)'
            BY <1>7, <2>1 DEF AiSlots
        <3> QED
            BY <3>1, <2>2 DEF Slotted
    <2> QED
        BY <1>6, <1>7, <2>1, <2>2, <2>3 DEF AiSlots, TokenUsedOnce
<1> QED
    BY <1>4, <1>5, <1>8

LEMMA AiStepInv == AiAssumption /\ AiIInv /\ [AiNext]_aiVars => AiIInv'
<1> SUFFICES ASSUME AiAssumption, AiIInv, [AiNext]_aiVars PROVE AiIInv'
    OBVIOUS
<1>1. CASE AiNext
    BY <1>1, ArriveInv, HandleInv, AnswerInv, SentInv DEF AiNext
<1>2. CASE UNCHANGED aiVars
    <2>1. AiTypeOK'
        BY <1>2 DEF aiVars, AiTypeOK, AiIInv
    <2> QED
        BY <1>2, <2>1 DEF aiVars, AiIInv, AiRests, AiGuards, AiAllowed, AiMarks, AiSlots,
               TokenUsedOnce, Marked, Slotted, Published
<1> QED
    BY <1>1, <1>2

\* What is marked once is published once.
LEMMA AiIInvIsEnough == AiIInv => AiInv
<1> SUFFICES ASSUME AiIInv PROVE PublishedOnce
    BY DEF AiIInv, AiInv
<1>1. ASSUME aiTwin, aiName \in Dedupers
      PROVE  Cardinality({d \in AiDeliveries : Published(d)}) <= 1
    <2> DEFINE once == {d \in AiDeliveries : Published(d)}
    <2>1. \A d, e \in once : d = e
        BY <1>1 DEF AiIInv, AiMarks, Marked
    <2> HIDE DEF once
    <2>2. once = {} \/ \E d : once = {d}
        BY <2>1
    <2> QED
        BY <2>2, FS_EmptySet, FS_Singleton DEF once
<1>2. ASSUME NEW d \in AiDeliveries, Published(d)
      PROVE  aiMsg[d].allowed /\ (aiMsg[d].chat = "closed" => aiName \in Unguarded)
    BY <1>2 DEF AiIInv, AiAllowed, AiGuards
<1> QED
    BY <1>1, <1>2 DEF PublishedOnce, Dedupers, Unguarded

\* TLC: AiInv.  For any number of deliveries, through the handler of whichever
\* adapter and however they overlap: a message with an id is published once, what
\* is published has passed the allowlist and the group trigger, and no reply token
\* of LINE or reaction of Slack is used for two answers.
THEOREM InboundAdaptersCorrect == AiSpec => []AiInv
<1>1. AiSpec => []AiIInv
    BY AiInitInv, AiStepInv, AiAssumption, PTL DEF AiSpec
<1> QED
    BY <1>1, AiIInvIsEnough, PTL

-----------------------------------------------------------------------------
(***************************************************************************)
(* The streams of the WeCom AI bot.                                        *)
(***************************************************************************)

\* A poll or a send that is under way has a task that was asked for.
TasksWereAsked ==
    /\ \A p \in Pollers : wsPoll[p].at # "idle" => wsPoll[p].task \in wsAsked
    /\ \A a \in WsAnswers : wsSend[a].at \in {"post", "offer"} => wsSend[a].task \in wsAsked

\* An answer is with its Send, in one channel, or shown, one of these at a time.
AnswersInOnePlace ==
    /\ \A s \in Streams : wsChan[s] # NoAnswer => wsSend[wsChan[s]].at = "sent"
    /\ \A s, t \in Streams : wsChan[s] # NoAnswer /\ wsChan[s] = wsChan[t] => s = t
    /\ \A x \in wsShown : /\ wsSend[x[1]].at = "sent"
                          /\ \A s \in Streams : wsChan[s] # x[1]

WsIInv == WsTypeOK /\ TasksAgree /\ TasksWereAsked /\ AnswersInOnePlace

\* A sequence without its i-th element.
LEMMA RemoveAtIs ==
    ASSUME NEW S, NEW q \in Seq(S), NEW n \in Nat, n = Len(q), NEW i \in 1..n
    PROVE  /\ RemoveAt(q, i) \in Seq(S) /\ Len(RemoveAt(q, i)) = n - 1
           /\ \A j \in 1..(n - 1) : RemoveAt(q, i)[j] = IF j < i THEN q[j] ELSE q[j + 1]
<1> PICK front, back, r : front = SubSeq(q, 1, i - 1) /\ back = SubSeq(q, i + 1, n) /\ r = front \o back
    OBVIOUS
<1>1. /\ front \in Seq(S) /\ Len(front) = i - 1 /\ \A j \in 1..(i - 1) : front[j] = q[j]
    <2>1. 1 \in Int /\ i - 1 \in Int /\ \A j \in 1..(i - 1) : q[j] \in S
        BY ElementOfSeq
    <2>2. /\ front \in Seq(S) /\ Len(front) = IF 1 <= i - 1 THEN i - 1 - 1 + 1 ELSE 0
          /\ \A j \in 1..(i - 1 - 1 + 1) : front[j] = q[1 + j - 1]
        BY <2>1, SubSeqProperties
    <2>3. (IF 1 <= i - 1 THEN i - 1 - 1 + 1 ELSE 0) = i - 1 /\ i - 1 - 1 + 1 = i - 1
        OBVIOUS
    <2>4. \A j \in 1..(i - 1) : 1 + j - 1 = j
        OBVIOUS
    <2> QED
        BY <2>2, <2>3, <2>4
<1>2. /\ back \in Seq(S) /\ Len(back) = n - i /\ \A j \in 1..(n - i) : back[j] = q[i + j]
    <2>1. i + 1 \in Int /\ n \in Int /\ \A j \in (i + 1)..n : q[j] \in S
        BY ElementOfSeq
    <2>2. /\ back \in Seq(S) /\ Len(back) = IF i + 1 <= n THEN n - (i + 1) + 1 ELSE 0
          /\ \A j \in 1..(n - (i + 1) + 1) : back[j] = q[(i + 1) + j - 1]
        BY <2>1, SubSeqProperties
    <2>3. (IF i + 1 <= n THEN n - (i + 1) + 1 ELSE 0) = n - i /\ n - (i + 1) + 1 = n - i
        OBVIOUS
    <2>4. \A j \in 1..(n - i) : (i + 1) + j - 1 = i + j
        OBVIOUS
    <2> QED
        BY <2>2, <2>3, <2>4
<1>0. Len(front) \in Nat /\ Len(back) \in Nat
    BY <1>1, <1>2
<1>3. /\ r \in Seq(S) /\ Len(r) = Len(front) + Len(back)
      /\ \A j \in 1..(Len(front) + Len(back)) :
           r[j] = IF j <= Len(front) THEN front[j] ELSE back[j - Len(front)]
    <2>1. front \in Seq(S) /\ back \in Seq(S) /\ r = front \o back
        BY <1>1, <1>2
    <2>2. /\ front \o back \in Seq(S) /\ Len(front \o back) = Len(front) + Len(back)
          /\ \A j \in 1..(Len(front) + Len(back)) :
               (front \o back)[j] = IF j <= Len(front) THEN front[j] ELSE back[j - Len(front)]
        BY <2>1, ConcatProperties
    <2> QED
        BY <2>1, <2>2
<1>4. Len(r) = n - 1
    BY <1>1, <1>2, <1>3, i - 1 + (n - i) = n - 1
<1>5. ASSUME NEW j \in 1..(n - 1) PROVE r[j] = IF j < i THEN q[j] ELSE q[j + 1]
    <2>5. j \in 1..(i - 1 + (n - i))
        OBVIOUS
    <2>1. j \in 1..(Len(front) + Len(back))
        BY <1>1, <1>2, <2>5
    <2>2. CASE j < i
        <3>1. j <= Len(front) /\ j \in 1..(i - 1)
            BY <1>1, <2>2
        <3>2. r[j] = front[j] /\ front[j] = q[j]
            BY <1>1, <1>3, <2>1, <3>1
        <3> QED
            BY <2>2, <3>2
    <2>3. CASE ~(j < i)
        <3> PICK k : k = j - (i - 1)
            OBVIOUS
        <3>3. ~(j <= i - 1) /\ k \in 1..(n - i) /\ i + k = j + 1
            BY <2>3
        <3>1. ~(j <= Len(front)) /\ j - Len(front) = k /\ k \in 1..(n - i) /\ i + k = j + 1
            BY <1>1, <3>3
        <3>2. r[j] = back[k] /\ back[k] = q[i + k]
            BY <1>2, <1>3, <2>1, <3>1
        <3> QED
            BY <2>3, <3>1, <3>2
    <2> QED
        BY <2>2, <2>3
<1>6. RemoveAt(q, i) = r
    BY DEF RemoveAt
<1> QED
    BY <1>3, <1>4, <1>5, <1>6

\* Taking s out of a queue that has it at most once.
LEMMA WithoutIs ==
    ASSUME NEW S, NEW q \in Seq(S), IsInjective(q), NEW s
    PROVE  /\ Without(q, s) \in Seq(S) /\ IsInjective(Without(q, s))
           /\ Range(Without(q, s)) = Range(q) \ {s}
<1> PICK n \in Nat : n = Len(q)
    OBVIOUS
<1>1. DOMAIN q = 1..n /\ \A a, b \in 1..n : q[a] = q[b] => a = b
    BY DEF IsInjective
<1>2. CASE s \notin Range(q)
    BY <1>2 DEF Without
<1>3. CASE s \in Range(q)
    <2>1. \E i \in 1..n : q[i] = s
        BY <1>1, <1>3 DEF Range
    <2>16. PICK i : i = CHOOSE j \in DOMAIN q : q[j] = s
        OBVIOUS
    <2>2. i \in 1..n /\ q[i] = s
        BY <1>1, <2>1, <2>16
    <2>15. i \in 1..n
        BY <2>2
    <2>14. PICK r : r = RemoveAt(q, i)
        OBVIOUS
    <2>3. /\ r \in Seq(S) /\ Len(r) = n - 1
          /\ \A j \in 1..(n - 1) : r[j] = IF j < i THEN q[j] ELSE q[j + 1]
        <3>1. /\ RemoveAt(q, i) \in Seq(S) /\ Len(RemoveAt(q, i)) = n - 1
              /\ \A j \in 1..(n - 1) : RemoveAt(q, i)[j] = IF j < i THEN q[j] ELSE q[j + 1]
            BY <2>15, n = Len(q), RemoveAtIs
        <3> QED
            BY <2>14, <3>1
    <2>4. Without(q, s) = r
        BY <1>3, <2>14, <2>16 DEF Without
    <2>5. DOMAIN r = 1..(n - 1)
        BY <2>3, LenProperties
    <2> DEFINE at(j) == IF j < i THEN j ELSE j + 1
    <2>6. ASSUME NEW j \in 1..(n - 1) PROVE at(j) \in 1..n /\ at(j) # i /\ r[j] = q[at(j)]
        <3>1. at(j) \in 1..n /\ at(j) # i
            <4>1. j < i \/ ~(j < i)
                OBVIOUS
            <4>2. j < i => at(j) = j /\ j \in 1..n /\ j # i
                BY <2>15
            <4>3. ~(j < i) => at(j) = j + 1 /\ j + 1 \in 1..n /\ j + 1 # i
                BY <2>15
            <4> QED
                BY <4>2, <4>3
        <3>2. r[j] = q[at(j)]
            BY <2>3
        <3> QED
            BY <3>1, <3>2
    <2>7. ASSUME NEW j \in 1..(n - 1), NEW k \in 1..(n - 1), at(j) = at(k) PROVE j = k
        BY <2>15, <2>7
    <2>8. ASSUME NEW k \in 1..n, k # i PROVE \E j \in 1..(n - 1) : at(j) = k
        <3>1. CASE k < i
            <4>1. k \in 1..(n - 1) /\ at(k) = k
                BY <2>15, <3>1
            <4> QED
                BY <4>1
        <3>2. CASE k > i
            <4>1. k - 1 \in 1..(n - 1) /\ at(k - 1) = k
                BY <2>15, <3>2
            <4> QED
                BY <4>1
        <3>3. k < i \/ k > i
            BY <2>15, <2>8
        <3> QED
            BY <3>1, <3>2, <3>3
    <2> HIDE DEF at
    <2>9. IsInjective(r)
        BY <1>1, <2>5, <2>6, <2>7 DEF IsInjective
    <2>10. \A x : x \in Range(r) <=> (\E j \in 1..(n - 1) : r[j] = x)
        BY <2>5 DEF Range
    <2>11. \A x : x \in Range(q) <=> (\E k \in 1..n : q[k] = x)
        BY <1>1 DEF Range
    <2>12. \A k \in 1..n : q[k] = s <=> (k = i)
        BY <1>1, <2>2
    <2>13. Range(r) = Range(q) \ {s}
        <3>1. ASSUME NEW x \in Range(r) PROVE x \in Range(q) /\ x # s
            BY <2>6, <2>10, <2>11, <2>12, <3>1
        <3>2. ASSUME NEW x \in Range(q), x # s PROVE x \in Range(r)
            <4>1. PICK k \in 1..n : q[k] = x
                BY <2>11
            <4>2. k # i
                BY <2>2, <3>2, <4>1
            <4>3. PICK j \in 1..(n - 1) : at(j) = k
                BY <2>8, <4>2
            <4>4. r[j] = x
                BY <2>6, <4>1, <4>3
            <4> QED
                BY <2>10, <4>4
        <3> QED
            BY <3>1, <3>2
    <2> QED
        BY <2>3, <2>4, <2>9, <2>13
<1> QED
    BY <1>2, <1>3

\* Where no task of the queue is finished, Send leaves the queue alone.
LEMMA NoneIsDropped ==
    ASSUME NEW S, NEW q \in Seq(S), Range(q) \cap wsFinished = {}
    PROVE  FromUnfinished(q) = q
<1> PICK n \in Nat : n = Len(q)
    OBVIOUS
<1> DEFINE live == {i \in DOMAIN q : q[i] \notin wsFinished}
<1>1. DOMAIN q = 1..n /\ live = 1..n
    BY DEF Range
<1>2. CASE n = 0
    <2>1. q = <<>> /\ live = {}
        BY <1>1, <1>2
    <2> QED
        BY <2>1 DEF FromUnfinished
<1>3. CASE n # 0
    <2>1. 1 \in live /\ \A j \in live : 1 <= j
        BY <1>1, <1>3
    <2>2. \A j \in live : (\A k \in live : j <= k) => j = 1
        BY <1>1, <2>1
    <2>3. live # {} /\ Min(live) = 1
        <3> HIDE DEF live
        <3> QED
            BY <2>1, <2>2 DEF Min
    <2>4. FromUnfinished(q) = SubSeq(q, 1, Len(q))
        BY <2>3 DEF FromUnfinished
    <2> QED
        BY <2>4, SubSeqFull
<1> QED
    BY <1>2, <1>3

\* Every step keeps what concerns answers: each is in one place.
LEMMA AnswersStep ==
    ASSUME WsAssumption, WsIInv, [WsNext]_wsVars
    PROVE  AnswersInOnePlace'
<1>0. /\ NoAnswer \notin WsAnswers /\ wsChan \in [Streams -> WsAnswers \cup {NoAnswer}]
      /\ DOMAIN wsSend = WsAnswers /\ \A x \in wsShown : x[1] \in WsAnswers
    BY WsAssumption DEF WsIInv, WsTypeOK
<1>1. /\ \A s \in Streams : wsChan[s] # NoAnswer => wsChan[s] \in WsAnswers /\ wsSend[wsChan[s]].at = "sent"
      /\ \A s, t \in Streams : wsChan[s] # NoAnswer /\ wsChan[s] = wsChan[t] => s = t
      /\ \A x \in wsShown : wsSend[x[1]].at = "sent" /\ \A s \in Streams : wsChan[s] # x[1]
    BY <1>0 DEF WsIInv, AnswersInOnePlace
<1>2. CASE UNCHANGED <<wsChan, wsSend, wsShown>>
    BY <1>1, <1>2 DEF AnswersInOnePlace
<1>3. ASSUME NEW a \in WsAnswers, wsSend[a].at \in {"new", "post", "offer"},
             UNCHANGED <<wsChan, wsShown>>, NEW at, NEW s, SendAt(a, at, s)
      PROVE  AnswersInOnePlace'
    <2>1. \A b \in WsAnswers : b # a => wsSend'[b] = wsSend[b]
        BY <1>0, <1>3 DEF SendAt
    <2>2. (\A t \in Streams : wsChan[t] # a) /\ (\A x \in wsShown : x[1] # a)
        BY <1>0, <1>1, <1>3
    <2> QED
        BY <1>0, <1>1, <1>3, <2>1, <2>2 DEF AnswersInOnePlace
<1>4. ASSUME NEW p \in Pollers, WsAnswered(p) PROVE AnswersInOnePlace'
    <2>1. PICK s : s = wsPoll[p].task
        OBVIOUS
    <2>2. /\ wsPoll[p].at = "looking" /\ wsChan[s] # NoAnswer /\ wsSend' = wsSend
          /\ wsShown' = wsShown \cup {<<wsChan[s], s, "stream">>}
          /\ wsChan' = [wsChan EXCEPT ![s] = NoAnswer]
        BY <1>4, <2>1 DEF WsAnswered
    <2>3. s \in Streams
        BY <2>1, <2>2 DEF WsIInv, TasksWereAsked, WsTypeOK
    <2>4. \A t \in Streams : wsChan'[t] = IF t = s THEN NoAnswer ELSE wsChan[t]
        BY <1>0, <2>2, <2>3
    <2>5. PICK b \in WsAnswers : b = wsChan[s]
        BY <1>1, <2>2, <2>3
    <2>6. wsSend[b].at = "sent" /\ \A t \in Streams : wsChan'[t] # b
        BY <1>0, <1>1, <2>2, <2>3, <2>4, <2>5
    <2>7. \A x \in wsShown' : x \in wsShown \/ x[1] = b
        BY <2>2, <2>5
    <2>8. \A x \in wsShown : \A t \in Streams : wsChan'[t] # x[1]
        BY <1>0, <1>1, <2>4
    <2>9. \A x \in wsShown' : wsSend'[x[1]].at = "sent" /\ \A t \in Streams : wsChan'[t] # x[1]
        BY <1>1, <2>2, <2>6, <2>7, <2>8
    <2>10. \A t \in Streams : wsChan'[t] # NoAnswer => wsSend'[wsChan'[t]].at = "sent"
        BY <1>1, <2>2, <2>4
    <2>11. \A t, u \in Streams : wsChan'[t] # NoAnswer /\ wsChan'[t] = wsChan'[u] => t = u
        BY <1>1, <2>4
    <2> QED
        BY <2>9, <2>10, <2>11 DEF AnswersInOnePlace
<1>5. ASSUME NEW a \in WsAnswers, WsSendHead(a) PROVE AnswersInOnePlace'
    <2>1. wsSend[a].at = "new" /\ UNCHANGED <<wsChan, wsShown>>
        BY <1>5 DEF WsSendHead
    <2>2. \E at, s : SendAt(a, at, s)
        BY <1>5 DEF WsSendHead
    <2> QED
        BY <1>3, <2>1, <2>2
<1>6. ASSUME NEW a \in WsAnswers, WsOffer(a) PROVE AnswersInOnePlace'
    <2>1. PICK s : s = wsSend[a].task
        OBVIOUS
    <2>2. /\ wsSend[a].at = "offer" /\ SendAt(a, "sent", s) /\ wsShown' = wsShown
          /\ \/ wsChan[s] = NoAnswer /\ wsChan' = [wsChan EXCEPT ![s] = a]
             \/ UNCHANGED wsChan
        BY <1>6, <2>1 DEF WsOffer
    <2>3. s \in Streams
        BY <2>1, <2>2 DEF WsIInv, TasksWereAsked, WsTypeOK
    <2>4. CASE UNCHANGED wsChan
        BY <1>3, <2>2, <2>4
    <2>5. CASE wsChan[s] = NoAnswer /\ wsChan' = [wsChan EXCEPT ![s] = a]
        <3>1. \A t \in Streams : wsChan'[t] = IF t = s THEN a ELSE wsChan[t]
            BY <1>0, <2>3, <2>5
        <3>2. \A b \in WsAnswers : b # a => wsSend'[b] = wsSend[b]
            BY <1>0, <2>2 DEF SendAt
        <3>3. wsSend'[a].at = "sent"
            BY <1>0, <2>2 DEF SendAt
        <3>4. (\A t \in Streams : wsChan[t] # a) /\ (\A x \in wsShown : x[1] # a)
            BY <1>0, <1>1, <2>2
        <3>5. \A t \in Streams : wsChan'[t] # NoAnswer => wsSend'[wsChan'[t]].at = "sent"
            BY <1>1, <3>1, <3>2, <3>3, <3>4
        <3>6. \A t, u \in Streams : wsChan'[t] # NoAnswer /\ wsChan'[t] = wsChan'[u] => t = u
            BY <1>1, <3>1, <3>4
        <3>7. \A x \in wsShown' : wsSend'[x[1]].at = "sent" /\ \A t \in Streams : wsChan'[t] # x[1]
            BY <1>0, <1>1, <2>2, <3>1, <3>2, <3>4
        <3> QED
            BY <3>5, <3>6, <3>7 DEF AnswersInOnePlace
    <2> QED
        BY <2>2, <2>4, <2>5
<1>7. ASSUME NEW a \in WsAnswers, NEW ok \in BOOLEAN, WsPost(a, ok) PROVE AnswersInOnePlace'
    <2>1. PICK s : s = wsSend[a].task
        OBVIOUS
    <2>2. /\ wsSend[a].at = "post" /\ wsChan' = wsChan /\ (ok => s \in WithURL)
          /\ wsShown' = IF ok THEN wsShown \cup {<<a, s, "url">>} ELSE wsShown
          /\ SendAt(a, IF s \in WithURL /\ ~ok THEN "failed" ELSE "sent", s)
        BY <1>7, <2>1 DEF WsPost
    <2>3. CASE ~ok
        BY <1>3, <2>2, <2>3
    <2>4. CASE ok
        <3>1. wsSend'[a].at = "sent" /\ \A b \in WsAnswers : b # a => wsSend'[b] = wsSend[b]
            BY <1>0, <2>2, <2>4 DEF SendAt
        <3>2. \A t \in Streams : wsChan[t] # a
            BY <1>0, <1>1, <2>2
        <3>3. \A x \in wsShown' : x \in wsShown \/ x[1] = a
            BY <2>2, <2>4
        <3>4. \A x \in wsShown' : wsSend'[x[1]].at = "sent" /\ \A t \in Streams : wsChan'[t] # x[1]
            BY <1>0, <1>1, <2>2, <3>1, <3>2, <3>3
        <3>5. \A t \in Streams : wsChan'[t] # NoAnswer => wsSend'[wsChan'[t]].at = "sent"
            BY <1>1, <2>2, <3>1, <3>2
        <3> QED
            BY <1>1, <2>2, <3>4, <3>5 DEF AnswersInOnePlace
    <2> QED
        BY <2>3, <2>4
<1>8. ASSUME WsNext PROVE \/ UNCHANGED <<wsChan, wsSend, wsShown>>
                          \/ \E p \in Pollers : WsAnswered(p)
                          \/ \E a \in WsAnswers : WsSendHead(a) \/ WsOffer(a) \/ \E ok \in BOOLEAN : WsPost(a, ok)
    BY <1>8 DEF WsNext, WsAsk, WsCleanup, WsLookup, WsPolled, WsPending
<1> QED
    BY <1>2, <1>4, <1>5, <1>6, <1>7, <1>8 DEF wsVars

\* No answer is shown twice.
ShownOnce == \A x, y \in wsShown : x[1] = y[1] => x = y

LEMMA ShownStep ==
    ASSUME WsAssumption, WsIInv, [WsNext]_wsVars
    PROVE  ShownOnce'
<1>1. /\ \A s \in Streams : \A x \in wsShown : wsChan[s] # x[1]
      /\ \A x \in wsShown : wsSend[x[1]].at = "sent" /\ ShownOnce
    BY DEF WsIInv, AnswersInOnePlace, TasksAgree, ShownOnce
<1>2. ShownOnce
    BY DEF WsIInv, TasksAgree, ShownOnce
<1>3. ASSUME NEW z, wsShown' = wsShown \cup {z}, \A x \in wsShown : x[1] # z[1] PROVE ShownOnce'
    BY <1>2, <1>3 DEF ShownOnce
<1>4. ASSUME NEW p \in Pollers, WsAnswered(p) PROVE ShownOnce'
    <2>1. PICK s : s = wsPoll[p].task
        OBVIOUS
    <2>2. wsPoll[p].at = "looking" /\ wsShown' = wsShown \cup {<<wsChan[s], s, "stream">>}
        BY <1>4, <2>1 DEF WsAnswered
    <2>3. s \in Streams
        BY <2>1, <2>2 DEF WsIInv, TasksWereAsked, WsTypeOK
    <2>4. PICK z : z = <<wsChan[s], s, "stream">>
        OBVIOUS
    <2>5. wsShown' = wsShown \cup {z} /\ z[1] = wsChan[s]
        BY <2>2, <2>4
    <2>6. \A x \in wsShown : x[1] # z[1]
        BY <1>1, <2>3, <2>5
    <2> QED
        BY <1>3, <2>5, <2>6
<1>5. ASSUME NEW a \in WsAnswers, NEW ok \in BOOLEAN, WsPost(a, ok) PROVE ShownOnce'
    <2>1. PICK s : s = wsSend[a].task
        OBVIOUS
    <2>2. wsSend[a].at = "post" /\ wsShown' = IF ok THEN wsShown \cup {<<a, s, "url">>} ELSE wsShown
        BY <1>5, <2>1 DEF WsPost
    <2>3. CASE ~ok
        BY <1>2, <2>2, <2>3 DEF ShownOnce
    <2>4. CASE ok
        <3>1. PICK z : z = <<a, s, "url">>
            OBVIOUS
        <3>2. wsShown' = wsShown \cup {z} /\ z[1] = a
            BY <2>2, <2>4, <3>1
        <3>3. \A x \in wsShown : x[1] # z[1]
            BY <1>1, <2>2, <3>2
        <3> QED
            BY <1>3, <3>2, <3>3
    <2> QED
        BY <2>3, <2>4
<1>6. CASE UNCHANGED wsShown
    BY <1>2, <1>6 DEF ShownOnce
<1>7. ASSUME WsNext PROVE \/ UNCHANGED wsShown
                          \/ \E p \in Pollers : WsAnswered(p)
                          \/ \E a \in WsAnswers : \E ok \in BOOLEAN : WsPost(a, ok)
    BY <1>7 DEF WsNext, WsAsk, WsCleanup, WsLookup, WsPolled, WsPending, WsSendHead, WsOffer
<1> QED
    BY <1>4, <1>5, <1>6, <1>7 DEF wsVars

\* What the map of streams and the queue of the chat say of each other.
Agree ==
    /\ wsMap \subseteq wsAsked /\ wsQueue \in Seq(wsAsked)
    /\ wsClosed \subseteq wsAsked /\ wsFinished \subseteq wsAsked /\ wsCanceled \subseteq wsAsked
    /\ wsMap \subseteq Range(wsQueue) /\ IsInjective(wsQueue)
    /\ Range(wsQueue) \subseteq wsMap \cup wsClosed /\ Range(wsQueue) \cap wsFinished = {}

\* A task leaves both.
LEMMA BothLoseIt ==
    ASSUME Agree, NEW s \in wsAsked, wsAsked' = wsAsked, wsClosed' = wsClosed,
           wsMap' = wsMap \ {s}, wsQueue' = Without(wsQueue, s),
           wsFinished' \in {wsFinished, wsFinished \cup {s}}, wsCanceled' = wsCanceled \cup {s}
    PROVE  Agree'
<1>1. /\ wsQueue' \in Seq(wsAsked) /\ IsInjective(wsQueue')
      /\ Range(wsQueue') = Range(wsQueue) \ {s}
    BY WithoutIs DEF Agree
<1> PICK q, r : q = wsQueue' /\ r = Range(wsQueue)
    OBVIOUS
<1>2. /\ wsMap' \subseteq wsAsked' /\ wsClosed' \subseteq wsAsked' /\ wsFinished' \subseteq wsAsked'
      /\ wsCanceled' \subseteq wsAsked'
    BY DEF Agree
<1>3. wsMap \subseteq r /\ r \subseteq wsMap \cup wsClosed /\ r \cap wsFinished = {}
    BY DEF Agree
<1>4. Range(q) = r \ {s}
    BY <1>1
<1>5. wsMap' \subseteq Range(q) /\ Range(q) \subseteq wsMap' \cup wsClosed'
    BY <1>3, <1>4
<1>6. Range(q) \cap wsFinished' = {}
    BY <1>3, <1>4
<1> QED
    BY <1>1, <1>2, <1>5, <1>6 DEF Agree

\* A question joins both.
LEMMA BothGainIt ==
    ASSUME Agree, NEW s, s \notin wsAsked, wsAsked' = wsAsked \cup {s},
           wsMap' = wsMap \cup {s}, wsQueue' = Append(wsQueue, s),
           UNCHANGED <<wsClosed, wsFinished, wsCanceled>>
    PROVE  Agree'
<1> PICK q, r, n, all : q = wsQueue /\ r = wsQueue' /\ n = Len(wsQueue) /\ all = wsAsked'
    OBVIOUS
<1>1. q \in Seq(all) /\ s \in all /\ n = Len(q) /\ r = Append(q, s)
    <2>1. q \in Seq(wsAsked) /\ wsAsked \subseteq all
        BY DEF Agree
    <2> QED
        BY <2>1
<1>2. /\ r \in Seq(all) /\ n \in Nat /\ DOMAIN q = 1..n /\ DOMAIN r = 1..(n + 1)
      /\ r[n + 1] = s /\ \A i \in 1..n : r[i] = q[i]
    BY <1>1
<1>3. \A i \in 1..(n + 1) : i \in 1..n \/ i = n + 1
    BY <1>2
<1>4. n + 1 \in 1..(n + 1) /\ \A i \in 1..n : i \in 1..(n + 1)
    BY <1>2
<1>5. \A i \in 1..n : q[i] # s
    <2>1. q \in Seq(wsAsked)
        BY DEF Agree
    <2>2. \A i \in 1..n : q[i] \in wsAsked
        BY <1>1, <2>1, ElementOfSeq
    <2> QED
        BY <2>2
<1>6. \A i, j \in 1..n : q[i] = q[j] => i = j
    BY <1>2 DEF Agree, IsInjective
<1>7. IsInjective(r)
    BY <1>2, <1>3, <1>5, <1>6 DEF IsInjective
<1>8. Range(r) = Range(q) \cup {s}
    <2>1. \A x : x \in Range(r) <=> (\E i \in 1..(n + 1) : r[i] = x)
        BY <1>2 DEF Range
    <2>2. \A x : x \in Range(q) <=> (\E i \in 1..n : q[i] = x)
        BY <1>2 DEF Range
    <2>3. ASSUME NEW x \in Range(r) PROVE x \in Range(q) \cup {s}
        BY <1>2, <1>3, <2>1, <2>2
    <2>4. ASSUME NEW x \in Range(q) PROVE x \in Range(r)
        BY <1>2, <1>4, <2>1, <2>2
    <2>5. s \in Range(r)
        BY <1>2, <1>4, <2>1
    <2> QED
        BY <2>3, <2>4, <2>5
<1>9. /\ wsMap \subseteq wsAsked /\ wsClosed \subseteq wsAsked /\ wsFinished \subseteq wsAsked
      /\ wsCanceled \subseteq wsAsked /\ wsMap \subseteq Range(q)
      /\ Range(q) \subseteq wsMap \cup wsClosed /\ Range(q) \cap wsFinished = {}
    BY DEF Agree
<1>10. /\ wsMap' \subseteq all /\ wsClosed' \subseteq all /\ wsFinished' \subseteq all
       /\ wsCanceled' \subseteq all
    BY <1>9
<1>11. /\ wsMap' \subseteq Range(r) /\ Range(r) \subseteq wsMap' \cup wsClosed'
       /\ Range(r) \cap wsFinished' = {}
    BY <1>8, <1>9
<1> QED
    BY <1>2, <1>7, <1>10, <1>11 DEF Agree

\* Every step keeps the two in agreement.
LEMMA AgreeStep ==
    ASSUME WsAssumption, WsIInv, [WsNext]_wsVars
    PROVE  Agree'
<1> USE DEF wsTasks
<1>1. Agree
    BY DEF WsIInv, WsTypeOK, TasksAgree, Agree
<1>2. CASE UNCHANGED wsTasks
    BY <1>1, <1>2 DEF Agree
<1>3. ASSUME NEW s \in Streams, WsAsk(s) PROVE Agree'
    BY <1>1, <1>3, BothGainIt DEF WsAsk
<1>4. ASSUME NEW s \in Streams, WsCleanup(s) PROVE Agree'
    <2>1. s \in wsAsked
        <3>1. wsMap \subseteq Range(wsQueue) /\ wsQueue \in Seq(wsAsked)
            BY <1>1 DEF Agree
        <3>2. Range(wsQueue) \subseteq wsAsked
            BY <3>1, RangeOfSeq DEF Range
        <3> QED
            BY <1>4, <3>1, <3>2 DEF WsCleanup
    <2> QED
        BY <1>1, <1>4, <2>1, BothLoseIt DEF WsCleanup
<1>5. ASSUME NEW s \in wsAsked, WsRemoveTask(s) PROVE Agree'
    BY <1>1, <1>5, BothLoseIt DEF WsRemoveTask
<1>6. ASSUME NEW p \in Pollers, WsPolled(p) PROVE Agree'
    <2>1. PICK s : s = wsPoll[p].task
        OBVIOUS
    <2>2. wsPoll[p].at \in {"remove", "close"}
        BY <1>6 DEF WsPolled
    <2>3. s \in wsAsked
        BY <2>1, <2>2 DEF WsIInv, TasksWereAsked
    <2>4. CASE WsRemoveTask(s)
        BY <1>5, <2>3, <2>4
    <2>5. CASE /\ wsClosed' = wsClosed \cup {s} /\ wsMap' = wsMap \ {s}
               /\ UNCHANGED <<wsAsked, wsQueue, wsFinished, wsCanceled>>
        <3>1. /\ wsMap \subseteq Range(wsQueue) /\ Range(wsQueue) \subseteq wsMap \cup wsClosed
              /\ Range(wsQueue) \cap wsFinished = {} /\ wsMap \subseteq wsAsked /\ wsClosed \subseteq wsAsked
            BY <1>1 DEF Agree
        <3>2. wsQueue' = wsQueue
            BY <2>5
        <3>3. Range(wsQueue') = Range(wsQueue)
            BY <3>2
        <3>4. /\ wsMap' \subseteq Range(wsQueue') /\ Range(wsQueue') \subseteq wsMap' \cup wsClosed'
              /\ Range(wsQueue') \cap wsFinished' = {} /\ wsMap' \subseteq wsAsked' /\ wsClosed' \subseteq wsAsked'
            BY <2>3, <2>5, <3>1, <3>3
        <3> QED
            BY <1>1, <2>5, <3>2, <3>4 DEF Agree
    <2> QED
        BY <1>6, <2>1, <2>4, <2>5 DEF WsPolled
<1>7. ASSUME NEW a \in WsAnswers, WsSendHead(a) PROVE Agree'
    <2>1. wsQueue \in Seq(wsAsked) /\ Range(wsQueue) \cap wsFinished = {}
        BY <1>1 DEF Agree
    <2>2. FromUnfinished(wsQueue) = wsQueue
        BY <2>1, NoneIsDropped
    <2>3. wsQueue' = wsQueue /\ UNCHANGED <<wsAsked, wsMap, wsClosed, wsFinished, wsCanceled>>
        BY <1>7, <2>2 DEF WsSendHead
    <2> QED
        BY <1>2, <2>3
<1>8. ASSUME NEW a \in WsAnswers, NEW ok \in BOOLEAN, WsPost(a, ok) PROVE Agree'
    <2>1. wsSend[a].task \in wsAsked /\ WsRemoveTask(wsSend[a].task)
        BY <1>8 DEF WsPost, WsIInv, TasksWereAsked
    <2> QED
        BY <1>5, <2>1
<1>9. ASSUME WsNext
      PROVE  \/ UNCHANGED wsTasks
             \/ \E s \in Streams : WsAsk(s) \/ WsCleanup(s)
             \/ \E p \in Pollers : WsPolled(p)
             \/ \E a \in WsAnswers : WsSendHead(a) \/ \E ok \in BOOLEAN : WsPost(a, ok)
    BY <1>9 DEF WsNext, WsLookup, WsAnswered, WsPending, WsOffer
<1> QED
    BY <1>2, <1>3, <1>4, <1>6, <1>7, <1>8, <1>9 DEF wsVars

\* What is not of the two structures stays in its type, and tasks stay asked for.
Others ==
    /\ wsChan \in [Streams -> WsAnswers \cup {NoAnswer}]
    /\ wsPoll \in [Pollers -> [at : {"idle", "looking", "close", "remove"}, task : Streams \cup {NoStream}]]
    /\ wsSend \in [WsAnswers -> [at : {"new", "post", "offer", "sent", "failed"},
                                 task : Streams \cup {NoStream}]]
    /\ wsShown \subseteq WsAnswers \X Streams \X {"stream", "url"}
    /\ wsAsked \subseteq Streams

LEMMA OthersStep ==
    ASSUME WsAssumption, WsIInv, [WsNext]_wsVars
    PROVE  Others' /\ TasksWereAsked'
<1> USE DEF wsTasks
<1> DEFINE PollStates == {"idle", "looking", "close", "remove"}
           SendStates == {"new", "post", "offer", "sent", "failed"}
           Marks == Streams \cup {NoStream}
           Pairs == [at : PollStates, task : Marks]
           Places == [at : SendStates, task : Marks]
           Seen == WsAnswers \X Streams \X {"stream", "url"}
<1>1. /\ wsChan \in [Streams -> WsAnswers \cup {NoAnswer}] /\ wsPoll \in [Pollers -> Pairs]
      /\ wsSend \in [WsAnswers -> Places] /\ wsShown \subseteq Seen
      /\ wsAsked \subseteq Streams /\ wsMap \subseteq wsAsked /\ wsQueue \in Seq(wsAsked)
      /\ TasksWereAsked
    BY DEF WsIInv, WsTypeOK
<1>a. ASSUME UNCHANGED wsAsked \/ \E s \in Streams : wsAsked' = wsAsked \cup {s}
      PROVE  wsAsked' \subseteq Streams /\ wsAsked \subseteq wsAsked'
    BY <1>1, <1>a
\* The places of polls and sends: one of them may have moved.
<1>b. ASSUME NEW p \in Pollers, NEW at \in PollStates, NEW s \in Marks, PollAt(p, at, s),
             at # "idle" => s \in wsAsked, wsAsked' = wsAsked
      PROVE  /\ wsPoll' \in [Pollers -> Pairs]
             /\ \A q \in Pollers : wsPoll'[q].at # "idle" => wsPoll'[q].task \in wsAsked'
    <2>1. [at |-> at, task |-> s] \in Pairs /\ [at |-> at, task |-> s].at = at /\ [at |-> at, task |-> s].task = s
        OBVIOUS
    <2> PICK new : new = [at |-> at, task |-> s]
        OBVIOUS
    <2>2. wsPoll' = [wsPoll EXCEPT ![p] = new] /\ new \in Pairs /\ new.at = at /\ new.task = s
        BY <1>b, <2>1 DEF PollAt
    <2>3. \A q \in Pollers : wsPoll'[q] = IF q = p THEN new ELSE wsPoll[q]
        BY <1>1, <2>2
    <2>4. \A q \in Pollers : wsPoll[q].at # "idle" => wsPoll[q].task \in wsAsked
        BY <1>1 DEF TasksWereAsked
    <2>5. wsPoll' \in [Pollers -> Pairs]
        <3> HIDE DEF Pairs
        <3> QED
            BY <1>1, <2>2
    <2> QED
        BY <1>b, <2>2, <2>3, <2>4, <2>5
<1>c. ASSUME NEW a \in WsAnswers, NEW at \in SendStates, NEW s \in Marks, SendAt(a, at, s),
             at \in {"post", "offer"} => s \in wsAsked, wsAsked' = wsAsked
      PROVE  /\ wsSend' \in [WsAnswers -> Places]
             /\ \A b \in WsAnswers : wsSend'[b].at \in {"post", "offer"} => wsSend'[b].task \in wsAsked'
    <2>1. [at |-> at, task |-> s] \in Places /\ [at |-> at, task |-> s].at = at /\ [at |-> at, task |-> s].task = s
        OBVIOUS
    <2> PICK new : new = [at |-> at, task |-> s]
        OBVIOUS
    <2>2. wsSend' = [wsSend EXCEPT ![a] = new] /\ new \in Places /\ new.at = at /\ new.task = s
        BY <1>c, <2>1 DEF SendAt
    <2>3. \A b \in WsAnswers : wsSend'[b] = IF b = a THEN new ELSE wsSend[b]
        BY <1>1, <2>2
    <2>4. \A b \in WsAnswers : wsSend[b].at \in {"post", "offer"} => wsSend[b].task \in wsAsked
        BY <1>1 DEF TasksWereAsked
    <2>5. wsSend' \in [WsAnswers -> Places]
        <3> HIDE DEF Places
        <3> QED
            BY <1>1, <2>2
    <2> QED
        BY <1>c, <2>2, <2>3, <2>4, <2>5
<1>d. ASSUME UNCHANGED wsPoll, wsAsked \subseteq wsAsked'
      PROVE  /\ wsPoll' \in [Pollers -> Pairs]
             /\ \A q \in Pollers : wsPoll'[q].at # "idle" => wsPoll'[q].task \in wsAsked'
    BY <1>1, <1>d DEF TasksWereAsked
<1>e. ASSUME UNCHANGED wsSend, wsAsked \subseteq wsAsked'
      PROVE  /\ wsSend' \in [WsAnswers -> Places]
             /\ \A b \in WsAnswers : wsSend'[b].at \in {"post", "offer"} => wsSend'[b].task \in wsAsked'
    BY <1>1, <1>e DEF TasksWereAsked
<1>f. ASSUME wsPoll' \in [Pollers -> Pairs], wsSend' \in [WsAnswers -> Places],
             \A q \in Pollers : wsPoll'[q].at # "idle" => wsPoll'[q].task \in wsAsked',
             \A b \in WsAnswers : wsSend'[b].at \in {"post", "offer"} => wsSend'[b].task \in wsAsked',
             wsChan' \in [Streams -> WsAnswers \cup {NoAnswer}], wsShown' \subseteq Seen,
             wsAsked' \subseteq Streams
      PROVE  Others' /\ TasksWereAsked'
    BY <1>f DEF Others, TasksWereAsked
<1> HIDE DEF Pairs, Places, Seen
<1>2. ASSUME NEW s \in Streams, WsAsk(s) PROVE Others' /\ TasksWereAsked'
    <2>1. wsAsked' = wsAsked \cup {s} /\ UNCHANGED <<wsChan, wsPoll, wsSend, wsShown>>
        BY <1>2 DEF WsAsk
    <2>2. wsAsked' \subseteq Streams /\ wsAsked \subseteq wsAsked'
        BY <1>a, <2>1
    <2> QED
        BY <1>1, <1>d, <1>e, <1>f, <2>1, <2>2
<1>3. ASSUME UNCHANGED <<wsAsked, wsChan, wsPoll, wsSend, wsShown>> PROVE Others' /\ TasksWereAsked'
    BY <1>1, <1>3, <1>d, <1>e, <1>f
<1>4. ASSUME NEW p \in Pollers, NEW at \in PollStates, NEW s \in Marks, PollAt(p, at, s),
             at # "idle" => s \in wsAsked, UNCHANGED <<wsAsked, wsSend>>,
             wsChan' \in [Streams -> WsAnswers \cup {NoAnswer}], wsShown' \subseteq Seen
      PROVE  Others' /\ TasksWereAsked'
    <2>1. wsAsked \subseteq wsAsked' /\ wsAsked' \subseteq Streams
        BY <1>1, <1>4
    <2> QED
        BY <1>4, <1>b, <1>e, <1>f, <2>1
<1>5. ASSUME NEW a \in WsAnswers, NEW at \in SendStates, NEW s \in Marks, SendAt(a, at, s),
             at \in {"post", "offer"} => s \in wsAsked, UNCHANGED <<wsAsked, wsPoll>>,
             wsChan' \in [Streams -> WsAnswers \cup {NoAnswer}], wsShown' \subseteq Seen
      PROVE  Others' /\ TasksWereAsked'
    <2>1. wsAsked \subseteq wsAsked' /\ wsAsked' \subseteq Streams
        BY <1>1, <1>5
    <2> QED
        BY <1>5, <1>c, <1>d, <1>f, <2>1
<1>6. ASSUME NEW p \in Pollers, NEW s \in Streams, WsLookup(p, s) PROVE Others' /\ TasksWereAsked'
    <2>1. "looking" \in PollStates /\ s \in Marks /\ s \in wsAsked /\ PollAt(p, "looking", s)
          /\ UNCHANGED <<wsAsked, wsSend, wsChan, wsShown>>
        BY <1>1, <1>6 DEF WsLookup
    <2> QED
        BY <1>1, <1>4, <2>1
<1>7. ASSUME NEW p \in Pollers, wsPoll[p].at # "idle" PROVE wsPoll[p].task \in wsAsked /\ wsPoll[p].task \in Streams
    BY <1>1, <1>7 DEF TasksWereAsked
<1>8. ASSUME NEW p \in Pollers, WsAnswered(p) PROVE Others' /\ TasksWereAsked'
    <2>1. PICK s : s = wsPoll[p].task
        OBVIOUS
    <2>2. /\ wsPoll[p].at = "looking" /\ wsChan[s] # NoAnswer
          /\ wsShown' = wsShown \cup {<<wsChan[s], s, "stream">>}
          /\ wsChan' = [wsChan EXCEPT ![s] = NoAnswer] /\ PollAt(p, "remove", s)
          /\ UNCHANGED <<wsAsked, wsSend>>
        BY <1>8, <2>1 DEF WsAnswered
    <2>3. s \in wsAsked /\ s \in Streams
        BY <1>7, <2>1, <2>2
    <2>4. wsChan[s] \in WsAnswers
        BY <1>1, <2>2, <2>3
    <2>5. wsShown' \subseteq Seen
        BY <1>1, <2>2, <2>3, <2>4 DEF Seen
    <2>6. wsChan' \in [Streams -> WsAnswers \cup {NoAnswer}]
        BY <1>1, <2>2
    <2>7. "remove" \in PollStates /\ s \in Marks
        BY <2>3
    <2> QED
        BY <1>4, <2>2, <2>3, <2>5, <2>6, <2>7
<1>9. ASSUME NEW p \in Pollers, NEW late \in BOOLEAN, WsPending(p, late) PROVE Others' /\ TasksWereAsked'
    <2>1. PICK s : s = wsPoll[p].task
        OBVIOUS
    <2>2. /\ wsPoll[p].at = "looking" /\ UNCHANGED <<wsAsked, wsChan, wsSend, wsShown>>
          /\ IF late THEN PollAt(p, "close", s) ELSE PollAt(p, "idle", NoStream)
        BY <1>9, <2>1 DEF WsPending
    <2>3. s \in wsAsked /\ s \in Streams
        BY <1>7, <2>1, <2>2
    <2>4. {"close", "idle"} \subseteq PollStates /\ s \in Marks /\ NoStream \in Marks
        BY <2>3
    <2>5. CASE late
        BY <1>1, <1>4, <2>2, <2>3, <2>4, <2>5
    <2>6. CASE ~late
        BY <1>1, <1>4, <2>2, <2>4, <2>6
    <2> QED
        BY <2>5, <2>6
<1>10. ASSUME NEW p \in Pollers, WsPolled(p) PROVE Others' /\ TasksWereAsked'
    <2>1. PollAt(p, "idle", NoStream) /\ UNCHANGED <<wsAsked, wsChan, wsSend, wsShown>>
        BY <1>10 DEF WsPolled, WsRemoveTask
    <2>2. "idle" \in PollStates /\ NoStream \in Marks
        OBVIOUS
    <2> QED
        BY <1>1, <1>4, <2>1, <2>2
<1>11. ASSUME NEW a \in WsAnswers, WsSendHead(a) PROVE Others' /\ TasksWereAsked'
    <2>1. PICK live : live = FromUnfinished(wsQueue)
        OBVIOUS
    <2>2. /\ UNCHANGED <<wsAsked, wsChan, wsPoll, wsShown>>
          /\ IF live = <<>> THEN SendAt(a, "sent", NoStream)
             ELSE SendAt(a, IF Head(live) \in wsClosed THEN "post" ELSE "offer", Head(live))
        BY <1>11, <2>1 DEF WsSendHead
    <2>3. live = wsQueue
        BY <1>1, <2>1, NoneIsDropped DEF WsIInv, TasksAgree
    <2>4. CASE live = <<>>
        <3>1. "sent" \in SendStates /\ NoStream \in Marks
            OBVIOUS
        <3> QED
            BY <1>1, <1>5, <2>2, <2>4, <3>1
    <2>5. CASE live # <<>>
        <3>1. Head(live) \in wsAsked
            BY <1>1, <2>3, <2>5
        <3>2. Head(live) \in Marks /\ {"post", "offer"} \subseteq SendStates
            BY <1>1, <3>1
        <3> QED
            BY <1>1, <1>5, <2>2, <2>5, <3>1, <3>2
    <2> QED
        BY <2>4, <2>5
<1>12. ASSUME NEW a \in WsAnswers, wsSend[a].at \in {"post", "offer"}
       PROVE  wsSend[a].task \in wsAsked /\ wsSend[a].task \in Streams
    BY <1>1, <1>12 DEF TasksWereAsked
<1>13. ASSUME NEW a \in WsAnswers, NEW ok \in BOOLEAN, WsPost(a, ok) PROVE Others' /\ TasksWereAsked'
    <2>1. PICK s, at : s = wsSend[a].task /\ at = IF s \in WithURL /\ ~ok THEN "failed" ELSE "sent"
        OBVIOUS
    <2>2. /\ wsSend[a].at = "post" /\ SendAt(a, at, s) /\ UNCHANGED <<wsAsked, wsChan, wsPoll>>
          /\ wsShown' = IF ok THEN wsShown \cup {<<a, s, "url">>} ELSE wsShown
        BY <1>13, <2>1 DEF WsPost, WsRemoveTask
    <2>3. s \in wsAsked /\ s \in Streams
        BY <1>12, <2>1, <2>2
    <2>4. wsShown' \subseteq Seen
        BY <1>1, <2>2, <2>3 DEF Seen
    <2>5. at \in SendStates /\ s \in Marks /\ at \notin {"post", "offer"}
        BY <2>1, <2>3
    <2> QED
        BY <1>1, <1>5, <2>2, <2>4, <2>5
<1>14. ASSUME NEW a \in WsAnswers, WsOffer(a) PROVE Others' /\ TasksWereAsked'
    <2>1. PICK s : s = wsSend[a].task
        OBVIOUS
    <2>2. /\ wsSend[a].at = "offer" /\ SendAt(a, "sent", s) /\ UNCHANGED <<wsAsked, wsPoll, wsShown>>
          /\ wsChan' = [wsChan EXCEPT ![s] = a] \/ UNCHANGED wsChan
        BY <1>14, <2>1 DEF WsOffer
    <2>3. s \in Streams
        BY <1>12, <2>1, <2>2
    <2>4. wsChan' \in [Streams -> WsAnswers \cup {NoAnswer}]
        BY <1>1, <2>2
    <2>5. "sent" \in SendStates /\ s \in Marks
        BY <2>3
    <2> QED
        BY <1>1, <1>5, <2>2, <2>4, <2>5
<1>15. ASSUME NEW s \in Streams, WsCleanup(s) PROVE Others' /\ TasksWereAsked'
    BY <1>3, <1>15 DEF WsCleanup
<1> QED
    BY <1>2, <1>3, <1>6, <1>8, <1>9, <1>10, <1>11, <1>13, <1>14, <1>15 DEF WsNext, wsVars

\* However polls, sends and the cleanup overlap, the map of streams and the queue
\* of the chat agree, no finished task is stranded, and no answer is shown twice
\* (handleStreamMessage, getStreamResponse, Send, removeTask, cleanupOldTasks).
THEOREM StreamsCorrect == WsSpec => []WsInv
<1>1. ASSUME WsInit PROVE WsIInv
    <2>1. wsQueue = <<>> /\ Range(wsQueue) = {}
        BY <1>1 DEF WsInit, Range
    <2>2. wsQueue \in Seq(wsAsked) /\ IsInjective(wsQueue)
        BY <1>1, <2>1 DEF WsInit, IsInjective
    <2>3. TasksAgree
        BY <1>1, <2>1, <2>2 DEF WsInit, TasksAgree
    <2>4. WsTypeOK
        BY <1>1, <2>2 DEF WsInit, WsTypeOK
    <2>5. TasksWereAsked /\ AnswersInOnePlace
        BY <1>1 DEF WsInit, TasksWereAsked, AnswersInOnePlace
    <2> QED
        BY <2>3, <2>4, <2>5 DEF WsIInv
<1>2. ASSUME WsIInv, [WsNext]_wsVars PROVE WsIInv'
    <2>1. Agree' /\ ShownOnce' /\ AnswersInOnePlace' /\ Others' /\ TasksWereAsked'
        BY <1>2, WsAssumption, AgreeStep, ShownStep, AnswersStep, OthersStep
    <2>2. TasksAgree'
        BY <2>1 DEF Agree, ShownOnce, TasksAgree
    <2>3. WsTypeOK'
        BY <2>1 DEF Agree, Others, WsTypeOK
    <2> QED
        BY <2>1, <2>2, <2>3 DEF WsIInv
<1>3. WsIInv => WsInv
    BY DEF WsIInv, WsInv
<1> QED
    BY <1>1, <1>2, <1>3, PTL DEF WsSpec
=============================================================================
