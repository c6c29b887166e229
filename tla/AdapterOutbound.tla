--------------------------- MODULE AdapterOutbound ---------------------------
(* How the chat adapters send: a message of several parts (chunks, lines or   *)
(* files) goes out by calls of the service which may arrive, be lost, or      *)
(* arrive while the adapter hears of an error; the manager sends the whole    *)
(* message again after an error it may repeat.  What differs between the      *)
(* adapters is a record per adapter.  Delays between attempts are left out.   *)
EXTENDS Naturals, Sequences, FiniteSets

CONSTANTS AoMaxParts,  \* parts of a message
          AoMaxRetries \* maxRetries

ASSUME AoAssumption == AoMaxParts \in Nat /\ AoMaxRetries \in Nat

(* A file the store resolves, an image, a URL, a reference nobody knows. *)
MediaParts == {"file", "image", "url", "gone"}

(* calls: alternatives tried in turn for one part; errors: what the adapter   *)
(* makes of the last failure; resolves: the parts it does not skip; carries:  *)
(* the parts the call really transports; whole: one call for all the parts;   *)
(* acked: a call that is lost is seen as an error; skips: a part whose call   *)
(* fails is left out.                                                         *)
Mode(calls, errors) ==
  [calls |-> calls, errors |-> errors, resolves |-> {"file", "image"},
   carries |-> {"file", "image"}, whole |-> FALSE, acked |-> TRUE, skips |-> FALSE]

(* ClassifySendError and ClassifyNetError. *)
Classified == {"permanent", "retry"}

TextOf(mode) == [mode EXCEPT !.resolves = {"text"}, !.carries = {"text"}]

TelegramText == TextOf(Mode(<<"html", "plain">>, {"retry"}))
DiscordText == TextOf(Mode(<<"send">>, {"retry"}))
SlackText == TextOf(Mode(<<"post">>, {"retry"}))
FeishuText == TextOf(Mode(<<"card">>, {"retry"}))
LineText == TextOf(Mode(<<"reply", "push">>, Classified))
QQText == TextOf(Mode(<<"post">>, {"retry"}))
OneBotText == TextOf([Mode(<<"write">>, {"retry"}) EXCEPT !.acked = FALSE])
MatrixText == TextOf(Mode(<<"event">>, {"retry"}))
WeComBotText == TextOf(Mode(<<"webhook">>, Classified))
WeComAppText == TextOf(Mode(<<"message">>, Classified))
SignalText == TextOf(Mode(<<"rpc">>, {"retry"}))
WhatsAppText == TextOf([Mode(<<"write">>, {"retry"}) EXCEPT !.acked = FALSE])
WhatsAppNativeText == TextOf(Mode(<<"message">>, {"retry"}))
IRCText == TextOf([Mode(<<"privmsg">>, {}) EXCEPT !.acked = FALSE])
DingTalkText == TextOf(Mode(<<"webhook">>, {"retry"}))

(* Plausible defect: a part that cannot be sent is left out. *)
TelegramMedia_Skips == [Mode(<<"file">>, {"retry"}) EXCEPT !.skips = TRUE]

TelegramMedia == Mode(<<"file">>, {"retry"})
DiscordMedia == [Mode(<<"files">>, {"retry"}) EXCEPT !.whole = TRUE]
SlackMedia == Mode(<<"upload">>, {"retry"})
FeishuMedia == Mode(<<"upload">>, {"retry"})
LineMedia == [Mode(<<"push">>, Classified) EXCEPT !.resolves = MediaParts, !.carries = {}]
QQMedia == [Mode(<<"post">>, {"retry"}) EXCEPT !.resolves = {"url"}, !.carries = {"url"}]
OneBotMedia == [Mode(<<"write">>, {"retry"}) EXCEPT !.whole = TRUE, !.acked = FALSE]
MatrixMedia == Mode(<<"upload">>, {"retry"})
WeComAppMedia == [Mode(<<"upload">>, Classified) EXCEPT !.carries = {"image"}, !.skips = TRUE]

TextSenders ==
  {TelegramText, DiscordText, SlackText, FeishuText, LineText, QQText, OneBotText, MatrixText,
   WeComBotText, WeComAppText, SignalText, WhatsAppText, WhatsAppNativeText, IRCText,
   DingTalkText}
MediaSenders ==
  {TelegramMedia, DiscordMedia, SlackMedia, FeishuMedia, LineMedia, QQMedia, OneBotMedia,
   MatrixMedia, WeComAppMedia}

VARIABLES aoMode,   \* the adapter's record
          aoParts,  \* the message
          aoNext,   \* the part Send is at
          aoCall,   \* the alternative it tries
          aoTry,    \* attempts of the manager
          aoGot,    \* [parts -> how often the service has got it]
          aoResult  \* "sending", "retry", "permanent", "ok", "givenUp"

aoVars == <<aoMode, aoParts, aoNext, aoCall, aoTry, aoGot, aoResult>>

MessagesOf(kinds) == UNION {[1..n -> kinds] : n \in 1..AoMaxParts}

AoInit ==
  /\ \/ aoMode \in TextSenders /\ aoParts \in MessagesOf({"text"})
     \/ aoMode \in MediaSenders /\ aoParts \in MessagesOf(MediaParts)
  /\ aoNext = 1 /\ aoCall = 1 /\ aoTry = 0 /\ aoResult = "sending"
  /\ aoGot = [i \in 1..AoMaxParts |-> 0]

Resolved == {i \in DOMAIN aoParts : aoParts[i] \in aoMode.resolves}

(* The parts the next call is about. *)
InCall == IF aoMode.whole THEN Resolved ELSE {aoNext}

(* Send has gone through the parts; an adapter that collects the files first  *)
(* is done when there is none.                                                *)
Through == IF aoMode.whole /\ Resolved = {} THEN TRUE ELSE aoNext > Len(aoParts)

AoSkip ==
  /\ aoResult = "sending" /\ ~Through /\ ~aoMode.whole /\ aoNext \notin Resolved
  /\ aoNext' = aoNext + 1
  /\ UNCHANGED <<aoMode, aoParts, aoCall, aoTry, aoGot, aoResult>>

(* One call of the service, which arrives or not and is known to or not. *)
AoSend(arrives, known) ==
  /\ aoResult = "sending" /\ ~Through /\ InCall \subseteq Resolved
  /\ aoGot' = [i \in DOMAIN aoGot |->
                 IF arrives /\ i \in InCall /\ aoParts[i] \in aoMode.carries
                 THEN aoGot[i] + 1 ELSE aoGot[i]]
  /\ IF (arrives /\ known) \/ ~aoMode.acked
     THEN /\ aoNext' = (IF aoMode.whole THEN Len(aoParts) ELSE aoNext) + 1 /\ aoCall' = 1
          /\ UNCHANGED aoResult
     ELSE IF aoCall < Len(aoMode.calls) THEN aoCall' = aoCall + 1 /\ UNCHANGED <<aoNext, aoResult>>
     ELSE \/ /\ aoMode.skips /\ aoNext' = aoNext + 1 /\ aoCall' = 1 /\ UNCHANGED aoResult
          \/ aoResult' \in aoMode.errors /\ UNCHANGED <<aoNext, aoCall>>
  /\ UNCHANGED <<aoMode, aoParts, aoTry>>

(* The channel has no connection, no access token, no webhook for the chat,   *)
(* or was stopped: Send fails before any call.                                *)
AoUnable(class) ==
  /\ aoResult = "sending" /\ aoNext = 1 /\ aoCall = 1
  /\ aoResult' = class
  /\ UNCHANGED <<aoMode, aoParts, aoNext, aoCall, aoTry, aoGot>>

AoReturn ==
  /\ aoResult = "sending" /\ Through /\ aoResult' = "ok"
  /\ UNCHANGED <<aoMode, aoParts, aoNext, aoCall, aoTry, aoGot>>

(* sendWithRetry and sendMediaWithRetry: the whole message again, unless the  *)
(* error is permanent or the attempts are used up.                            *)
AoAgain ==
  /\ aoResult \in Classified
  /\ IF aoResult = "permanent" \/ aoTry = AoMaxRetries
     THEN aoResult' = "givenUp" /\ UNCHANGED <<aoNext, aoCall, aoTry>>
     ELSE aoResult' = "sending" /\ aoNext' = 1 /\ aoCall' = 1 /\ aoTry' = aoTry + 1
  /\ UNCHANGED <<aoMode, aoParts, aoGot>>

AoNextStep ==
  \/ AoSkip \/ AoReturn \/ AoAgain
  \/ \E arrives, known \in BOOLEAN : AoSend(arrives, known)
  \/ \E class \in Classified : AoUnable(class)

AoSpec == AoInit /\ [][AoNextStep]_aoVars

----------------------------------------------------------------------------
(* The state is well typed. *)
AoTypeOK ==
  /\ aoMode \in TextSenders \cup MediaSenders
  /\ aoParts \in Seq(MediaParts \cup {"text"})
  /\ aoNext \in 1..(AoMaxParts + 1) /\ aoCall \in 1..Len(aoMode.calls)
  /\ aoTry \in 0..AoMaxRetries /\ aoGot \in [1..AoMaxParts -> Nat]
  /\ aoResult \in Classified \cup {"sending", "ok", "givenUp"}

(* Parts the adapter takes and transports. *)
Carried == {i \in Resolved : aoParts[i] \in aoMode.carries}

(* Of an adapter whose calls are acknowledged, a Send that succeeds has       *)
(* delivered every part it transports, and the service gets the parts in      *)
(* order: none before an earlier one has arrived, whatever fails and is       *)
(* repeated in between.                                                       *)
SuccessIsDelivered ==
  aoMode.acked /\ aoMode # WeComAppMedia =>
    /\ aoResult = "ok" => \A i \in Carried : aoGot[i] > 0
    /\ \A i, j \in Carried : i < j /\ aoGot[j] > 0 => aoGot[i] > 0

(* No part arrives more often than attempts and their alternatives allow.     *)
RepeatsAreBounded ==
  \A i \in DOMAIN aoParts : aoGot[i] <= (aoTry + 1) * Len(aoMode.calls)

(* Success means delivery, in order, with boundedly many repetitions.         *)
AoInv == AoTypeOK /\ SuccessIsDelivered /\ RepeatsAreBounded

(* A part arrives once.  Refuted: an error after the first part sends all     *)
(* again, and Telegram and LINE repeat a part whose answer was lost.          *)
PartOnce == \A i \in DOMAIN aoParts : aoGot[i] <= 1

(* What exists is delivered when Send succeeds.  Refuted: QQ skips local      *)
(* files, LINE and WeCom send only the caption of a file, WeCom leaves out    *)
(* what it cannot upload, OneBot, WhatsApp and IRC do not wait for an answer. *)
ExistingIsDelivered ==
  aoResult = "ok" => \A i \in DOMAIN aoParts : aoParts[i] # "gone" => aoGot[i] > 0
=============================================================================
