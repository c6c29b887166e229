---------------------------- MODULE AdapterInbound ----------------------------
(* How the chat adapters take a message in: each handler is the sequence of   *)
(* its checks and effects in the order of the code, and two messages of one   *)
(* chat, or two deliveries of one message, go through it step by step, at     *)
(* once where the adapter gives every message a goroutine.  Then the answers  *)
(* of the agent use what the handlers have left for them: a reply token, the  *)
(* id of the last message, a webhook, one slot per chat.                      *)
(*                                                                            *)
(* The attributes of a message are abstract: who wrote it, whether the        *)
(* allowlist has the author, what chat it is in and whether it calls the bot, *)
(* and what it carries.                                                       *)
EXTENDS Naturals, Sequences, FiniteSets

CONSTANTS AiDeliveries \* events of the service, a subset of 1..n; 1 comes first

ASSUME AiAssumption == AiDeliveries \subseteq Nat \ {0} /\ 1 \in AiDeliveries

(* chat: a private chat, or a group in which the message mentions the bot, is *)
(* let in by the group trigger without a mention, or is none of its business. *)
AiMessages == [robot : BOOLEAN, allowed : BOOLEAN,
               chat : {"direct", "mention", "open", "closed"},
               body : {"text", "media", "none"}]

----------------------------------------------------------------------------
(* The handlers *)

Telegram == <<"allow", "fetch", "bots", "group", "publish">>
Discord == <<"own", "allow", "group", "fetch", "content", "publish">>
SlackMessage == <<"own", "allow", "slot", "blind", "fetch", "fetched", "publish">>
SlackMention == <<"own", "allow", "slot", "text", "publish">>
SlackCommand == <<"allow", "publish">>
Feishu == <<"allow", "fetch", "group", "publish">>
Line == <<"slot", "fetch", "fetched", "group", "allow", "publish">>
QQDirect == <<"dedupe", "text", "slot", "allow", "publish">>
QQGroup == <<"dedupe", "text", "slot", "allow", "publish">>
OneBot == <<"allow", "fetch", "dedupe", "content", "group", "slot", "allow", "publish">>
Matrix == <<"own", "fetch", "content", "allow", "group", "publish">>

(* Plausible defect: the id is marked once the message has been accepted. *)
WeComBot_MarksLate == <<"lookup", "blind", "allow", "dedupe", "publish">>

WeComBot == <<"dedupe", "blind", "allow", "publish">>
WeComApp == <<"dedupe", "publish">>
SignalData == <<"text", "own", "allow", "group", "publish">>
SignalSync == <<"text", "grouponly", "group", "publish">>
WhatsApp == <<"allow", "publish">>
WhatsAppNative == <<"text", "allow", "publish">>
IRC == <<"own", "allow", "group", "text", "publish">>
DingTalk == <<"text", "slot", "blind", "allow", "publish">>

(* The handlers of each adapter. *)
Adapters ==
  [telegram |-> {Telegram}, discord |-> {Discord}, feishu |-> {Feishu}, line |-> {Line},
   slack |-> {SlackMessage, SlackMention, SlackCommand}, qq |-> {QQDirect, QQGroup},
   onebot |-> {OneBot}, matrix |-> {Matrix}, wecom |-> {WeComBot}, wecom_app |-> {WeComApp},
   signal |-> {SignalData, SignalSync}, whatsapp |-> {WhatsApp},
   whatsapp_native |-> {WhatsAppNative}, irc |-> {IRC}, dingtalk |-> {DingTalk}]

(* Adapters that read their events one after the other. *)
Serial == {"slack", "onebot", "signal", "irc", "matrix", "whatsapp", "whatsapp_native"}
(* Adapters whose answer removes the slot, and those that only read it. *)
TakesSlot == {"line", "slack"}
ReadsSlot == {"qq", "onebot", "dingtalk"}

VARIABLES aiName,      \* the adapter
          aiMsg,       \* [deliveries -> message]
          aiTwin,      \* the second delivery is one of the same message
          aiRest,      \* [deliveries -> what is left of the handler]
          aiState,     \* [deliveries -> "new", "handled", "dropped", "published",
                       \*                "answering", "answered"]
          aiSeen,      \* the message's id is in the dedupe map
          aiFetched,   \* deliveries whose files were downloaded and stored
          aiSlot,      \* the delivery the chat's slot is about, or 0
          aiSeq,       \* QQ: the reply counter of the chat
          aiUsed       \* answers: <<delivery answered, delivery of the slot, counter>>

aiVars == <<aiName, aiMsg, aiTwin, aiRest, aiState, aiSeen, aiFetched, aiSlot, aiSeq, aiUsed>>

AiNone == CHOOSE m \in AiMessages : m.body = "none"

AiInit ==
  /\ aiName \in DOMAIN Adapters /\ aiTwin \in BOOLEAN
  /\ aiMsg = [d \in AiDeliveries |-> AiNone] /\ aiRest = [d \in AiDeliveries |-> <<>>]
  /\ aiState = [d \in AiDeliveries |-> "new"]
  /\ aiSeen = {} /\ aiFetched = {} /\ aiSlot = 0 /\ aiSeq = 0 /\ aiUsed = {}

(* The id of a delivery: a twin carries that of the first. *)
AiId(d) == IF aiTwin THEN 1 ELSE d

(* Mention events of Slack and group events of QQ mention the bot.            *)
Fits(handler, m) == /\ handler = SlackMention => m.chat = "mention"
                    /\ handler = QQGroup => m.chat \in {"direct", "mention"}

(* An event arrives; other messages than the first are plain questions that   *)
(* the bot should answer.                                                     *)
AiArrive(d, m, handler) ==
  /\ aiState[d] = "new" /\ Fits(handler, m)
  /\ \A o \in AiDeliveries : o < d => aiState[o] # "new"
  /\ aiName \in Serial => \A o \in AiDeliveries : aiState[o] # "handled"
  /\ d = 1 \/ m = IF aiTwin THEN aiMsg[1]
                  ELSE [robot |-> FALSE, allowed |-> TRUE, body |-> "text",
                        chat |-> IF aiMsg[1].chat = "direct" THEN "direct" ELSE "mention"]
  /\ aiMsg' = [aiMsg EXCEPT ![d] = m] /\ aiRest' = [aiRest EXCEPT ![d] = handler]
  /\ aiState' = [aiState EXCEPT ![d] = "handled"]
  /\ UNCHANGED <<aiName, aiTwin, aiSeen, aiFetched, aiSlot, aiSeq, aiUsed>>

InGroup(m) == m.chat # "direct"

(* ShouldRespondInGroup: a mention, or else what the trigger lets in. *)
ShouldRespondInGroup(mentioned, m) == mentioned \/ m.chat \in {"mention", "open"}

(* ShouldRespondInGroup(false, ...): with mention_only nothing passes; in     *)
(* that case a message that mentions the bot is not let in either.            *)
RespondsBlind(m) == m.chat = "open"

(* The condition under which a handler goes on past a check. *)
Passes(check, d) ==
  LET m == aiMsg[d] IN
  CASE check = "own" -> ~m.robot
    [] check = "bots" -> ~(InGroup(m) /\ m.robot /\ m.chat # "mention")
    [] check = "allow" -> m.allowed
    [] check = "group" -> InGroup(m) => ShouldRespondInGroup(m.chat = "mention", m)
    [] check = "blind" -> InGroup(m) => RespondsBlind(m)
    [] check = "grouponly" -> InGroup(m)
    [] check = "text" -> m.body = "text"
    [] check = "content" -> m.body # "none"
    [] check = "fetched" -> m.body = "text" \/ d \in aiFetched
    [] check \in {"dedupe", "lookup"} -> AiId(d) \notin aiSeen
    [] check = "publish" -> m.allowed
    [] OTHER -> TRUE

(* One step of a handler; BaseChannel.HandleMessage is its last. *)
AiHandle(d) ==
  /\ aiState[d] = "handled"
  /\ LET step == Head(aiRest[d]) IN
     /\ aiRest' = [aiRest EXCEPT ![d] = Tail(@)]
     /\ aiState' = [aiState EXCEPT ![d] = IF ~Passes(step, d) THEN "dropped"
                                          ELSE IF step = "publish" THEN "published" ELSE @]
     /\ aiSeen' = IF step = "dedupe" THEN aiSeen \cup {AiId(d)} ELSE aiSeen
     /\ aiFetched' \in IF step = "fetch" /\ aiMsg[d].body = "media"
                       THEN {aiFetched, aiFetched \cup {d}} ELSE {aiFetched}
     /\ IF step = "slot" THEN aiSlot' = d /\ aiSeq' = 0 ELSE UNCHANGED <<aiSlot, aiSeq>>
  /\ UNCHANGED <<aiName, aiMsg, aiTwin, aiUsed>>

(* Plausible defect: the answer reads the slot and leaves it. *)
SlotAfter_Loaded == aiSlot

(* LoadAndDelete of the LINE reply token and of the Slack acknowledgement. *)
SlotAfter == IF aiName \in TakesSlot THEN 0 ELSE aiSlot

(* Send for the answer to d: look at the slot of the chat ... *)
AiAnswer(d) ==
  /\ aiState[d] = "published" /\ aiState' = [aiState EXCEPT ![d] = "answering"]
  /\ aiUsed' = IF aiName \in TakesSlot \cup ReadsSlot /\ aiSlot # 0
               THEN aiUsed \cup {<<d, aiSlot, 0>>} ELSE aiUsed
  /\ aiSlot' = SlotAfter
  /\ UNCHANGED <<aiName, aiMsg, aiTwin, aiRest, aiSeen, aiFetched, aiSeq>>

(* ... and send; QQ counts the replies to a message in a counter that the     *)
(* handler of a later message replaces.                                       *)
AiSent(d) ==
  /\ aiState[d] = "answering" /\ aiState' = [aiState EXCEPT ![d] = "answered"]
  /\ IF aiName = "qq"
     THEN /\ aiSeq' = aiSeq + 1
          /\ aiUsed' = {IF u[1] = d THEN <<d, u[2], aiSeq + 1>> ELSE u : u \in aiUsed}
     ELSE UNCHANGED <<aiSeq, aiUsed>>
  /\ UNCHANGED <<aiName, aiMsg, aiTwin, aiRest, aiSeen, aiFetched, aiSlot>>

AiNext ==
  \/ \E d \in AiDeliveries, m \in AiMessages :
       \E handler \in Adapters[aiName] : AiArrive(d, m, handler)
  \/ \E d \in AiDeliveries : AiHandle(d) \/ AiAnswer(d) \/ AiSent(d)

AiSpec == AiInit /\ [][AiNext]_aiVars

----------------------------------------------------------------------------
(* The state is well typed. *)
AiTypeOK ==
  /\ aiName \in DOMAIN Adapters /\ aiTwin \in BOOLEAN
  /\ aiMsg \in [AiDeliveries -> AiMessages]
  /\ aiState \in [AiDeliveries -> {"new", "handled", "dropped", "published", "answering",
                                   "answered"}]
  /\ aiSeen \subseteq AiDeliveries /\ aiFetched \subseteq AiDeliveries
  /\ aiSlot \in AiDeliveries \cup {0} /\ aiSeq \in Nat
  /\ aiUsed \subseteq AiDeliveries \X AiDeliveries \X Nat

Published(d) == aiState[d] \in {"published", "answering", "answered"}

(* A message an adapter with a dedupe map publishes is published once,        *)
(* however two deliveries of it overlap, for the id is looked up and marked   *)
(* in one step; and one that publishes has passed the allowlist, and in the   *)
(* groups of adapters with a group trigger the trigger.                       *)
PublishedOnce ==
  /\ aiTwin /\ aiName \in {"qq", "onebot", "wecom", "wecom_app"} =>
       Cardinality({d \in AiDeliveries : Published(d)}) <= 1
  /\ \A d \in AiDeliveries : Published(d) =>
       /\ aiMsg[d].allowed
       /\ aiMsg[d].chat = "closed" =>
            aiName \in {"whatsapp", "whatsapp_native", "wecom_app", "slack"}

(* The reply token of LINE is good for one reply, and the reaction of Slack   *)
(* is added once: no two answers use one slot, whatever messages and answers  *)
(* come in between.                                                           *)
TokenUsedOnce ==
  aiName \in TakesSlot => \A u, v \in aiUsed : u[2] = v[2] => u = v

(* What adapters with a dedupe map publish, and the tokens of LINE, are used  *)
(* once.                                                                      *)
AiInv == AiTypeOK /\ PublishedOnce /\ TokenUsedOnce

(* An answer goes to the message it answers.  Refuted: a later message of the *)
(* chat, even one that was not accepted, has replaced the slot.               *)
AnswerMeetsQuestion == \A u \in aiUsed : u[1] = u[2]

(* A message that is refused leaves nothing behind.  Refuted: LINE, Slack,    *)
(* QQ, OneBot and DingTalk keep its slot, LINE, Matrix, OneBot, Telegram and  *)
(* Feishu its files.                                                          *)
RefusedLeavesNothing ==
  \A d \in AiDeliveries : aiState[d] = "dropped" => aiSlot # d /\ d \notin aiFetched

(* What mentions the bot and is allowed is published.  Refuted for Slack's    *)
(* message events, DingTalk and WeCom, which do not look for the mention: the *)
(* mention_only setting of a group mutes DingTalk and WeCom.                  *)
MentionIsPublished ==
  \A d \in AiDeliveries : aiState[d] = "dropped" =>
    ~(aiMsg[d].allowed /\ ~aiMsg[d].robot /\ aiMsg[d].chat = "mention"
      /\ aiMsg[d].body = "text" /\ ~aiTwin)

(* QQ refuses a second reply with the id and the counter of an earlier one.   *)
(* Refuted: a message that arrives between the two reads of a send restarts   *)
(* the counter for the old id.                                                *)
SeqIsFresh ==
  \A u, v \in aiUsed : u[2] = v[2] /\ u[3] = v[3] /\ u[3] # 0 => u = v
=============================================================================
