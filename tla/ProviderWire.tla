---------------------------- MODULE ProviderWire ----------------------------
(* The provider adapters: what each of them makes of the messages of a        *)
(* conversation before it sends them to its service, and what of the answer.  *)
(* One conversation is served by several of them: the fallback chain changes  *)
(* models, a reload of the configuration the provider.                        *)
(*                                                                            *)
(* A message is whether it has text and an image, its tool calls and the id   *)
(* of the call it answers.  What is sent is a sequence of blocks, each of     *)
(* which names the message it comes from; HTTP and JSON are left out.         *)
EXTENDS Naturals, Sequences, FiniteSets, SequencesExt

CONSTANTS PwMaxMsgs,   \* length of a conversation
          PwMaxCalls   \* calls of one answer

ASSUME PwAssumption == PwMaxMsgs \in Nat /\ PwMaxCalls \in Nat

VARIABLES pwMsgs,    \* Seq of messages as the agent loop holds them
          pwDue,     \* the model is to be asked
          pwFailed   \* the last call ended in an error

pwVars == <<pwMsgs, pwDue, pwFailed>>

PwProviders == {"openai", "gemini", "anthropic", "anthropic_messages", "antigravity", "codex",
                "claude_cli", "codex_cli", "copilot"}

(* A tool call keeps its name twice, in Name, which JSON leaves out, and in   *)
(* Function; sig is where a thought signature is kept, by the provider by.    *)
PwCalls == [id : Nat, name : BOOLEAN, func : BOOLEAN, sig : {"none", "function", "extra"},
            by : PwProviders]
PwMessage(role, text) ==
  [role |-> role, text |-> text, image |-> FALSE, calls |-> <<>>, id |-> 0]

----------------------------------------------------------------------------
(* What each adapter sends for message i *)

Block(kind, i) == [kind |-> kind, msg |-> i, id |-> 0, named |-> TRUE, sig |-> FALSE]
TextBlock(m, i) == IF m.text THEN <<Block("text", i)>> ELSE <<>>
AnswerBlock(m, i) == <<[Block("result", i) EXCEPT !.id = m.id]>>
CallBlocks(m, i, named(_), signed(_)) ==
  [k \in DOMAIN m.calls |-> [Block("call", i) EXCEPT !.id = m.calls[k].id,
                               !.named = named(m.calls[k]), !.sig = signed(m.calls[k])]]

Unsigned(c) == FALSE
InName(c) == c.name
InFunction(c) == c.func
InEither(c) == c.name \/ c.func
SignedInExtra(c) == c.sig = "extra"
SignedInFunction(c) == c.sig = "function"

(* The calls without a name are left out. *)
Named(blocks) == FlattenSeq([k \in DOMAIN blocks |-> IF blocks[k].named THEN <<blocks[k]>> ELSE <<>>])

(* serializeMessages: the calls as JSON has them, with their extra content. *)
OpenAIWire(m, i) ==
  LET parts == TextBlock(m, i) \o (IF m.image THEN <<Block("image", i)>> ELSE <<>>)
                 \o CallBlocks(m, i, InFunction, SignedInExtra)
  IN  IF m.role = "tool" THEN AnswerBlock(m, i) ELSE parts

(* buildParams: the name is the one in Name. *)
AnthropicWire(m, i) ==
  IF m.role = "tool" THEN AnswerBlock(m, i)
  ELSE TextBlock(m, i) \o CallBlocks(m, i, InName, Unsigned)

(* buildRequestBody: results next to each other become one user message. *)
AnthropicMessagesWire(m, i) ==
  IF m.role = "tool" THEN AnswerBlock(m, i)
  ELSE TextBlock(m, i) \o CallBlocks(m, i, InEither, Unsigned)

(* Plausible defect: the name is looked for in Name alone, and a call without *)
(* one is left out.                                                           *)
AntigravityWire_NameOnly(m, i) ==
  IF m.role = "tool" THEN AnswerBlock(m, i)
  ELSE TextBlock(m, i) \o Named(CallBlocks(m, i, InName, SignedInFunction))

(* buildRequest: calls without any name are left out. *)
AntigravityWire(m, i) ==
  IF m.role = "tool" THEN AnswerBlock(m, i)
  ELSE TextBlock(m, i) \o Named(CallBlocks(m, i, InEither, SignedInFunction))

(* buildCodexParams: likewise, as input items. *)
CodexWire(m, i) ==
  IF m.role = "tool" THEN AnswerBlock(m, i)
  ELSE TextBlock(m, i) \o Named(CallBlocks(m, i, InEither, Unsigned))

(* messagesToPrompt, buildPrompt: a transcript in which calls do not appear,  *)
(* and results do with the id of the call.                                    *)
ClaudeCliWire(m, i) == IF m.role = "tool" THEN AnswerBlock(m, i) ELSE TextBlock(m, i)
CodexCliWire(m, i)  == IF m.role = "tool" THEN AnswerBlock(m, i) ELSE TextBlock(m, i)

(* The Copilot session is sent role and content of each message. *)
CopilotWire(m, i) == TextBlock(m, i)

(* Those to which calls and results are data. *)
Structured == {"openai", "gemini", "anthropic", "anthropic_messages", "antigravity", "codex"}

WireOf(p, m, i) ==
  CASE p \in {"openai", "gemini"} -> OpenAIWire(m, i)
    [] p = "anthropic"            -> AnthropicWire(m, i)
    [] p = "anthropic_messages"   -> AnthropicMessagesWire(m, i)
    [] p = "antigravity"          -> AntigravityWire(m, i)
    [] p = "codex"                -> CodexWire(m, i)
    [] p = "claude_cli"           -> ClaudeCliWire(m, i)
    [] p = "codex_cli"            -> CodexCliWire(m, i)
    [] p = "copilot"              -> CopilotWire(m, i)

PwWire(p) == FlattenSeq([i \in DOMAIN pwMsgs |-> WireOf(p, pwMsgs[i], i)])

----------------------------------------------------------------------------
(* What each adapter makes of the end of an answer: "whole" or cut off at the *)
(* token limit, "refused" with a status or an exit code, "failed" as the      *)
(* service says in the answer, "lost" with the connection or "closed" when it *)
(* has begun, "empty".  An answer without content is "nothing".               *)
Endings == {"whole", "limit", "refused", "failed", "lost", "closed", "empty"}
Erring(errors, nothing) ==
  [e \in Endings |-> IF e \in errors THEN "error" ELSE IF e \in nothing THEN "nothing" ELSE "answer"]

OpenAIChat == Erring({"refused", "lost", "closed"}, {"failed", "empty"})
OpenAIStream == Erring({"refused", "lost"}, {"failed", "empty"})
AnthropicChat == Erring({"refused", "failed", "lost"}, {"empty"})
AnthropicMessagesChat == Erring({"refused", "lost", "closed"}, {"failed", "empty"})
AntigravityChat == Erring({"refused", "lost", "failed", "empty"}, {})
CodexChat == Erring({"refused", "lost", "closed"}, {"failed", "empty"})
ClaudeCliChat == Erring({"refused", "failed", "lost", "closed"}, {"empty"})
CodexCliChat == Erring({"refused", "failed"}, {"empty"})
CopilotChat == Erring({"refused", "failed", "lost", "closed"}, {"empty"})

(* The adapters of a provider; "openai" and "gemini" stream when told to. *)
ChatsOf(p) ==
  CASE p \in {"openai", "gemini"} -> {OpenAIChat, OpenAIStream}
    [] p = "anthropic"            -> {AnthropicChat}
    [] p = "anthropic_messages"   -> {AnthropicMessagesChat}
    [] p = "antigravity"          -> {AntigravityChat}
    [] p = "codex"                -> {CodexChat}
    [] p = "claude_cli"           -> {ClaudeCliChat}
    [] p = "codex_cli"            -> {CodexCliChat}
    [] p = "copilot"              -> {CopilotChat}

(* Those that find calls in an answer. *)
Calling == PwProviders \ {"copilot"}

(* The fields of a call an adapter found: Gemini's signature is in the extra  *)
(* content, Antigravity's in Function.                                        *)
ParsedCall(p, id) ==
  [id |-> id, name |-> TRUE, by |-> p,
   func |-> p \in {"anthropic_messages", "antigravity", "claude_cli", "codex_cli"},
   sig |-> CASE p = "gemini" -> "extra" [] p = "antigravity" -> "function" [] OTHER -> "none"]

(* NormalizeToolCall: either name is made from the other. *)
NormalizeToolCall(c) == [c EXCEPT !.name = c.name \/ c.func, !.func = c.name \/ c.func]

----------------------------------------------------------------------------
PwInit == pwMsgs = <<>> /\ pwDue = FALSE /\ pwFailed = FALSE

(* What the session store gives back: JSON has no Name, and the loop stores   *)
(* no images.                                                                 *)
Stored(m) == [m EXCEPT !.image = FALSE,
                       !.calls = [k \in DOMAIN m.calls |-> [m.calls[k] EXCEPT !.name = FALSE]]]

(* A turn begins with the history of the session and the new message. *)
PwAsk(text, image) ==
  /\ ~pwDue /\ Len(pwMsgs) < PwMaxMsgs /\ (text \/ image)
  /\ pwMsgs' = Append([i \in DOMAIN pwMsgs |-> Stored(pwMsgs[i])],
                      [PwMessage("user", text) EXCEPT !.image = image])
  /\ pwDue' = TRUE /\ UNCHANGED pwFailed

(* A context error: the history is compressed and read again. *)
PwReread ==
  /\ pwDue /\ pwMsgs' = [i \in DOMAIN pwMsgs |-> Stored(pwMsgs[i])]
  /\ UNCHANGED <<pwDue, pwFailed>>

NextId == 1 + Cardinality(UNION {{<<i, k>> : k \in DOMAIN pwMsgs[i].calls} : i \in DOMAIN pwMsgs})

(* The model is asked and answers with n calls, whose results follow, or with *)
(* a text; an answer without either becomes the default response.             *)
PwAnswer(p, chat, ending, n, text) ==
  LET calls == [k \in 1..n |-> NormalizeToolCall(ParsedCall(p, NextId + k - 1))]
      results == [k \in 1..n |-> [PwMessage("tool", TRUE) EXCEPT !.id = calls[k].id]]
      answer == chat[ending]
  IN  /\ pwDue /\ chat \in ChatsOf(p) /\ Len(pwMsgs) + n < PwMaxMsgs
      /\ n > 0 => p \in Calling /\ answer = "answer"
      /\ pwFailed' = (answer = "error")
      /\ IF answer = "error" THEN pwDue' = FALSE /\ UNCHANGED pwMsgs
         ELSE /\ pwDue' = (n > 0)
              /\ pwMsgs' = Append(pwMsgs, [PwMessage("assistant", text \/ n = 0) EXCEPT !.calls = calls])
                             \o results

PwNext ==
  \/ \E text, image \in BOOLEAN : PwAsk(text, image)
  \/ PwReread
  \/ \E p \in PwProviders : \E chat \in ChatsOf(p), e \in Endings, n \in 0..PwMaxCalls,
       text \in BOOLEAN : PwAnswer(p, chat, e, n, text)

PwSpec == PwInit /\ [][PwNext]_pwVars

----------------------------------------------------------------------------
(* The state is well typed. *)
PwTypeOK ==
  /\ \A i \in DOMAIN pwMsgs : LET m == pwMsgs[i] IN
       /\ m.role \in {"user", "assistant", "tool"} /\ {m.text, m.image} \subseteq BOOLEAN
       /\ \A k \in DOMAIN m.calls : m.calls[k] \in PwCalls
       /\ m.id \in Nat
  /\ Len(pwMsgs) <= PwMaxMsgs /\ {pwDue, pwFailed} \subseteq BOOLEAN

(* A service rejects a call without its result and a result without its call. *)
(* Whatever mixture of providers made the conversation, and whether the loop  *)
(* holds it or has read it from the session, each provider that sends calls   *)
(* as data sends every call, its result follows before any other text of the  *)
(* user, and no result comes without its call.                                *)
CallsArePaired ==
  \A p \in Structured : LET w == PwWire(p) IN
    /\ \A i \in DOMAIN pwMsgs : \A k \in DOMAIN pwMsgs[i].calls :
         \E b \in DOMAIN w : w[b].kind = "call" /\ w[b].id = pwMsgs[i].calls[k].id
    /\ \A b \in DOMAIN w : w[b].kind = "call" =>
         \E r \in b..Len(w) : /\ w[r].kind = "result" /\ w[r].id = w[b].id
                              /\ \A x \in b..r : w[x].kind \in {"call", "result"}
    /\ \A r \in DOMAIN w : w[r].kind = "result" =>
         \E b \in 1..r : w[b].kind = "call" /\ w[b].id = w[r].id

(* No provider loses or reorders text: the texts of the user, the assistant   *)
(* and, but for Copilot's, whose prompt has them as messages, the results.    *)
TextArrives ==
  \A p \in PwProviders :
    LET w == PwWire(p)
        texts == {b \in DOMAIN w : w[b].kind \in {"text", "result"}}
    IN  /\ {w[b].msg : b \in texts} = {i \in DOMAIN pwMsgs : pwMsgs[i].text}
        /\ \A b, c \in texts : b < c => w[b].msg < w[c].msg

(* A thought signature goes back to the service that gave it, though the      *)
(* session and Gemini's and Antigravity's JSON keep it in different places.   *)
SignaturesReturn ==
  \A p \in {"gemini", "antigravity"} : LET w == PwWire(p) IN
    \A b \in DOMAIN w : w[b].kind = "call" =>
      LET m == pwMsgs[w[b].msg] c == CHOOSE x \in Range(m.calls) : x.id = w[b].id
      IN  c.by = p => w[b].sig

(* What every provider is sent is paired, complete in text, and signed.       *)
PwInv == PwTypeOK /\ CallsArePaired /\ TextArrives /\ SignaturesReturn

(* "AddFullMessage appends a complete message (with tool calls, etc.)": calls *)
(* of earlier turns are sent with the name of their tool.  Refuted: the Claude *)
(* adapter reads Name, which is not stored.                                   *)
CallsAreNamed ==
  \A p \in Structured : LET w == PwWire(p) IN
    \A b \in DOMAIN w : w[b].kind = "call" => w[b].named

(* An image of the question reaches the model.  Refuted: only the adapter for *)
(* OpenAI's API sends images; the others drop them without a word.            *)
ImagesArrive ==
  pwDue => \A p \in PwProviders : \A i \in DOMAIN pwMsgs :
    pwMsgs[i].image => \E b \in DOMAIN PwWire(p) : PwWire(p)[b].kind = "image"

(* A service that says it failed gives an error, which the fallback chain can *)
(* act on.  Refuted: response.failed of Codex is an answer without text, as is *)
(* an error object in the body of an answer of status 200.                    *)
FailuresSurface == \A p \in PwProviders : \A chat \in ChatsOf(p) : chat["failed"] = "error"
=============================================================================
