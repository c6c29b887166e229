--------------------------- MODULE ChatIndicators ---------------------------
(* What the user of a chat sees while the agent works: the typing indicator,  *)
(* the reaction and the "Thinking..." placeholder that an inbound message     *)
(* sets off, the three entries the channel manager keeps for the chat, and    *)
(* preSend, which takes them away before a reply.                             *)
(*                                                                            *)
(* TTLs are abstracted: the janitor may find an entry too old at any time,    *)
(* since a turn may last longer than any of them.                             *)
EXTENDS Naturals, FiniteSets

CONSTANTS Questions,      \* inbound messages of the chat
          VoiceQuestions, \* those whose placeholder waits for the transcription
          Repliers,       \* the worker of the channel, and callers of SendMessage
          NoQuestion

Kinds == {"typing", "reaction", "placeholder"}

VARIABLES ciEntry,   \* [Kinds -> question]: typingStops, reactionUndos, placeholders
          ciShown,   \* [Kinds -> questions]: what the service still shows
          ciAsked,   \* questions that have arrived
          ciDue,     \* voice questions whose placeholder is not sent yet
          ciEdits    \* [Repliers -> question]: the placeholder being edited

ciVars == <<ciEntry, ciShown, ciAsked, ciDue, ciEdits>>

CiInit ==
  /\ ciEntry = [k \in Kinds |-> NoQuestion] /\ ciShown = [k \in Kinds |-> {}]
  /\ ciAsked = {} /\ ciDue = {} /\ ciEdits = [r \in Repliers |-> NoQuestion]

(* Plausible defect: the stop function of the previous entry is forgotten.    *)
Replaced_Forgotten(k) == {}

(* What becomes of the previous entry of a kind when a new one is recorded:   *)
(* RecordTypingStop calls its stop function, the others just store.           *)
Replaced(k) == IF k = "typing" THEN {ciEntry[k]} ELSE {}

(* The entries of the kinds ks are recorded for question q. *)
Record(q, ks) ==
  /\ ciEntry' = [k \in Kinds |-> IF k \in ks THEN q ELSE ciEntry[k]]
  /\ ciShown' = [k \in Kinds |-> IF k \in ks THEN (ciShown[k] \ Replaced(k)) \cup {q}
                                            ELSE ciShown[k]]

(* BaseChannel.HandleMessage, before it publishes the message. *)
CiQuestion(q) ==
  /\ q \notin ciAsked /\ ciAsked' = ciAsked \cup {q}
  /\ Record(q, IF q \in VoiceQuestions THEN Kinds \ {"placeholder"} ELSE Kinds)
  /\ ciDue' = ciDue \cup ({q} \cap VoiceQuestions)
  /\ UNCHANGED ciEdits

(* Manager.SendPlaceholder, which the agent loop calls after transcribing. *)
CiTranscribed(q) ==
  /\ q \in ciDue /\ ciDue' = ciDue \ {q}
  /\ Record(q, {"placeholder"})
  /\ UNCHANGED <<ciAsked, ciEdits>>

(* preSend up to EditMessage: typing and reaction end, the placeholder's id   *)
(* is read and its entry stays.                                               *)
CiPreSend(r) ==
  /\ ciEdits[r] = NoQuestion /\ ciAsked # {}
  /\ ciEntry' = [ciEntry EXCEPT !["typing"] = NoQuestion, !["reaction"] = NoQuestion]
  /\ ciShown' = [k \in Kinds |-> IF k = "placeholder" THEN ciShown[k]
                                                     ELSE ciShown[k] \ {ciEntry[k]}]
  /\ ciEdits' = [ciEdits EXCEPT ![r] = ciEntry["placeholder"]]
  /\ UNCHANGED <<ciAsked, ciDue>>

(* EditMessage returned.  Whether it worked or not, the entry the chat has by *)
(* now is deleted, which may be a later question's.                           *)
CiEdited(r, ok) ==
  /\ ciEdits[r] # NoQuestion /\ ciEdits' = [ciEdits EXCEPT ![r] = NoQuestion]
  /\ ciEntry' = [ciEntry EXCEPT !["placeholder"] = NoQuestion]
  /\ ciShown' = IF ok THEN [ciShown EXCEPT !["placeholder"] = @ \ {ciEdits[r]}] ELSE ciShown
  /\ UNCHANGED <<ciAsked, ciDue>>

(* runTTLJanitor finds an entry of kind k older than its TTL; an old          *)
(* placeholder is forgotten, not edited.                                      *)
CiJanitor(k) ==
  /\ ciEntry[k] # NoQuestion /\ ciEntry' = [ciEntry EXCEPT ![k] = NoQuestion]
  /\ ciShown' = IF k = "placeholder" THEN ciShown
                                     ELSE [ciShown EXCEPT ![k] = @ \ {ciEntry[k]}]
  /\ UNCHANGED <<ciAsked, ciDue, ciEdits>>

CiNext ==
  \/ \E q \in Questions : CiQuestion(q) \/ CiTranscribed(q)
  \/ \E r \in Repliers : CiPreSend(r) \/ \E ok \in BOOLEAN : CiEdited(r, ok)
  \/ \E k \in Kinds : CiJanitor(k)

CiSpec == CiInit /\ [][CiNext]_ciVars

----------------------------------------------------------------------------
(* The state is well typed. *)
CiTypeOK ==
  /\ ciEntry \in [Kinds -> Questions \cup {NoQuestion}]
  /\ ciShown \in [Kinds -> SUBSET Questions]
  /\ ciAsked \subseteq Questions /\ ciDue \subseteq VoiceQuestions
  /\ ciEdits \in [Repliers -> Questions \cup {NoQuestion}]

(* A typing indicator that runs is one the next reply or the janitor stops,   *)
(* however questions, replies and the janitor overlap: RecordTypingStop never *)
(* forgets a stop function it has not called.                                 *)
TypingIsOwned == ciShown["typing"] \subseteq {ciEntry["typing"]}

(* Well typed, and the typing indicator has its owner.                        *)
CiInv == CiTypeOK /\ TypingIsOwned

(* The same of reactions ("registers a reaction undo function for later       *)
(* invocation").  Refuted: a second question replaces the entry of the first. *)
ReactionIsOwned == ciShown["reaction"] \subseteq {ciEntry["reaction"]}

(* The comment in preSend: "edit failed -> fall through to normal Send,       *)
(* placeholder preserved for retry".  Refuted: the entry is deleted.          *)
FailedEditKeepsPlaceholder ==
  [][\A r \in Repliers : CiEdited(r, FALSE)
        => ciEntry'["placeholder"] = ciEntry["placeholder"]]_ciVars
=============================================================================
