---------------------------- MODULE Conversation ----------------------------
(***************************************************************************)
(* The pure functions of pkg/agent on a conversation: what                 *)
(* sanitizeHistoryForProvider makes of a history before a provider sees    *)
(* it, and which half of it forceCompression keeps.                        *)
(*                                                                         *)
(* A message is a record [role, turn, step, n]: "user", "reply" (an        *)
(* assistant message without tool calls), "call" (an assistant message     *)
(* with the n tool calls of one iteration) or "tool" (the result of the    *)
(* n-th of them).  Providers give every tool call an ID of its own, so     *)
(* turn, step and n identify it.                                           *)
(***************************************************************************)
EXTENDS Integers, Sequences, FiniteSets, SequencesExt

IsTool(m) == m.role = "tool"
IsCall(m) == m.role = "call"
IsAssistant(m) == m.role \in {"call", "reply"}

\* ToolCallID: the result m answers one of the tool calls of c.
Answers(m, c) == IsTool(m) /\ m.turn = c.turn /\ m.step = c.step /\ m.n \in 1..c.n

\* The last message of s up to position j that is no tool result, 0 if none.
Owner(s, j) == Max({0} \cup {i \in 1..j : ~IsTool(s[i])})

\* The messages at the positions ks, in the order in which s has them.
Picked(s, ks) ==
    FoldLeft(LAMBDA out, j : IF j \in ks THEN Append(out, s[j]) ELSE out,
             <<>>, [j \in 1..Len(s) |-> j])

-----------------------------------------------------------------------------
(* sanitizeHistoryForProvider *)

\* Only a leading tool result is taken for an orphan.
Admit_AnyResult(s, m) ==
    IF /\ IsTool(m) => s # <<>>
       /\ IsCall(m) => s # <<>> /\ Last(s).role \in {"user", "tool"}
    THEN Append(s, m) ELSE s

\* First pass: a result follows a call, and a call follows a user or a result.
Admit(s, m) ==
    IF /\ IsTool(m) => Owner(s, Len(s)) > 0 /\ IsCall(s[Owner(s, Len(s))])
       /\ IsCall(m) => s # <<>> /\ Last(s).role \in {"user", "tool"}
    THEN Append(s, m) ELSE s

\* Every tool call of s[i] has its result in the run of results after it.
Answered(s, i) ==
    \A n \in 1..s[i].n : \E j \in i+1..Len(s) :
        Owner(s, j) = i /\ Answers(s[j], s[i]) /\ s[j].n = n

\* A call is kept if some result follows it, whichever that is.
Kept_Partial(s, j) ==
    LET i == Owner(s, j) IN
    /\ s[j].role \in {"call", "tool"} => i < Len(s) /\ IsTool(s[i + 1])
    /\ IsTool(s[j]) => \A k \in i+1..j-1 : s[k] # s[j]

\* Second pass: a call and its run of results stay together or go together,
\* and of two results of one tool call the first one stays.
Kept(s, j) ==
    LET i == Owner(s, j) IN
    /\ s[j].role \in {"call", "tool"} => Answered(s, i)
    /\ IsTool(s[j]) => \A k \in i+1..j-1 : s[k] # s[j]

Sanitize(history) ==
    LET s == FoldLeft(Admit, <<>>, history)
    IN  Picked(s, {j \in DOMAIN s : Kept(s, j)})

-----------------------------------------------------------------------------
(* forceCompression *)

\* Position mid of a conversation is between a call and its results.
Inside(conv, mid) == IsTool(conv[mid + 1]) \/ IsCall(conv[mid])

\* How many of the oldest messages of the conversation are dropped.
SplitPoint(conv) ==
    LET half == Len(conv) \div 2
        past == Min({i \in half..Len(conv) : i < Len(conv) => ~IsTool(conv[i + 1])})
        mid  == IF past > 0 /\ past < Len(conv) /\ IsCall(conv[past]) THEN past - 1 ELSE past
    IN  IF mid < Len(conv) - 1 THEN mid
        ELSE IF half <= 1 THEN half
        ELSE Max({i \in 1..half : i = 1 \/ ~Inside(conv, i)})

\* The first and the last message stay, and the newer part of those between.
Compress(history) ==
    LET conv == SubSeq(history, 2, Len(history) - 1)
    IN  IF Len(history) <= 4 THEN history
        ELSE <<Head(history)>> \o SubSeq(conv, SplitPoint(conv) + 1, Len(conv))
                               \o <<Last(history)>>

-----------------------------------------------------------------------------
(* What a provider accepts. *)

CallsAnswered(s) == \A i \in DOMAIN s : IsCall(s[i]) => Answered(s, i)
ResultsAnswer(s) ==
    \A j \in DOMAIN s : IsTool(s[j]) => Owner(s, j) > 0 /\ Answers(s[j], s[Owner(s, j)])
=============================================================================
