---------------------------- MODULE AbstractHistory ----------------------------
(***************************************************************************)
(* What pkg/memory promises of one session: its history is a sequence of   *)
(* messages to which whole operations happen, one at a time, and a crash   *)
(* (or an I/O error) may at worst bring truncated messages back in front   *)
(* of it, until an append that ends early leaves half a line in the file.  *)
(***************************************************************************)
EXTENDS Naturals, Sequences, SequencesExt

CONSTANT Messages
VARIABLES history, torn

HInit == history = <<>> /\ torn = FALSE

HAdd == \E m \in Messages : history' = Append(history, m)

\* All but the last k messages go; k = 0 removes all of them.
HTruncate == \E k \in 0..Len(history) :
                history' = SubSeq(history, Len(history) - k + 1, Len(history))

\* The history is replaced: a note may take the place of the oldest messages.
HReplace == \E k \in 0..Len(history), note \in {<<>>} \cup {<<m>> : m \in Messages} :
                history' = note \o SubSeq(history, Len(history) - k + 1, Len(history))

HResurrect == IsSuffix(history, history') /\ history' \in Seq(Messages)

\* From then on nothing is promised.
HTorn == torn' /\ history' \in Seq(Messages)

HNext == (UNCHANGED torn /\ (HAdd \/ HTruncate \/ HReplace \/ HResurrect)) \/ HTorn
HSpec == HInit /\ [][HNext]_<<history, torn>>
=============================================================================
