------------------------------ MODULE JSONLStore ------------------------------
(***************************************************************************)
(* pkg/memory: one session of the JSONL store, two files.  The .jsonl file *)
(* holds one message per line and is appended to or replaced by rename;    *)
(* the .meta.json file holds the skip offset and is replaced by rename.    *)
(* The session lock makes operations one at a time, but each takes two     *)
(* writes, and the process or a write may end between or during them.      *)
(***************************************************************************)
EXTENDS Naturals, Sequences, FiniteSets, SequencesExt

CONSTANTS
    Msgs,         \* messages; each is added once
    MaxCrashes,   \* bound
    TornWrites    \* whether an append that ends early may leave half a line

Half == "half"  \* a line that does not parse

ASSUME StoreAssumption == MaxCrashes \in Nat /\ TornWrites \in BOOLEAN /\ Half \notin Msgs

VARIABLES
    lines,     \* the .jsonl file: sequences of pieces, one piece if it parses
    tail,      \* the last line has no newline
    skip,      \* meta.Skip
    count,     \* meta.Count
    op,        \* the operation that holds the session lock
    used,      \* messages added so far
    expected,  \* history: what GetHistory should return after the operations
    torn,      \* history: an append has left half a line
    undone,    \* history: the rewrite that was cut off after its meta: "no",
               \* "set" or "compact"
    compacted, \* history: a Compact has found nothing to do since
    crashes

files == <<lines, tail, skip, count>>
ghosts == <<expected, torn, undone, compacted>>
vars == <<files, op, used, ghosts, crashes>>

Lines(h) == [i \in 1..Len(h) |-> <<h[i]>>]

\* readMessages: the lines after skip, in order, without those that do not parse.
Parses(line) == Len(line) = 1 /\ line # <<Half>>
Nth(S, i) == CHOOSE n \in S : Cardinality({m \in S : m <= n}) = i
Read(ls, k) ==
    LET valid == {n \in (k + 1)..Len(ls) : Parses(ls[n])}
    IN  [i \in 1..Cardinality(valid) |-> ls[Nth(valid, i)][1]]
History == Read(lines, skip)

LastOf(h, k) == IF k < Len(h) THEN SubSeq(h, Len(h) - k + 1, Len(h)) ELSE h

Idle == [kind |-> "idle", at |-> "idle", arg |-> <<>>, before |-> <<>>]

Init ==
    /\ lines = <<>> /\ tail = FALSE /\ skip = 0 /\ count = 0
    /\ op = Idle /\ used = {} /\ crashes = 0
    /\ expected = <<>> /\ torn = FALSE /\ undone = "no" /\ compacted = FALSE

Acquire(kind, at, arg) ==
    /\ op = Idle
    /\ op' = [kind |-> kind, at |-> at, arg |-> arg, before |-> History]
Release == op' = Idle
At(kind, at) == op.kind = kind /\ op.at = at

-----------------------------------------------------------------------------
(* addMsg: append a line and sync it, then count it in the meta. *)

AddBegin(m) ==
    /\ m \notin used
    /\ Acquire("add", "append", <<m>>)
    /\ used' = used \cup {m}
    /\ UNCHANGED <<files, ghosts, crashes>>

\* O_APPEND: after half a line without a newline the new line goes on there.
Appended(piece) ==
    IF tail THEN [lines EXCEPT ![Len(lines)] = Append(@, piece)]
            ELSE Append(lines, <<piece>>)

AddAppend ==
    /\ At("add", "append")
    /\ lines' = Appended(op.arg[1]) /\ tail' = FALSE
    /\ expected' = Append(expected, op.arg[1])
    /\ op' = [op EXCEPT !.at = "meta"]
    /\ UNCHANGED <<skip, count, used, torn, undone, compacted, crashes>>

\* The write ends early: the disk is full, or the process or machine stops.
\* Nothing, a part of the line, or all of it but the newline is in the file.
HalfWritten ==
    \/ UNCHANGED <<lines, tail, torn>>
    \/ /\ TornWrites
       /\ \E piece \in {Half, op.arg[1]} : lines' = Appended(piece)
       /\ tail' = TRUE /\ torn' = TRUE

AddFails ==
    /\ At("add", "append") /\ HalfWritten
    /\ Release
    /\ UNCHANGED <<skip, count, used, expected, undone, compacted, crashes>>

AddMeta ==
    /\ At("add", "meta")
    /\ count' = count + 1
    /\ Release
    /\ UNCHANGED <<lines, tail, skip, used, ghosts, crashes>>

-----------------------------------------------------------------------------
(* TruncateHistory: one write, of the meta, after counting the lines. *)

\* The count in the meta is taken for the number of lines on disk.
LineCount_Stale == count
LineCount == Len(lines)

Truncate(keepLast) ==
    /\ op = Idle
    /\ count' = LineCount
    /\ skip' = IF keepLast = 0 THEN LineCount
               ELSE IF keepLast < LineCount - skip THEN LineCount - keepLast ELSE skip
    /\ expected' = LastOf(expected, keepLast)
    /\ UNCHANGED <<lines, tail, op, used, torn, undone, compacted, crashes>>

-----------------------------------------------------------------------------
(* SetHistory and Compact: the meta with skip 0 first, the lines second. *)

SetBegin(h) ==
    /\ Acquire("set", "meta", h)
    /\ used' = used \cup ToSet(h)
    /\ UNCHANGED <<files, ghosts, crashes>>

CompactBegin ==
    /\ IF skip = 0
       THEN compacted' = TRUE /\ UNCHANGED op /\ op = Idle
       ELSE Acquire("compact", "meta", History) /\ UNCHANGED compacted
    /\ UNCHANGED <<files, used, expected, torn, undone, crashes>>

\* The meta keeps the skip offset of the old file.
RewriteMeta_KeepSkip ==
    /\ op.kind \in {"set", "compact"} /\ op.at = "meta"
    /\ count' = Len(op.arg)
    /\ op' = [op EXCEPT !.at = "lines"]
    /\ UNCHANGED <<lines, tail, skip, used, ghosts, crashes>>

RewriteMeta ==
    /\ op.kind \in {"set", "compact"} /\ op.at = "meta"
    /\ skip' = 0 /\ count' = Len(op.arg)
    /\ op' = [op EXCEPT !.at = "lines"]
    /\ UNCHANGED <<lines, tail, used, ghosts, crashes>>

\* The new lines go after the old ones instead of replacing them.
RewriteLines_Append ==
    /\ op.at = "lines"
    /\ lines' = lines \o Lines(op.arg) /\ tail' = FALSE
    /\ IF op.kind = "set"
       THEN expected' = op.arg /\ undone' = "no"
       ELSE UNCHANGED <<expected, undone>>
    /\ compacted' = FALSE
    /\ Release
    /\ UNCHANGED <<skip, count, used, torn, crashes>>

RewriteLines ==
    /\ op.at = "lines"
    /\ lines' = Lines(op.arg) /\ tail' = FALSE
    /\ IF op.kind = "set"
       THEN expected' = op.arg /\ undone' = "no"
       ELSE UNCHANGED <<expected, undone>>
    /\ compacted' = FALSE
    /\ Release
    /\ UNCHANGED <<skip, count, used, torn, crashes>>

CutOff == undone' = (IF undone = "no" THEN op.kind ELSE undone) /\ compacted' = FALSE

RewriteFails ==
    /\ op.at = "lines"
    /\ CutOff
    /\ Release
    /\ UNCHANGED <<files, used, expected, torn, crashes>>

\* writeMeta fails: the temporary file could not be written or renamed.
MetaFails ==
    /\ op.at = "meta"
    /\ Release
    /\ UNCHANGED <<files, used, ghosts, crashes>>

-----------------------------------------------------------------------------
Crash ==
    /\ crashes < MaxCrashes /\ op # Idle
    /\ crashes' = crashes + 1
    /\ Release
    /\ IF At("add", "append") THEN HalfWritten ELSE UNCHANGED <<lines, tail, torn>>
    /\ IF op.at = "lines" THEN CutOff ELSE UNCHANGED <<undone, compacted>>
    /\ UNCHANGED <<skip, count, used, expected>>

\* What callers set: a suffix of the history, perhaps with a note before it
\* (forceCompression), or nothing at all (the clear command).
Replacements ==
    {note \o LastOf(History, k) : k \in 0..Len(History),
                                  note \in {<<>>} \cup {<<m>> : m \in Msgs \ used}}

Next ==
    \/ \E m \in Msgs : AddBegin(m)
    \/ AddAppend \/ AddFails \/ AddMeta
    \/ \E k \in 0..Len(lines) : Truncate(k)
    \/ \E h \in Replacements : SetBegin(h)
    \/ CompactBegin \/ RewriteMeta \/ RewriteLines \/ RewriteFails \/ MetaFails
    \/ Crash

Spec == Init /\ [][Next]_vars

-----------------------------------------------------------------------------
TypeOK ==
    /\ lines \in Seq(Seq(Msgs \cup {Half}))
    /\ tail \in BOOLEAN /\ torn \in BOOLEAN /\ compacted \in BOOLEAN
    /\ undone \in {"no", "set", "compact"}
    /\ skip \in 0..Len(lines) /\ count \in Nat
    /\ op.kind \in {"idle", "add", "set", "compact"}
    /\ op.at \in {"idle", "append", "meta", "lines"} /\ {op.arg, op.before} \subseteq Seq(Msgs)
    /\ used \subseteq Msgs /\ expected \in Seq(Msgs)
    /\ crashes \in 0..MaxCrashes

\* No acknowledged message is lost: whatever was cut off and wherever, what
\* GetHistory returns ends with the history the operations should have left.
NothingLost == ~torn /\ op.at # "lines" => IsSuffix(expected, History)

\* ... and is exactly that, unless a rewrite was cut off and not redone since:
\* a count left stale by an earlier crash misleads no truncation.
ExactUnlessCutOff == ~torn /\ undone = "no" /\ op.at # "lines" => History = expected

(* Nothing that was acknowledged is lost, and nothing else appears unless an  *)
(* operation was cut off.                                                     *)
StoreInv == TypeOK /\ NothingLost /\ ExactUnlessCutOff

\* Readers take the session lock: until the second write of an operation they
\* see the history as it was before it.
seen == IF op.at = "lines" THEN op.before ELSE History

\* The store implements AbstractHistory: readers see each operation whole, as
\* long as no append has left half a line.
Abstract == INSTANCE AbstractHistory WITH
    Messages <- Msgs,
    torn <- torn,
    history <- seen
ImplementsHistory == Abstract!HSpec

\* The comment in Compact on a crash between its two writes: "The next Compact
\* or TruncateHistory corrects this".
CompactCorrects == undone = "compact" /\ compacted /\ op = Idle => History = expected

\* The comment of JSONLStore: "append-only, which is both fast and crash-safe":
\* a message whose AddMessage returned is there to read, until it is truncated.
AppendsSurvive == op = Idle => IsSuffix(expected, History)
=============================================================================
