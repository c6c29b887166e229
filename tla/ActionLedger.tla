---------------------------- MODULE ActionLedger ----------------------------
(***************************************************************************)
(* The write-ahead action ledger of pkg/actionlog: one writer goroutine    *)
(* that owns the SQLite write path, the Prepare/Commit/Abort calls that    *)
(* hand it operations over a channel, the Close that fences and drains     *)
(* them, and the end of the process at any instant (a crash, or an exit    *)
(* after Close) followed by a new Open of the same database.               *)
(*                                                                         *)
(* A member of Calls is one invocation of Prepare, Commit or Abort, with   *)
(* its own context and its own reply channel.                              *)
(***************************************************************************)
EXTENDS Naturals, Sequences

CONSTANTS
    Calls,            \* invocations of Prepare, Commit and Abort
    Intents,          \* intent_id values
    Closers,          \* invocations of Close
    WriteQueueDepth,  \* Options.WriteQueueDepth, the capacity of writeCh
    MaxRestarts,      \* bound: how often the process may end and start again
    NoCall,           \* "the writer holds no operation"
    NoIntent          \* the id of a call not made yet

ASSUME LedgerAssumption ==
    /\ WriteQueueDepth \in Nat
    /\ MaxRestarts \in Nat
    /\ NoCall \notin Calls
    /\ NoIntent \notin Intents

VARIABLES
    intents,     \* table action_intents: rows [id, by]
    commits,     \* table action_commits: rows [id, status, by]
    writeCh,     \* Ledger.writeCh, the operations sent and not yet taken
    cur,         \* the operation handleOp is working on
    writer,      \* the writer goroutine: "running" or "exited" (l.done closed)
    closedFlag,  \* Ledger.closedFlag, and l.closed closed with it
    dbOpen,      \* the SQLite handle is open
    closer,      \* where each Close is
    pc,          \* where each call is
    op,          \* what each call asks for
    reply,       \* the call's reply channel (capacity 1)
    result,      \* what the call returned
    restarts     \* how often the process has been restarted

tables  == <<intents, commits>>
control == <<writer, closedFlag, dbOpen, closer>>
callers == <<pc, op, reply, result>>
vars == <<tables, writeCh, cur, control, callers, restarts>>

Kinds == {"prepare", "commit", "abort"}
Ops == [kind : Kinds, id : Intents]
NoOp == [kind |-> "none", id |-> NoIntent]

\* What handleOp replies.  "ErrWrite" stands for every failure that leaves no
\* row behind: a missing field, an id that cannot be generated, an INSERT that
\* SQLite refuses for another reason than the two constraints told apart below.
Replies == {"ok", "ErrWrite", "ErrAlreadyFinalized", "ErrIntentNotFound"}

\* What a caller sees: a reply, or that it was turned away.
Results == Replies \cup {"ErrClosed", "ctxErr"}

IntentIDs    == {row.id : row \in intents}
FinalizedIDs == {row.id : row \in commits}
Orphans      == IntentIDs \ FinalizedIDs

-----------------------------------------------------------------------------
Init ==
    /\ intents = {} /\ commits = {}
    /\ writeCh = <<>> /\ cur = NoCall
    /\ writer = "running" /\ closedFlag = FALSE /\ dbOpen = TRUE
    /\ closer = [c \in Closers |-> "idle"]
    /\ pc = [k \in Calls |-> "idle"]
    /\ op = [k \in Calls |-> NoOp]
    /\ reply = [k \in Calls |-> "none"]
    /\ result = [k \in Calls |-> "none"]
    /\ restarts = 0

\* state.RLock() is granted unless a Close waits for, or holds, the write lock.
CanRLock == \A c \in Closers : closer[c] # "fencing"

\* state.Lock() is granted once no enqueue holds the read lock.
CanLock_NoFence == TRUE
CanLock == \A k \in Calls : pc[k] # "sending"

Return(k, res) ==
    /\ pc' = [pc EXCEPT ![k] = "returned"]
    /\ result' = [result EXCEPT ![k] = res]
    /\ UNCHANGED <<op, reply>>

(***************************************************************************)
(* enqueue: the closedFlag test under the read lock, then the select       *)
(* between the send and ctx.Done.                                          *)
(***************************************************************************)
EnqueueClosed(k) ==
    /\ pc[k] = "idle" /\ CanRLock /\ closedFlag
    /\ Return(k, "ErrClosed")
    /\ UNCHANGED <<tables, writeCh, cur, control, restarts>>

EnqueueBegin(k) ==
    /\ pc[k] = "idle" /\ CanRLock /\ ~closedFlag
    /\ \E o \in Ops : op' = [op EXCEPT ![k] = o]
    /\ pc' = [pc EXCEPT ![k] = "sending"]
    /\ UNCHANGED <<tables, writeCh, cur, control, reply, result, restarts>>

Send(k) ==
    /\ pc[k] = "sending"
    /\ Len(writeCh) < WriteQueueDepth
    /\ writeCh' = Append(writeCh, k)
    /\ pc' = [pc EXCEPT ![k] = "waiting"]
    /\ UNCHANGED <<tables, cur, control, op, reply, result, restarts>>

\* With depth 0 the send is a rendezvous with a writer at its select.
Handoff(k) ==
    /\ pc[k] = "sending"
    /\ WriteQueueDepth = 0 /\ writer = "running" /\ cur = NoCall
    /\ cur' = k
    /\ pc' = [pc EXCEPT ![k] = "waiting"]
    /\ UNCHANGED <<tables, writeCh, control, op, reply, result, restarts>>

\* The context ends, by cancellation or deadline, and ctx.Done wins the select of
\* enqueue or of the wait for the reply.  (If the other case wins, the call goes
\* on as if its context were alive.)
GiveUp(k) ==
    /\ pc[k] \in {"sending", "waiting"}
    /\ Return(k, "ctxErr")
    /\ UNCHANGED <<tables, writeCh, cur, control, restarts>>

Receive(k) ==
    /\ pc[k] = "waiting" /\ reply[k] # "none"
    /\ Return(k, reply[k])
    /\ UNCHANGED <<tables, writeCh, cur, control, restarts>>

-----------------------------------------------------------------------------
(* The writer goroutine. *)

WriterTake ==
    /\ writer = "running" /\ cur = NoCall /\ writeCh # <<>>
    /\ cur' = Head(writeCh)
    /\ writeCh' = Tail(writeCh)
    /\ UNCHANGED <<tables, control, callers, restarts>>

\* The writer answers the operation it holds; the reply channel never blocks.
Answer(res) ==
    /\ reply' = [reply EXCEPT ![cur] = res]
    /\ cur' = NoCall
    /\ UNCHANGED <<writeCh, control, pc, op, result, restarts>>

DoFail ==
    /\ cur # NoCall
    /\ Answer("ErrWrite")
    /\ UNCHANGED tables

\* The row is written and a failing checkpoint is reported as a failing Prepare.
DoPrepare_CheckpointError ==
    /\ cur # NoCall
    /\ op[cur].kind = "prepare"
    /\ op[cur].id \notin IntentIDs
    /\ intents' = intents \cup {[id |-> op[cur].id, by |-> cur]}
    /\ Answer("ErrWrite")
    /\ UNCHANGED commits

\* INSERT INTO action_intents: the primary key refuses a second row.
DoPrepare ==
    /\ cur # NoCall
    /\ op[cur].kind = "prepare"
    /\ op[cur].id \notin IntentIDs
    /\ intents' = intents \cup {[id |-> op[cur].id, by |-> cur]}
    /\ Answer("ok")
    /\ UNCHANGED commits

\* The intents a finalization may name: UNIQUE(intent_id) and the foreign key.
Finalizable_NoUnique == IntentIDs
Finalizable == IntentIDs \ FinalizedIDs

StatusOf(kind) == IF kind = "commit" THEN "committed" ELSE "aborted"

\* INSERT INTO action_commits.
DoFinalize ==
    /\ cur # NoCall
    /\ op[cur].kind \in {"commit", "abort"}
    /\ op[cur].id \in Finalizable
    /\ commits' = commits \cup
         {[id |-> op[cur].id, status |-> StatusOf(op[cur].kind), by |-> cur]}
    /\ Answer("ok")
    /\ UNCHANGED intents

DoRefuse ==
    /\ cur # NoCall
    /\ op[cur].kind \in {"commit", "abort"}
    /\ \/ op[cur].id \in FinalizedIDs /\ Answer("ErrAlreadyFinalized")
       \/ op[cur].id \notin IntentIDs /\ Answer("ErrIntentNotFound")
    /\ UNCHANGED tables

\* The writer leaves as soon as l.closed fires, without the drain.
WriterExit_NoDrain ==
    /\ writer = "running" /\ closedFlag /\ cur = NoCall
    /\ writer' = "exited"
    /\ UNCHANGED <<tables, writeCh, cur, closedFlag, dbOpen, closer, callers, restarts>>

\* l.closed fired and the non-blocking drain found the channel empty.
WriterExit ==
    /\ writer = "running" /\ closedFlag /\ cur = NoCall /\ writeCh = <<>>
    /\ writer' = "exited"
    /\ UNCHANGED <<tables, writeCh, cur, closedFlag, dbOpen, closer, callers, restarts>>

-----------------------------------------------------------------------------
(* Close: closeMu, the fence, the drain, and the database handle. *)

CloseBegin(c) ==
    /\ closer[c] = "idle"
    /\ \A d \in Closers : closer[d] \notin {"fencing", "draining"}
    /\ closer' = [closer EXCEPT ![c] = "fencing"]
    /\ UNCHANGED <<tables, writeCh, cur, writer, closedFlag, dbOpen, callers, restarts>>

\* A Close that only sets the flag, as a producer sees it, and never signals.
CloseFence_NoSignal(c) ==
    /\ closer[c] = "fencing" /\ CanLock
    /\ closer' = [closer EXCEPT ![c] = IF closedFlag THEN "closed" ELSE "draining"]
    /\ UNCHANGED <<tables, writeCh, cur, writer, closedFlag, dbOpen, callers, restarts>>

CloseFence(c) ==
    /\ closer[c] = "fencing" /\ CanLock
    /\ closer' = [closer EXCEPT ![c] = IF closedFlag THEN "closed" ELSE "draining"]
    /\ closedFlag' = TRUE
    /\ UNCHANGED <<tables, writeCh, cur, writer, dbOpen, callers, restarts>>

CloseFinish_NoWait(c) ==
    /\ closer[c] = "draining"
    /\ closer' = [closer EXCEPT ![c] = "closed"]
    /\ dbOpen' = FALSE
    /\ UNCHANGED <<tables, writeCh, cur, writer, closedFlag, callers, restarts>>

CloseFinish(c) ==
    /\ closer[c] = "draining" /\ writer = "exited"
    /\ closer' = [closer EXCEPT ![c] = "closed"]
    /\ dbOpen' = FALSE
    /\ UNCHANGED <<tables, writeCh, cur, writer, closedFlag, callers, restarts>>

(***************************************************************************)
(* The process ends at any instant and the same database is opened again.  *)
(* synchronous=FULL makes every inserted row survive; the channel, the     *)
(* replies and the calls in flight do not.                                 *)
(***************************************************************************)
Restart ==
    /\ restarts < MaxRestarts
    /\ restarts' = restarts + 1
    /\ writeCh' = <<>> /\ cur' = NoCall
    /\ writer' = "running" /\ closedFlag' = FALSE /\ dbOpen' = TRUE
    /\ closer' = [c \in Closers |-> "idle"]
    /\ pc' = [k \in Calls |-> IF pc[k] \in {"sending", "waiting"} THEN "lost" ELSE pc[k]]
    /\ UNCHANGED <<tables, op, reply, result>>

-----------------------------------------------------------------------------
CallStep(k) ==
    \/ EnqueueClosed(k) \/ EnqueueBegin(k) \/ Send(k) \/ Handoff(k)
    \/ GiveUp(k) \/ Receive(k)
WriterStep == WriterTake \/ DoFail \/ DoPrepare \/ DoFinalize \/ DoRefuse \/ WriterExit
CloseStep(c) == CloseFence(c) \/ CloseFinish(c)

Next ==
    \/ \E k \in Calls : CallStep(k)
    \/ WriterStep
    \/ \E c \in Closers : CloseBegin(c) \/ CloseStep(c)
    \/ Restart

Spec == Init /\ [][Next]_vars

(***************************************************************************)
(* Every goroutine that can move is scheduled: the writer, each caller     *)
(* that has entered enqueue, each Close under way.  Nothing obliges a call *)
(* to be made, a context to be cancelled, a Close to be called or the      *)
(* process to end.                                                         *)
(***************************************************************************)
FairSpec ==
    /\ Spec
    /\ WF_vars(WriterStep)
    /\ \A k \in Calls : WF_vars(Send(k) \/ Handoff(k)) /\ WF_vars(Receive(k))
    /\ \A c \in Closers : WF_vars(CloseStep(c))

-----------------------------------------------------------------------------
TypeOK ==
    /\ intents \subseteq [id : Intents, by : Calls]
    /\ commits \subseteq [id : Intents, status : {"committed", "aborted"}, by : Calls]
    /\ writeCh \in Seq(Calls)
    /\ cur \in Calls \cup {NoCall}
    /\ writer \in {"running", "exited"}
    /\ closedFlag \in BOOLEAN
    /\ dbOpen \in BOOLEAN
    /\ closer \in [Closers -> {"idle", "fencing", "draining", "closed"}]
    /\ pc \in [Calls -> {"idle", "sending", "waiting", "returned", "lost"}]
    /\ op \in [Calls -> Ops \cup {NoOp}]
    /\ reply \in [Calls -> Replies \cup {"none"}]
    /\ result \in [Calls -> Results \cup {"none"}]
    /\ restarts \in Nat

\* "exactly one action_commits row" per intent: no two finalizations of one
\* intent, by whichever calls, are ever both on disk.
OneOutcome ==
    \A r1, r2 \in commits : r1.id = r2.id => r1 = r2

\* No outcome is recorded for an action that was never prepared.
OutcomeHasIntent == FinalizedIDs \subseteq IntentIDs

\* The two tables are well formed, whoever wrote to them.
RowsInv == TypeOK /\ OneOutcome /\ OutcomeHasIntent

RowsBy(k) == {r \in intents : r.by = k} \cup {r \in commits : r.by = k}

\* What a caller was told agrees with the disk, across restarts: a call that
\* returned nil has its row, and one that returned any error but the context's
\* has none, so no failed Prepare leaves an orphan nobody can finalize.
ResultMatchesRows ==
    \A k \in Calls :
        /\ result[k] = "ok" => RowsBy(k) # {}
        /\ result[k] \in Results \ {"ok", "ctxErr"} => RowsBy(k) = {}

\* Once the writer goroutine is gone, nobody is left blocked on it: no caller
\* is in its send, and every caller still waiting has its reply ready.
NobodyStranded ==
    writer = "exited" => \A k \in Calls :
        /\ pc[k] # "sending"
        /\ pc[k] = "waiting" => reply[k] # "none"

\* The database handle is closed only after the last operation was executed:
\* none can still reach the closed handle.
ClosedIsQuiet == ~dbOpen => cur = NoCall /\ writeCh = <<>>

\* A call that has entered the ledger returns (or its process ends).
CallsReturn ==
    \A k \in Calls : pc[k] \in {"sending", "waiting"} ~> pc[k] \in {"returned", "lost"}

\* A Close that has been called returns (or its process ends), however many
\* producers are in the middle of a send.
CloseReturns ==
    \A c \in Closers : closer[c] \in {"fencing", "draining"} ~> closer[c] \in {"closed", "idle"}

(* Every call and every Close return.                                         *)
EveryoneReturns == CallsReturn /\ CloseReturns

\* The comment of Prepare (actionlog.go:625): "If ctx is done before the writer
\* picks up the op, Prepare returns ctx.Err() without writing anything."
CancelledBeforePickupWritesNothing ==
    \A k \in Calls :
        [](/\ op[k].kind = "prepare" /\ result[k] = "ctxErr"
           /\ \E n \in 1..Len(writeCh) : writeCh[n] = k
           => [](RowsBy(k) = {}))

-----------------------------------------------------------------------------
(* The ledger as its callers see it. *)

Has(i, status) == \E r \in commits : r.id = i /\ r.status = status

outcomeBar == [i \in Intents |->
    IF Has(i, "committed") THEN "committed"
    ELSE IF Has(i, "aborted") THEN "aborted"
    ELSE IF i \in IntentIDs THEN "prepared" ELSE "absent"]

Queued(k) == cur = k \/ \E n \in 1..Len(writeCh) : writeCh[n] = k

\* A call is open from its first look at the ledger until it is answered; one
\* that ends without an answer, and is not in the channel, was dropped.
stageBar == [k \in Calls |->
    IF pc[k] = "idle" THEN "idle"
    ELSE IF reply[k] # "none" THEN "settled"
    ELSE IF pc[k] = "sending" \/ Queued(k) THEN "open"
    ELSE "dropped"]

Promise == INSTANCE AbstractLedger WITH
    NoReq <- NoOp, outcome <- outcomeBar, req <- op, stage <- stageBar,
    verdict <- reply, returned <- result

\* Every behaviour of the writer, the channel and the locks is one the
\* callers' view allows: each call takes effect atomically or not at all.
ImplementsPromise == Promise!ASpec
=============================================================================
