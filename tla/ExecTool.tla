------------------------------- MODULE ExecTool -------------------------------
(* The exec tool: a shell in a process group of its own, the processes it     *)
(* leaves behind, and the ways the call may end.  os/exec's Wait returns when *)
(* the shell has ended and its output is closed, which every process that     *)
(* inherited it holds open.                                                   *)
EXTENDS Naturals

VARIABLES exAsk,      \* what the guards see: a record of booleans
          exPc,       \* "guard", "run", "kill", "grace", "last" or "done"
          exShell,    \* "none", "running", "ok", "failed" or "killed"
          exGroup,    \* a process in the shell's group holds its output
          exAway,     \* one that left the group does
          exCtx,      \* "open", "deadline" or "canceled"
          exResult    \* "none", "refused", "ok", "exit" or "timeout"

exVars == <<exAsk, exPc, exShell, exGroup, exAway, exCtx, exResult>>

Asked == [remote : BOOLEAN,       \* the call comes from another channel than the program's own
          allowRemote : BOOLEAN, restrict : BOOLEAN,
          dirInside : BOOLEAN,    \* the working directory asked for is in the workspace
          dirMoved : BOOLEAN,     \* it is a link to the outside by the time it is used
          denied : BOOLEAN,       \* a deny pattern matches
          allowed : BOOLEAN,      \* a custom allow pattern matches
          escapes : BOOLEAN]      \* the command names ../ or a path outside

(* guardCommand: an allow pattern overrules the deny patterns and no more. *)
GuardCommand(a) == (a.allowed \/ ~a.denied) /\ (a.restrict => ~a.escapes)

(* Execute, up to the start: the checks in the order of the code; the links   *)
(* of the directory are followed a second time.                               *)
ExAllowed(a) ==
  /\ a.allowRemote \/ ~a.remote
  /\ a.restrict => a.dirInside
  /\ GuardCommand(a)
  /\ a.restrict => ~a.dirMoved

ExInit ==
  /\ exAsk \in Asked /\ exPc = "guard" /\ exShell = "none" /\ exGroup = FALSE
  /\ exAway = FALSE /\ exCtx = "open" /\ exResult = "none"

ExEnd(r) == exPc' = "done" /\ exResult' = r

(* The call is refused, or the shell started; the system may fail to. *)
ExGuard ==
  /\ exPc = "guard"
  /\ \/ ~ExAllowed(exAsk) /\ ExEnd("refused") /\ UNCHANGED exShell
     \/ ExEnd("refused") /\ UNCHANGED exShell
     \/ /\ ExAllowed(exAsk) /\ exPc' = "run" /\ exShell' = "running"
        /\ UNCHANGED exResult
  /\ UNCHANGED <<exAsk, exGroup, exAway, exCtx>>

----------------------------------------------------------------------------
(* What the command may do *)

ExForks(away) ==
  /\ exShell = "running"
  /\ IF away THEN exAway' = TRUE /\ UNCHANGED exGroup ELSE exGroup' = TRUE /\ UNCHANGED exAway
  /\ UNCHANGED <<exAsk, exPc, exShell, exCtx, exResult>>

ExShellEnds(how) ==
  /\ exShell = "running" /\ exShell' = how
  /\ UNCHANGED <<exAsk, exPc, exGroup, exAway, exCtx, exResult>>

ExOthersEnd ==
  /\ exGroup \/ exAway
  /\ \/ exGroup' = FALSE /\ UNCHANGED exAway
     \/ exAway' = FALSE /\ UNCHANGED exGroup
  /\ UNCHANGED <<exAsk, exPc, exShell, exCtx, exResult>>

(* The timeout, or the end of the caller's context. *)
ExCtxEnds(why) ==
  /\ exPc = "run" /\ exCtx = "open" /\ exCtx' = why
  /\ UNCHANGED <<exAsk, exPc, exShell, exGroup, exAway, exResult>>

(* os/exec kills the shell itself when the context ends. *)
ExCtxKills ==
  /\ exCtx # "open" /\ exShell = "running" /\ exShell' = "killed"
  /\ UNCHANGED <<exAsk, exPc, exGroup, exAway, exCtx, exResult>>

----------------------------------------------------------------------------
(* Plausible defect: only the shell is killed, not its group. *)
TerminateProcessTree_ShellOnly ==
  /\ exShell' = IF exShell = "running" THEN "killed" ELSE exShell
  /\ UNCHANGED exGroup

(* terminateProcessTree *)
TerminateProcessTree ==
  /\ exShell' = IF exShell = "running" THEN "killed" ELSE exShell
  /\ exGroup' = FALSE

(* The context has ended: the group is killed.  A second select waits for     *)
(* Wait or two seconds, after which the shell, long dead, is killed again.    *)
ExKill ==
  /\ exPc = "run" /\ exCtx # "open" /\ exPc' = "grace" /\ TerminateProcessTree
  /\ UNCHANGED <<exAsk, exAway, exCtx, exResult>>

ExGrace ==
  /\ exPc = "grace" /\ exPc' = "last"
  /\ exShell' = IF exShell = "running" THEN "killed" ELSE exShell
  /\ UNCHANGED <<exAsk, exGroup, exAway, exCtx, exResult>>

(* Plausible defect: the context is looked at before the error of Wait. *)
ExWaited_ContextFirst ==
  /\ exPc \in {"run", "grace", "last"} /\ exShell \in {"ok", "failed", "killed"}
  /\ ~exGroup /\ ~exAway
  /\ ExEnd(IF exCtx = "deadline" THEN "timeout" ELSE IF exShell = "ok" THEN "ok" ELSE "exit")
  /\ UNCHANGED <<exAsk, exShell, exGroup, exAway, exCtx>>

(* Wait has returned.  A shell that ended well is a success, whenever it was; *)
(* any other end is a timeout when the deadline has passed, and else the exit *)
(* code.                                                                      *)
ExWaited ==
  /\ exPc \in {"run", "grace", "last"} /\ exShell \in {"ok", "failed", "killed"}
  /\ ~exGroup /\ ~exAway
  /\ ExEnd(IF exShell = "ok" THEN "ok" ELSE IF exCtx = "deadline" THEN "timeout" ELSE "exit")
  /\ UNCHANGED <<exAsk, exShell, exGroup, exAway, exCtx>>

ExNext ==
  \/ ExGuard \/ ExKill \/ ExGrace \/ ExWaited \/ ExCtxKills \/ ExOthersEnd
  \/ \E away \in BOOLEAN : ExForks(away)
  \/ \E how \in {"ok", "failed"} : ExShellEnds(how)
  \/ \E why \in {"deadline", "canceled"} : ExCtxEnds(why)

(* The timers go off and the tool's goroutines run; the command need not end. *)
ExFair ==
  /\ WF_exVars(ExGuard) /\ WF_exVars(ExKill) /\ WF_exVars(ExGrace) /\ WF_exVars(ExWaited)
  /\ WF_exVars(ExCtxEnds("deadline"))

ExSpec == ExInit /\ [][ExNext]_exVars /\ ExFair

----------------------------------------------------------------------------
(* The state is well typed. *)
ExTypeOK ==
  /\ exAsk \in Asked /\ exPc \in {"guard", "run", "grace", "last", "done"}
  /\ exShell \in {"none", "running", "ok", "failed", "killed"}
  /\ {exGroup, exAway} \subseteq BOOLEAN /\ exCtx \in {"open", "deadline", "canceled"}
  /\ exResult \in {"none", "refused", "ok", "exit", "timeout"}

(* An answer tells the truth: refused means that nothing ran, success that    *)
(* the command ended well, and the answer leaves nothing of it running that   *)
(* still holds its output.                                                    *)
ExAnswersTruly ==
  /\ exResult = "refused" => exShell = "none"
  /\ exResult = "ok" => exShell = "ok"
  /\ exResult \in {"ok", "exit", "timeout"} => ~exGroup /\ ~exAway
  /\ exResult = "timeout" => exCtx = "deadline" /\ exShell # "ok"

(* The types hold, and an answer tells the truth.                             *)
ExInv == ExTypeOK /\ ExAnswersTruly

(* A call returns within its timeout, however long the command and what it    *)
(* leaves in its group would run, unless a process has left the group.        *)
ExReturns == (exPc = "guard") ~> (exPc = "done" \/ exAway)

(* "Command timed out": a call returns within its timeout.  Refuted: a daemon *)
(* that keeps the output open keeps Wait, and so the whole turn, waiting; the *)
(* timeout is also silent when the shell itself ended well before it.         *)
ExAlwaysReturns == <>(exPc = "done")
TimeoutIsAnError == exResult = "ok" => exCtx # "deadline"
=============================================================================
