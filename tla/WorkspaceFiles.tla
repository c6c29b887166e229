---------------------------- MODULE WorkspaceFiles ----------------------------
(* The tools that read and change files.  The calls of one answer run in      *)
(* parallel, each in a goroutine of its own, and nothing orders two of them   *)
(* that name the same file.                                                   *)
(*                                                                            *)
(* A file is the sequence of the marks of those that contributed to it; 0 is  *)
(* what it held at first.  A write goes to a temporary file that is renamed,  *)
(* so that what was opened stays what it was.                                 *)
EXTENDS Naturals, Sequences, FiniteSets, SequencesExt

CONSTANTS WfCalls,    \* the calls of one answer, positive numbers
          WfMaxRead   \* marks one read_file returns

ASSUME WfAssumption ==
  /\ WfCalls \subseteq Nat \ {0} /\ WfCalls # {} /\ IsFiniteSet(WfCalls)
  /\ WfMaxRead \in Nat \ {0}

VARIABLES wfFs,     \* the file system the tools were built with
          wfFile,   \* [WfPaths -> text of the file, or Absent]
          wfCall,   \* [WfCalls -> record]
          wfTemp    \* calls whose temporary file exists

wfVars == <<wfFs, wfFile, wfCall, wfTemp>>

WfPaths == {"inside", "allowed", "outside"}
WfTools == {"read_file", "write_file", "edit_file", "append_file"}
WfAbsent == <<0, 0>>   \* no text of a file: 0 is in it once at most
WfRunning == {"idle", "opened", "edited"}

(* The steps of a write, each of which may fail. *)
HostWrite    == <<"create", "write", "sync", "chmod", "close", "rename">>
SandboxWrite == <<"create", "write", "sync", "close", "rename">>

(* buildFs, whitelistFs: which file system serves the path. *)
ServedBy(p) ==
  CASE wfFs = "host"      -> "host"
    [] wfFs = "sandbox"   -> "sandbox"
    [] wfFs = "whitelist" -> IF p = "allowed" THEN "host" ELSE "sandbox"

(* getSafeRelPath, os.Root: what the sandbox refuses. *)
Refused(p) == ServedBy(p) = "sandbox" /\ p # "inside"

WriteSteps(p) == IF ServedBy(p) = "host" THEN HostWrite ELSE SandboxWrite

----------------------------------------------------------------------------
WfInit ==
  /\ wfFs \in {"host", "sandbox", "whitelist"}
  /\ \E there \in [WfPaths -> BOOLEAN] :
       wfFile = [p \in WfPaths |-> IF there[p] THEN <<0>> ELSE WfAbsent]
  /\ \E tool \in [WfCalls -> WfTools], path \in [WfCalls -> WfPaths] :
       /\ wfCall = [c \in WfCalls |->
                      [tool |-> tool[c], path |-> path[c], pc |-> "idle", text |-> <<>>,
                       step |-> 0, result |-> "none"]]
       /\ \A c, d \in WfCalls : path[c] = path[d]   \* others do not meet
  /\ wfTemp = {}

Answer(c, r) == wfCall' = [wfCall EXCEPT ![c].pc = "done", ![c].result = r]

(* replaceEditContent: the old text, 0 or another call's, must occur once. *)
ReplaceEdit(text, old, c) ==
  IF Cardinality({i \in DOMAIN text : text[i] = old}) # 1 THEN <<>>
  ELSE [i \in DOMAIN text |-> IF text[i] = old THEN c ELSE text[i]]

(* The file system is asked for the file: to read it, or to replace it whole. *)
WfOpen(c) ==
  LET k == wfCall[c] p == k.path IN
  /\ k.pc = "idle"
  /\ IF k.tool = "write_file" \/ (k.tool = "append_file" /\ ~Refused(p) /\ wfFile[p] = WfAbsent)
     THEN IF Refused(p) THEN Answer(c, "error")
          ELSE wfCall' = [wfCall EXCEPT ![c].pc = "edited", ![c].text = <<c>>]
     ELSE IF Refused(p) \/ wfFile[p] = WfAbsent THEN Answer(c, "error")
          ELSE wfCall' = [wfCall EXCEPT ![c].pc = "opened", ![c].text = wfFile[p]]
  /\ UNCHANGED <<wfFs, wfFile, wfTemp>>

(* read_file: a page of what was opened, and whether more follows. *)
WfRead(c, offset) ==
  LET k == wfCall[c] end == Min({Len(k.text), offset + WfMaxRead}) IN
  /\ k.pc = "opened" /\ k.tool = "read_file" /\ offset <= Len(k.text)
  /\ wfCall' = [wfCall EXCEPT ![c].pc = "done", ![c].text = SubSeq(k.text, offset + 1, end),
                  ![c].result = IF end < Len(k.text) THEN "more" ELSE "end"]
  /\ UNCHANGED <<wfFs, wfFile, wfTemp>>

(* editFile: nothing is kept between the read and the write. *)
WfEdit(c, old) ==
  LET k == wfCall[c] text == ReplaceEdit(k.text, old, c) IN
  /\ k.pc = "opened" /\ k.tool = "edit_file" /\ old # c
  /\ IF text = <<>> THEN Answer(c, "error")
     ELSE wfCall' = [wfCall EXCEPT ![c].pc = "edited", ![c].text = text]
  /\ UNCHANGED <<wfFs, wfFile, wfTemp>>

(* appendFile *)
WfAppend(c) ==
  /\ wfCall[c].pc = "opened" /\ wfCall[c].tool = "append_file"
  /\ wfCall' = [wfCall EXCEPT ![c].pc = "edited", ![c].text = Append(@, c)]
  /\ UNCHANGED <<wfFs, wfFile, wfTemp>>

(* Plausible defect: the target is written in place. *)
WfWriteStep_InPlace(c) ==
  LET k == wfCall[c] p == k.path steps == WriteSteps(p) s == k.step + 1 IN
  /\ k.pc = "edited"
  /\ IF s = Len(steps) THEN Answer(c, "written")
     ELSE wfCall' = [wfCall EXCEPT ![c].step = s]
  /\ wfFile' = CASE steps[s] = "create" -> [wfFile EXCEPT ![p] = <<>>]
                 [] steps[s] = "write"  -> [wfFile EXCEPT ![p] = k.text]
                 [] OTHER -> wfFile
  /\ UNCHANGED <<wfFs, wfTemp>>

(* sandboxFs.WriteFile and WriteFileAtomic: the next step of the write; its   *)
(* rename makes the text the file.                                            *)
WfWriteStep(c) ==
  LET k == wfCall[c] p == k.path steps == WriteSteps(p) s == k.step + 1 IN
  /\ k.pc = "edited"
  /\ IF s = Len(steps) THEN Answer(c, "written")
     ELSE wfCall' = [wfCall EXCEPT ![c].step = s]
  /\ wfFile' = IF steps[s] = "rename" THEN [wfFile EXCEPT ![p] = k.text] ELSE wfFile
  /\ wfTemp' = CASE steps[s] = "create" -> wfTemp \cup {c}
                 [] steps[s] = "rename" -> wfTemp \ {c}
                 [] OTHER -> wfTemp
  /\ UNCHANGED wfFs

(* A step fails: the temporary file is removed and the call says so. *)
WfWriteFails(c) ==
  /\ wfCall[c].pc = "edited" /\ Answer(c, "error")
  /\ wfTemp' = wfTemp \ {c} /\ UNCHANGED <<wfFs, wfFile>>

(* The process ends: what is on disk stays. *)
WfCrash ==
  /\ \E c \in WfCalls : wfCall[c].pc \in WfRunning
  /\ wfCall' = [c \in WfCalls |-> IF wfCall[c].pc = "done" THEN wfCall[c]
                                  ELSE [wfCall[c] EXCEPT !.pc = "dead"]]
  /\ UNCHANGED <<wfFs, wfFile, wfTemp>>

WfNext ==
  \/ \E c \in WfCalls :
       \/ WfOpen(c) \/ WfAppend(c) \/ WfWriteStep(c) \/ WfWriteFails(c)
       \/ \E offset \in 0..Cardinality(WfCalls) : WfRead(c, offset)
       \/ \E old \in WfCalls \cup {0} : WfEdit(c, old)
  \/ WfCrash

WfSpec == WfInit /\ [][WfNext]_wfVars

----------------------------------------------------------------------------
WfText == UNION {[1..n -> WfCalls \cup {0}] : n \in 0..(Cardinality(WfCalls) + 1)}

(* The state is well typed. *)
WfTypeOK ==
  /\ wfFs \in {"host", "sandbox", "whitelist"}
  /\ \A p \in WfPaths : wfFile[p] \in WfText
  /\ \A c \in WfCalls : LET k == wfCall[c] IN
       /\ k.tool \in WfTools /\ k.path \in WfPaths /\ k.pc \in WfRunning \cup {"done", "dead"}
       /\ k.text \in WfText /\ k.step \in 0..5
       /\ k.result \in {"none", "error", "written", "more", "end"}
  /\ wfTemp \subseteq WfCalls

(* Whatever fails and wherever the process ends, a file is what it was or     *)
(* what one call meant to write, never half of it.                            *)
WholeFiles ==
  \A p \in WfPaths :
    \/ wfFile[p] \in {WfAbsent, <<0>>}
    \/ \E c \in WfCalls : /\ wfCall[c].path = p /\ wfCall[c].text = wfFile[p]
                          /\ wfCall[c].result = "written"

(* A call that answers with an error has changed no file, though others read  *)
(* and wrote the same file meanwhile, and left no temporary file.             *)
FailedLeavesNothing ==
  \A c \in WfCalls : wfCall[c].result = "error" =>
    c \notin wfTemp /\ \A p \in WfPaths : c \notin ToSet(wfFile[p])

(* Temporary files are those of writes under way or cut off by a crash. *)
TempsAreOwned == \A c \in wfTemp : wfCall[c].pc \in {"edited", "dead"}

(* Files are whole, a failed call changes nothing, temporary files have an owner. *)
WfInv == WfTypeOK /\ WholeFiles /\ FailedLeavesNothing /\ TempsAreOwned

(* Edits and appends reported as done are in the file.  Refuted: two calls of *)
(* one answer read the same text, and the second to write drops the first.    *)
EditsSurvive ==
  \A c \in WfCalls : LET k == wfCall[c] IN
    k.result = "written" /\ k.tool \in {"edit_file", "append_file"}
      /\ (\A d \in WfCalls : wfCall[d].tool = "append_file" \/ d = c)
    => c \in ToSet(wfFile[k.path])
=============================================================================
