----------------------------- MODULE SkillInstall -----------------------------
(* Those that install and remove a skill of the workspace: the command line,  *)
(* from GitHub or a registry, the agent's install_skill tool, and the web     *)
(* console.  Each looks whether the directory is there and acts later; only   *)
(* the calls of the tool exclude each other.                                  *)
(*                                                                            *)
(* The directory is a function from the files it has to the operation that    *)
(* wrote each; a skill is whole when it has every file of its source.         *)
EXTENDS Naturals

CONSTANTS SkOps   \* operations on the skill, positive numbers

ASSUME SkAssumption == SkOps \subseteq Nat \ {0}

VARIABLES skDir,     \* the directory: [some of SkFiles -> 0 or an operation], or NoDir
          skSource,  \* what its source has, and whether the registry blocks it
          skOp,      \* [SkOps -> record]
          skLock     \* the mutex of the tool: the operation that holds it, or 0

skVars == <<skDir, skSource, skOp, skLock>>

SkFiles == {"SKILL_md", "scripts"}
SkKinds == {"github", "registry", "tool", "force", "import", "delete", "uninstall"}
NoDir == [f \in {"none"} |-> 0]
EmptyDir == [f \in {} |-> 0]
Put(dir, f, o) == [g \in {f} \cup (DOMAIN dir \ {"none"}) |-> IF g = f THEN o ELSE dir[g]]
SkTool(o) == skOp[o].kind \in {"tool", "force"}
SkFromRegistry(o) == SkTool(o) \/ skOp[o].kind = "registry"

----------------------------------------------------------------------------
SkInit ==
  /\ skDir \in {NoDir, [f \in SkFiles |-> 0]}
  /\ skSource \in [files : SUBSET SkFiles \ {{}}, blocked : BOOLEAN]
  /\ \E kind \in [SkOps -> SkKinds] :
       skOp = [o \in SkOps |-> [kind |-> kind[o], pc |-> "idle", todo |-> {}, known |-> FALSE,
                                answer |-> "none"]]
  /\ skLock = 0

SkAnswer(o, a) ==
  /\ skOp' = [skOp EXCEPT ![o].pc = "done", ![o].answer = a]
  /\ skLock' = IF skLock = o THEN 0 ELSE skLock

SkGoOn(o, pc, todo) == skOp' = [skOp EXCEPT ![o].pc = pc, ![o].todo = todo] /\ UNCHANGED skLock

(* The directory is looked for: an installer that finds it refuses, unless    *)
(* the tool is told to replace it.                                            *)
SkCheck(o) ==
  LET k == skOp[o].kind IN
  /\ skOp[o].pc = "idle" /\ k \notin {"delete", "uninstall"} /\ (SkTool(o) => skLock = 0)
  /\ IF skDir # NoDir /\ k # "force"
     THEN SkAnswer(o, "exists") /\ UNCHANGED skDir
     ELSE /\ skDir' = NoDir
          /\ skOp' = [skOp EXCEPT ![o].pc = IF SkFromRegistry(o) THEN "meta"
                                            ELSE IF k = "github" THEN "list" ELSE "import"]
          /\ skLock' = IF SkTool(o) THEN o ELSE skLock
  /\ UNCHANGED skSource

(* Uninstall, handleDeleteSkill: the console deletes a skill it lists, which  *)
(* one without SKILL.md is not.                                               *)
SkRemove(o) ==
  /\ skOp[o].pc = "idle" /\ skOp[o].kind \in {"delete", "uninstall"}
  /\ IF skDir = NoDir \/ (skOp[o].kind = "delete" /\ "SKILL_md" \notin DOMAIN skDir)
     THEN SkAnswer(o, "not_found") /\ UNCHANGED skDir
     ELSE skDir' = NoDir /\ SkAnswer(o, "ok")
  /\ UNCHANGED skSource

----------------------------------------------------------------------------
(* DownloadAndInstall of a registry: without metadata nothing is known of its *)
(* moderation; then the archive, to a file of its own.                        *)
SkMeta(o) ==
  /\ skOp[o].pc = "meta"
  /\ \E known \in BOOLEAN :
       skOp' = [skOp EXCEPT ![o].pc = "download", ![o].known = known]
  /\ UNCHANGED <<skDir, skSource, skLock>>

SkDownload(o) ==
  /\ skOp[o].pc = "download" /\ SkGoOn(o, "extract", skSource.files)
  /\ skDir' = IF skDir = NoDir THEN EmptyDir ELSE skDir
  /\ UNCHANGED skSource

(* ExtractZipFile: one file after the other. *)
SkExtract(o, f) ==
  /\ skOp[o].pc = "extract" /\ f \in skOp[o].todo
  /\ skDir' = Put(skDir, f, o) /\ SkGoOn(o, "extract", skOp[o].todo \ {f})
  /\ UNCHANGED skSource

(* Plausible defect: what was extracted before the failure stays. *)
SkFail_Leaves(o) ==
  /\ skOp[o].pc = "download" \/ (skOp[o].pc = "extract" /\ skOp[o].todo # {})
  /\ SkAnswer(o, "failed")
  /\ UNCHANGED <<skDir, skSource>>

(* A step fails: what there is of the directory is removed. *)
SkFail(o) ==
  /\ skOp[o].pc = "download" \/ (skOp[o].pc = "extract" /\ skOp[o].todo # {})
  /\ skDir' = NoDir /\ SkAnswer(o, "failed")
  /\ UNCHANGED skSource

(* All is there: a skill known to be blocked is removed again. *)
SkInstalled(o) ==
  /\ skOp[o].pc = "extract" /\ skOp[o].todo = {}
  /\ IF skOp[o].known /\ skSource.blocked THEN skDir' = NoDir /\ SkAnswer(o, "blocked")
     ELSE SkAnswer(o, "ok") /\ UNCHANGED skDir
  /\ UNCHANGED skSource

----------------------------------------------------------------------------
(* InstallFromGitHub: the files one after the other; when one fails, only     *)
(* SKILL.md is fetched, another way, and what there is stays.                 *)
SkList(o) ==
  /\ skOp[o].pc = "list"
  /\ \/ SkGoOn(o, "files", skSource.files)
     \/ SkGoOn(o, "raw", {})
  /\ UNCHANGED <<skDir, skSource>>

SkFile(o, f) ==
  /\ skOp[o].pc = "files" /\ f \in skOp[o].todo
  /\ \/ skDir' = Put(skDir, f, o) /\ SkGoOn(o, "files", skOp[o].todo \ {f})
     \/ SkGoOn(o, "raw", {}) /\ UNCHANGED skDir
  /\ UNCHANGED skSource

SkFilesDone(o) ==
  /\ skOp[o].pc = "files" /\ skOp[o].todo = {}
  /\ SkAnswer(o, IF "SKILL_md" \in DOMAIN skDir THEN "ok" ELSE "failed")
  /\ UNCHANGED <<skDir, skSource>>

SkRaw(o) ==
  /\ skOp[o].pc = "raw"
  /\ \/ "SKILL_md" \in skSource.files /\ skDir' = Put(skDir, "SKILL_md", o) /\ SkAnswer(o, "ok")
     \/ SkAnswer(o, "failed") /\ UNCHANGED skDir
  /\ UNCHANGED skSource

(* handleImportSkill: the directory, then the one file. *)
SkImport(o) ==
  /\ skOp[o].pc = "import" /\ skDir' = (IF skDir = NoDir THEN EmptyDir ELSE skDir)
  /\ SkGoOn(o, "save", {}) /\ UNCHANGED skSource

SkSave(o) ==
  /\ skOp[o].pc = "save"
  /\ \/ skDir # NoDir /\ skDir' = Put(skDir, "SKILL_md", o) /\ SkAnswer(o, "ok")
     \/ SkAnswer(o, "failed") /\ UNCHANGED skDir
  /\ UNCHANGED skSource

SkNext ==
  \E o \in SkOps :
    \/ SkCheck(o) \/ SkRemove(o) \/ SkMeta(o) \/ SkDownload(o) \/ SkFail(o) \/ SkInstalled(o)
    \/ SkList(o) \/ SkFilesDone(o) \/ SkRaw(o) \/ SkImport(o) \/ SkSave(o)
    \/ \E f \in SkFiles : SkExtract(o, f) \/ SkFile(o, f)

SkSpec == SkInit /\ [][SkNext]_skVars

----------------------------------------------------------------------------
SkIdle == \A o \in SkOps : skOp[o].pc \in {"idle", "done"}
Whole(dir, o) == DOMAIN dir = skSource.files /\ \A f \in DOMAIN dir : dir[f] = o

(* The state is well typed. *)
SkTypeOK ==
  /\ skDir = NoDir \/ (DOMAIN skDir \subseteq SkFiles /\ \A f \in DOMAIN skDir : skDir[f] \in SkOps \cup {0})
  /\ skOp \in [SkOps -> [kind : SkKinds,
        pc : {"idle", "meta", "download", "extract", "list", "files", "raw", "import", "save", "done"},
        todo : SUBSET SkFiles, known : BOOLEAN,
        answer : {"none", "ok", "exists", "not_found", "failed", "blocked"}]]
  /\ skLock \in SkOps \cup {0}

(* While only the tool installs, the skill between its calls is the one of    *)
(* before, or gone, or whole and of a call that answered success: whatever    *)
(* failed, nobody sees a part of it.                                          *)
ToolInstallsAreWhole ==
  SkIdle /\ (\A o \in SkOps : SkTool(o)) =>
    \/ skDir \in {NoDir, [f \in SkFiles |-> 0]}
    \/ \E o \in SkOps : skOp[o].answer = "ok" /\ Whole(skDir, o)

(* What the tool reports as installed is whole.                               *)
SkInv == SkTypeOK /\ ToolInstallsAreWhole

(* An install answered with success is whole until it is removed or replaced. *)
(* Refuted: a GitHub install that fell back has SKILL.md only, and an         *)
(* installer that fails removes what another installed meanwhile.             *)
SuccessIsWhole ==
  \A o \in SkOps :
    /\ skOp[o].answer = "ok" /\ skOp[o].kind \in {"github", "registry", "tool"}
    /\ \A p \in SkOps \ {o} : skOp[p].pc = "idle" \/ skOp[p].answer \in {"exists", "failed"}
    => Whole(skDir, o)

(* An install that failed can be tried again.  Refuted: the GitHub installer  *)
(* leaves a directory without SKILL.md, which it then refuses as installed    *)
(* and the console cannot delete.                                             *)
FailedCanBeRetried ==
  \A o \in SkOps : skOp[o].answer = "failed" /\ (\A p \in SkOps \ {o} : skOp[p].pc = "idle")
    => o \notin {skDir[f] : f \in DOMAIN skDir}
=============================================================================
