------------------------------ MODULE MCStores ------------------------------
(***************************************************************************)
(* What outlives a turn, and is shared by those that use it: cron jobs,    *)
(* sub-agents, media, credentials, the workspace, skills, and the          *)
(* launcher's record of the gateway it started.  The components share no   *)
(* variable, so they are checked side by side: a behaviour takes the steps *)
(* of the one in focus and leaves the others in one of the states they     *)
(* start in.                                                               *)
(***************************************************************************)
EXTENDS CronService, Swarm, MediaStore, Credentials, WorkspaceFiles, SkillInstall, LauncherGateway, TLC

VARIABLE focus

FilesStart == /\ wfFs = "host" /\ \A p \in WfPaths : wfFile[p] = WfAbsent
              /\ \A c \in WfCalls : /\ wfCall[c].tool = CHOOSE t \in WfTools : TRUE
                                    /\ wfCall[c].path = CHOOSE p \in WfPaths : TRUE
SkillsStart == /\ skDir = NoDir /\ skSource = [files |-> SkFiles, blocked |-> FALSE]
               /\ \A o \in SkOps : skOp[o].kind = CHOOSE k \in SkKinds : TRUE
LauncherStart == /\ lgPage.pc = "none"
                 /\ \A r \in LgRequests : lgReq[r].pc = CHOOSE o \in LgOps : TRUE

SuiteInit ==
    /\ focus \in {"cron", "swarm", "media", "credentials", "files", "skills", "launcher"}
    /\ CnInit /\ SwInit /\ MsInit
    /\ CdInit /\ (focus # "credentials" => cdIssued = 0)
    /\ WfInit /\ (focus # "files" => FilesStart)
    /\ SkInit /\ (focus # "skills" => SkillsStart)
    /\ LgInit /\ (focus # "launcher" => LauncherStart)

SuiteNext ==
    /\ UNCHANGED focus
    /\ \/ focus = "cron" /\ CnNext /\ UNCHANGED <<swVars, msVars, cdVars, wfVars, skVars, lgVars>>
       \/ focus = "swarm" /\ SwNext /\ UNCHANGED <<cnVars, msVars, cdVars, wfVars, skVars, lgVars>>
       \/ focus = "media" /\ MsNext /\ UNCHANGED <<cnVars, swVars, cdVars, wfVars, skVars, lgVars>>
       \/ focus = "credentials" /\ CdNext /\ UNCHANGED <<cnVars, swVars, msVars, wfVars, skVars, lgVars>>
       \/ focus = "files" /\ WfNext /\ UNCHANGED <<cnVars, swVars, msVars, cdVars, skVars, lgVars>>
       \/ focus = "skills" /\ SkNext /\ UNCHANGED <<cnVars, swVars, msVars, cdVars, wfVars, lgVars>>
       \/ focus = "launcher" /\ LgNext /\ UNCHANGED <<cnVars, swVars, msVars, cdVars, wfVars, skVars>>

Suite == SuiteInit /\ [][SuiteNext]_<<focus, cnVars, swVars, msVars, cdVars, wfVars, skVars, lgVars>>

Symmetry == Permutations(CdOps)
=============================================================================
