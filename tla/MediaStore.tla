----------------------------- MODULE MediaStore -----------------------------
(* The media store: files registered under references, the cleaner that       *)
(* removes what is older than MaxAge in two phases, and the replacement of    *)
(* the store at a reload of the gateway.  ReleaseAll, which no code calls,    *)
(* works like the cleaner.  Time is abstracted to whether an entry is older   *)
(* than MaxAge; the path of an entry stands for its metadata too.             *)
EXTENDS Naturals, FiniteSets

CONSTANTS Downloads,  \* files that channels download, each stored once
          UserFiles,  \* workspace files the send_file tool stores
          MaxRefs,    \* references given out
          MaxStores   \* stores created

ASSUME MediaAssumption == MaxRefs \in Nat /\ MaxStores \in Nat \ {0}

MediaFiles == Downloads \cup UserFiles
Entry == [ref : 1..MaxRefs, path : MediaFiles, old : BOOLEAN]

VARIABLES msRefs,     \* [store -> entries]
          msNew,      \* the store of the agent and the newest channels
          msCleaning, \* stores whose cleanup goroutine runs
          msDoomed,   \* paths whose entries the cleaner removed, not yet deleted
          msDisk,     \* files that exist
          msStored,   \* files ever stored
          msLast      \* the last reference given out

msVars == <<msRefs, msNew, msCleaning, msDoomed, msDisk, msStored, msLast>>

MsInit ==
  /\ msRefs = [s \in 1..MaxStores |-> {}] /\ msNew = 1 /\ msCleaning = {1}
  /\ msDoomed = {} /\ msDisk = UserFiles /\ msStored = {} /\ msLast = 0

(* Store: the path is registered as it is; the file is neither moved nor      *)
(* copied.  A channel of an older generation may still use its own store.     *)
MsStore(s, path) ==
  /\ s <= msNew /\ msLast < MaxRefs /\ msLast' = msLast + 1
  /\ path \in msDisk \/ (path \in Downloads \ msStored)
  /\ path \in Downloads => path \notin msStored
  /\ msDisk' = msDisk \cup {path} /\ msStored' = msStored \cup {path}
  /\ msRefs' = [msRefs EXCEPT ![s] =
                 @ \cup {[ref |-> msLast + 1, path |-> path, old |-> FALSE]}]
  /\ UNCHANGED <<msNew, msCleaning, msDoomed>>

(* MaxAge passes for an entry. *)
MsAge(s) ==
  /\ \E e \in msRefs[s] : ~e.old /\ msRefs' = [msRefs EXCEPT ![s] =
                                      (@ \ {e}) \cup {[e EXCEPT !.old = TRUE]}]
  /\ UNCHANGED <<msNew, msCleaning, msDoomed, msDisk, msStored, msLast>>

Expired(s) == {e \in msRefs[s] : e.old}

(* Plausible defect: the files go first, the entries in the second phase. *)
MsCollect_FilesFirst(s) ==
  /\ s \in msCleaning /\ Expired(s) # {}
  /\ msDisk' = msDisk \ {e.path : e \in Expired(s)}
  /\ UNCHANGED <<msRefs, msDoomed, msNew, msCleaning, msStored, msLast>>

(* CleanExpired, phase 1: the expired entries go, under the lock. *)
MsCollect(s) ==
  /\ s \in msCleaning /\ Expired(s) # {}
  /\ msRefs' = [msRefs EXCEPT ![s] = @ \ Expired(s)]
  /\ msDoomed' = msDoomed \cup {e.path : e \in Expired(s)}
  /\ UNCHANGED <<msNew, msCleaning, msDisk, msStored, msLast>>

(* Phase 2: a file is deleted; an error is logged. *)
MsDelete(path) ==
  /\ path \in msDoomed /\ msDoomed' = msDoomed \ {path}
  /\ msDisk' \in {msDisk, msDisk \ {path}}
  /\ UNCHANGED <<msRefs, msNew, msCleaning, msStored, msLast>>

(* Stop and NewFileMediaStoreWithCleanup: the new store knows nothing of the  *)
(* old one's files.                                                           *)
MsReload ==
  /\ msNew < MaxStores /\ msNew' = msNew + 1 /\ msCleaning' = {msNew + 1}
  /\ UNCHANGED <<msRefs, msDoomed, msDisk, msStored, msLast>>

MsNext ==
  \/ \E s \in 1..MaxStores : MsAge(s) \/ MsCollect(s) \/ \E f \in MediaFiles : MsStore(s, f)
  \/ \E f \in MediaFiles : MsDelete(f)
  \/ MsReload

MsSpec == MsInit /\ [][MsNext]_msVars

----------------------------------------------------------------------------
(* The state is well typed. *)
MsTypeOK ==
  /\ msRefs \in [1..MaxStores -> SUBSET Entry] /\ msNew \in 1..MaxStores
  /\ msCleaning \subseteq 1..MaxStores /\ msDoomed \subseteq MediaFiles
  /\ msDisk \subseteq MediaFiles /\ msStored \subseteq MediaFiles /\ msLast \in 0..MaxRefs

(* A reference that resolves to a download has its file, in every store, and  *)
(* at any moment of a cleanup: entries go before files.                       *)
ResolvedExists ==
  \A s \in 1..MaxStores : \A e \in msRefs[s] : e.path \in Downloads => e.path \in msDisk

(* Well typed, and references of downloads have their files.                  *)
MsInv == MsTypeOK /\ ResolvedExists

(* Files are temporary ("e.g. in /tmp/ottie_media/"): the store deletes none  *)
(* of the user's.  Refuted: send_file stores the path in the workspace, and   *)
(* the cleaner deletes it MaxAge later.                                       *)
UserFilesSurvive == UserFiles \subseteq msDisk

(* A downloaded file is in the store that is cleaned, until it is deleted.    *)
(* Refuted: a reload forgets the files of the old store.                      *)
DownloadsAreOwned ==
  \A f \in Downloads \cap msDisk : f \in msDoomed \/ \E s \in msCleaning : \E e \in msRefs[s] : e.path = f
=============================================================================
