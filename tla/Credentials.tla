----------------------------- MODULE Credentials -----------------------------
(* Logins: the credential store, one JSON file that the launcher, the gateway *)
(* and the command line each read and rewrite whole; the auth methods in the  *)
(* configuration, rewritten likewise; the launcher's login flows; and the     *)
(* refresh of a token whenever a turn finds it about to expire.               *)
(*                                                                            *)
(* A credential is named by the number of its access token and has a refresh  *)
(* token, 0 for none.  A service that gives a new refresh token takes back    *)
(* the one before.                                                            *)
EXTENDS Naturals, FiniteSets

CONSTANTS CdOps,        \* operations that may be under way at once
          CdFlows,      \* the launcher's login flows
          CdMaxOps,     \* operations begun
          CdMaxTokens   \* tokens issued

ASSUME CdAssumption == CdMaxOps \in Nat /\ CdMaxTokens \in Nat \ {0}

VARIABLES cdStore,    \* [CdProviders -> credential]
          cdMethod,   \* [CdProviders -> auth method in the configuration]
          cdFlow,     \* [CdFlows -> record]
          cdOp,       \* [CdOps -> record]
          cdAge,      \* [1..CdMaxTokens -> 0 new, 1 about to expire, 2 expired]
          cdValid,    \* refresh tokens the services take
          cdIssued, cdBegun

cdVars == <<cdStore, cdMethod, cdFlow, cdOp, cdAge, cdValid, cdIssued, cdBegun>>

CdProviders == {"openai", "anthropic", "googleAntigravity"}
NoCredential == [token |-> 0, refresh |-> 0, account |-> FALSE]
Flowing == {"callback", "poll"}         \* the launcher's logins with a flow
IdleOp == [kind |-> "none", prov |-> "openai", flow |-> "none", pc |-> "idle", store |-> <<>>,
           method |-> <<>>, cred |-> NoCredential, result |-> "none"]

CdInit ==
  /\ \E before \in SUBSET CdProviders :   \* logged in once, with the first token
       /\ Cardinality(before) <= 1
       /\ cdStore = [p \in CdProviders |->
            IF p \in before THEN [token |-> 1, refresh |-> 1, account |-> TRUE] ELSE NoCredential]
       /\ cdMethod = [p \in CdProviders |-> IF p \in before THEN "oauth" ELSE "none"]
       /\ cdIssued = Cardinality(before) /\ cdValid = 1..cdIssued
  /\ cdFlow = [f \in CdFlows |-> [status |-> "none", prov |-> "openai", method |-> "browser",
                                  code |-> TRUE, saved |-> FALSE]]
  /\ cdOp = [o \in CdOps |-> IdleOp]
  /\ cdAge = [t \in 1..CdMaxTokens |-> 0] /\ cdBegun = 0

----------------------------------------------------------------------------
(* oauthProviderMethods: who offers which flow. *)
FlowMethods(p) ==
  CASE p = "openai" -> {"browser", "device_code"} [] p = "anthropic" -> {}
    [] p = "googleAntigravity" -> {"browser"}

(* The logins without a flow: whether the service gives a refresh token, the  *)
(* auth method that is set, and which failures to set it are told.            *)
Direct(prov, refresh, method, strict) ==
  [prov |-> prov, refresh |-> refresh, method |-> method, strict |-> strict]
LoginOpenAI      == Direct("openai", TRUE, "oauth", {"saveConfig"})
LoginAntigravity == Direct("googleAntigravity", TRUE, "oauth", {})
LoginSetupToken  == Direct("anthropic", FALSE, "oauth", {"saveConfig"})
LoginPasteToken  == Direct("openai", FALSE, "token", {"saveConfig"})
LauncherToken    == Direct("anthropic", FALSE, "token", {"loadConfig", "saveConfig"})
DirectLogin(kind) ==
  CASE kind = "openai" -> LoginOpenAI [] kind = "antigravity" -> LoginAntigravity
    [] kind = "setupToken" -> LoginSetupToken [] kind = "pastedToken" -> LoginPasteToken
    [] kind = "launcherToken" -> LauncherToken
Directs == {"openai", "antigravity", "setupToken", "pastedToken", "launcherToken"}

(* handleOAuthLogin: a flow waits for its callback or for its polls. *)
CdLogin(f, p, m) ==
  /\ cdFlow[f].status = "none" /\ m \in FlowMethods(p)
  /\ cdFlow' = [cdFlow EXCEPT ![f].status = "pending", ![f].prov = p, ![f].method = m]
  /\ UNCHANGED <<cdStore, cdMethod, cdOp, cdAge, cdValid, cdIssued, cdBegun>>

(* gcOAuthFlowsLocked: a pending flow expires. *)
CdExpire(f) ==
  /\ cdFlow[f].status = "pending" /\ cdFlow' = [cdFlow EXCEPT ![f].status = "expired"]
  /\ UNCHANGED <<cdStore, cdMethod, cdOp, cdAge, cdValid, cdIssued, cdBegun>>

CdTokenAges(t) ==
  /\ t <= cdIssued /\ cdAge[t] < 2 /\ cdAge' = [cdAge EXCEPT ![t] = @ + 1]
  /\ UNCHANGED <<cdStore, cdMethod, cdFlow, cdOp, cdValid, cdIssued, cdBegun>>

(* An operation begins where its first outside effect is. *)
CdBegin(o, kind, p, f, pc, cred) ==
  /\ cdOp[o].pc = "idle" /\ cdBegun < CdMaxOps /\ cdBegun' = cdBegun + 1
  /\ cdOp' = [cdOp EXCEPT ![o] = [IdleOp EXCEPT !.kind = kind, !.prov = p, !.flow = f, !.pc = pc,
                                                !.cred = cred]]

(* handleOAuthCallback finds its flow by the state, which is gone with any    *)
(* end of the flow; handlePollOAuthFlow asks for a pending one.               *)
CdAnswer(o, f) ==
  /\ cdFlow[f].status = "pending"
  /\ CdBegin(o, IF cdFlow[f].method = "browser" THEN "callback" ELSE "poll", cdFlow[f].prov, f,
           "ask", NoCredential)
  /\ UNCHANGED <<cdStore, cdMethod, cdFlow, cdAge, cdValid, cdIssued>>

(* The command line waits for its answer itself; a pasted token asks nobody.  *)
CdDirect(o, kind) ==
  /\ CdBegin(o, kind, DirectLogin(kind).prov, "none", "ask", NoCredential)
  /\ UNCHANGED <<cdStore, cdMethod, cdFlow, cdAge, cdValid, cdIssued>>

(* handleOAuthLogout, authLogoutCmd: the command deletes what it was told by  *)
(* name, and "antigravity" names no credential.                               *)
CdLogout(o, p, alias) ==
  /\ CdBegin(o, IF alias THEN "logoutByAlias" ELSE "logout", p, "none", "load", NoCredential)
  /\ (alias => p = "googleAntigravity")
  /\ UNCHANGED <<cdStore, cdMethod, cdFlow, cdAge, cdValid, cdIssued>>

(* The token sources of the providers, at each request of a turn. *)
CdUse(o, p) ==
  LET c == cdStore[p] due == c.token > 0 /\ cdAge[c.token] > 0 IN
  /\ CdBegin(o, "use", p, "none", IF due /\ c.refresh > 0 THEN "ask" ELSE "served", c)
  /\ UNCHANGED <<cdStore, cdMethod, cdFlow, cdAge, cdValid, cdIssued>>

----------------------------------------------------------------------------
CdEnd(o, r) == cdOp' = [cdOp EXCEPT ![o] = [IdleOp EXCEPT !.result = r]]

(* setOAuthFlowSuccess, setOAuthFlowError: whatever the flow's status was. *)
Settle(o, status) ==
  IF cdOp[o].kind \in Flowing THEN [cdFlow EXCEPT ![cdOp[o].flow].status = status] ELSE cdFlow

Fail(o) == CdEnd(o, "error") /\ cdFlow' = Settle(o, "error")

(* Plausible defect: what the answer leaves out is taken to be empty. *)
Refreshed_AsAnswered(old, new, rotates) ==
  [token |-> new, refresh |-> IF rotates THEN new ELSE 0, account |-> FALSE]

(* RefreshAccessToken: what the answer leaves out stays as it was. *)
Refreshed(old, new, rotates) ==
  [token |-> new, refresh |-> IF rotates THEN new ELSE old.refresh, account |-> old.account]

(* The service gives a token: for a code once, for a refresh token while it   *)
(* is valid.                                                                  *)
CdAsked(o, rotates) ==
  LET k == cdOp[o] new == cdIssued + 1
      refreshed == k.kind \in Directs => DirectLogin(k.kind).refresh
      cred == IF k.kind = "use" THEN Refreshed(k.cred, new, rotates)
              ELSE [token |-> new, refresh |-> IF refreshed THEN new ELSE 0, account |-> refreshed]
  IN  /\ k.pc = "ask" /\ new <= CdMaxTokens /\ cdIssued' = new
      /\ (k.kind = "use" => k.cred.refresh \in cdValid)
      /\ (k.kind \in Flowing => cdFlow[k.flow].code)
      /\ cdOp' = [cdOp EXCEPT ![o].pc = "load", ![o].cred = cred]
      /\ cdFlow' = IF k.kind \in Flowing THEN [cdFlow EXCEPT ![k.flow].code = FALSE] ELSE cdFlow
      /\ cdValid' = IF k.kind = "use" /\ rotates THEN (cdValid \ {k.cred.refresh}) \cup {new}
                    ELSE IF k.kind # "use" /\ cred.refresh > 0 THEN cdValid \cup {new} ELSE cdValid
      /\ UNCHANGED <<cdStore, cdMethod, cdAge, cdBegun>>

(* It does not: a login fails, a poll that is too early says pending, and a   *)
(* turn fails, though its token may have minutes left.                        *)
CdRefused(o) ==
  /\ cdOp[o].pc = "ask"
  /\ \/ Fail(o)
     \/ cdOp[o].kind = "poll" /\ CdEnd(o, "pending") /\ UNCHANGED cdFlow
  /\ UNCHANGED <<cdStore, cdMethod, cdAge, cdValid, cdIssued, cdBegun>>

(* SetCredential, DeleteCredential: the whole store is read, *)
CdLoad(o) ==
  /\ cdOp[o].pc = "load"
  /\ cdOp' = [cdOp EXCEPT ![o].pc = "save", ![o].store = cdStore]
  /\ UNCHANGED <<cdStore, cdMethod, cdFlow, cdAge, cdValid, cdIssued, cdBegun>>

(* and written; *)
CdSave(o) ==
  LET k == cdOp[o] after == IF k.kind = "use" THEN "served" ELSE "loadConfig" IN
  /\ k.pc = "save" /\ cdOp' = [cdOp EXCEPT ![o].pc = after, ![o].store = <<>>]
  /\ cdStore' = CASE k.kind = "logoutByAlias" -> k.store
                  [] OTHER -> [k.store EXCEPT ![k.prov] = k.cred]
  /\ cdFlow' = IF k.kind \in Flowing THEN [cdFlow EXCEPT ![k.flow].saved = TRUE] ELSE cdFlow
  /\ UNCHANGED <<cdMethod, cdAge, cdValid, cdIssued, cdBegun>>

(* the configuration likewise, syncProviderAuthMethod. *)
CdLoadConfig(o) ==
  /\ cdOp[o].pc = "loadConfig"
  /\ cdOp' = [cdOp EXCEPT ![o].pc = "saveConfig", ![o].method = cdMethod]
  /\ UNCHANGED <<cdStore, cdMethod, cdFlow, cdAge, cdValid, cdIssued, cdBegun>>

CdSaveConfig(o) ==
  LET k == cdOp[o]
      m == CASE k.kind \in Directs -> DirectLogin(k.kind).method [] k.kind \in Flowing -> "oauth"
             [] OTHER -> "none"
  IN  /\ k.pc = "saveConfig" /\ CdEnd(o, "ok") /\ cdFlow' = Settle(o, "success")
      /\ cdMethod' = [k.method EXCEPT ![k.prov] = m]
      /\ UNCHANGED <<cdStore, cdAge, cdValid, cdIssued, cdBegun>>

(* A file cannot be read or written: what was done before stays.  The command *)
(* line does without a configuration it cannot read.                          *)
Lenient(o) == LET k == cdOp[o] IN
  \/ k.kind \in Directs /\ k.pc \in {"loadConfig", "saveConfig"} \ DirectLogin(k.kind).strict
  \/ k.kind = "logoutByAlias" /\ k.pc \in {"loadConfig", "saveConfig"}
CdFileFails(o) ==
  /\ cdOp[o].pc \in {"load", "save", "loadConfig", "saveConfig"} 
  /\ IF Lenient(o) THEN CdEnd(o, "ok") /\ UNCHANGED cdFlow ELSE Fail(o)
  /\ UNCHANGED <<cdStore, cdMethod, cdAge, cdValid, cdIssued, cdBegun>>

(* The turn has its token, unless there is none or it has expired. *)
CdServed(o) ==
  LET c == cdOp[o].cred IN
  /\ cdOp[o].pc = "served"
  /\ CdEnd(o, IF c.token = 0 \/ (cdOp[o].prov = "googleAntigravity" /\ cdAge[c.token] = 2)
              THEN "error" ELSE "ok")
  /\ UNCHANGED <<cdStore, cdMethod, cdFlow, cdAge, cdValid, cdIssued, cdBegun>>

CdNext ==
  \/ \E f \in CdFlows : \/ CdExpire(f)
                        \/ \E p \in CdProviders : \E m \in FlowMethods(p) : CdLogin(f, p, m)
                        \/ \E o \in CdOps : CdAnswer(o, f)
  \/ \E t \in 1..CdMaxTokens : CdTokenAges(t)
  \/ \E o \in CdOps, p \in CdProviders :
       CdUse(o, p) \/ (\E alias \in BOOLEAN : CdLogout(o, p, alias))
  \/ \E o \in CdOps :
       \/ \E kind \in Directs : CdDirect(o, kind)
       \/ (\E rotates \in BOOLEAN : CdAsked(o, rotates)) \/ CdRefused(o) \/ CdLoad(o) \/ CdSave(o)
       \/ CdLoadConfig(o) \/ CdSaveConfig(o) \/ CdFileFails(o) \/ CdServed(o)

CdSpec == CdInit /\ [][CdNext]_cdVars

----------------------------------------------------------------------------
CdCredentials == [token : 0..CdMaxTokens, refresh : 0..CdMaxTokens, account : BOOLEAN]

(* The state is well typed. *)
CdTypeOK ==
  /\ cdStore \in [CdProviders -> CdCredentials]
  /\ cdMethod \in [CdProviders -> {"none", "oauth", "token"}]
  /\ \A f \in CdFlows : /\ cdFlow[f].status \in {"none", "pending", "success", "error", "expired"}
                        /\ cdFlow[f].method \in FlowMethods(cdFlow[f].prov)
  /\ \A o \in CdOps : /\ cdOp[o].cred \in CdCredentials
                      /\ cdOp[o].result \in {"none", "ok", "error", "pending"}
  /\ cdAge \in [1..CdMaxTokens -> 0..2] /\ cdValid \subseteq 1..cdIssued
  /\ cdIssued \in 0..CdMaxTokens /\ cdBegun \in 0..CdMaxOps

(* A flow that shows success has stored its credential; one login gave it,    *)
(* though the page may have been loaded twice or polled by two tabs.          *)
SuccessIsStored == \A f \in CdFlows : cdFlow[f].status = "success" => cdFlow[f].saved /\ ~cdFlow[f].code

(* However often it is refreshed, and whatever the answers leave out, a       *)
(* stored credential keeps its account, and its refresh token once it has one. *)
IdentityIsKept ==
  /\ \A p \in CdProviders : cdStore[p].refresh > 0 => cdStore[p].account
  /\ cdStore["googleAntigravity"].token > 0 => cdStore["googleAntigravity"].refresh > 0

(* A flow's success is stored, and refreshed credentials keep their identity. *)
CdInv == CdTypeOK /\ SuccessIsStored /\ IdentityIsKept

Busy == {o \in CdOps : cdOp[o].pc # "idle"}

(* A flow that has succeeded stays so.  Refuted: a second callback that found *)
(* it pending is refused its code and writes the error over the success.      *)
SuccessStays == [][\A f \in CdFlows : cdFlow[f].status = "success" => cdFlow'[f].status = "success"]_cdVars

(* "Logged out from": the last to finish was a logout and nothing else is     *)
(* under way, so the credential is gone.  Refuted by the name antigravity,    *)
(* and by a refresh that read the store before and wrote it after.            *)
LogoutRemoves ==
  [][\A o \in CdOps : cdOp[o].pc = "saveConfig" /\ cdOp'[o].result = "ok" /\ Busy = {o}
       /\ cdOp[o].kind \in {"logout", "logoutByAlias"}
     => cdStore'[cdOp[o].prov] = NoCredential]_cdVars

(* A login that was reported stays until a logout.  Refuted: an operation     *)
(* that read the store before it writes it back without.                      *)
LoginsSurvive ==
  [][\A p \in CdProviders : cdStore[p].token > 0 /\ cdStore'[p].token = 0 =>
       \E o \in CdOps : cdOp[o].prov = p /\ cdOp[o].kind = "logout"]_cdVars

(* A turn does not fail while the store has a token that is not expired.      *)
(* Refuted: two turns refresh with one refresh token, and the second fails.   *)
ValidTokenServes ==
  [][\A o \in CdOps : LET p == cdOp[o].prov IN
       cdOp[o].kind = "use" /\ cdOp[o].pc = "ask" /\ cdOp'[o].result = "error" =>
         cdStore[p].token = 0 \/ cdAge[cdStore[p].token] = 2]_cdVars
=============================================================================
