---------------------------- MODULE MaasClient ----------------------------
(***************************************************************************)
(* The bootstrap job's task "maas": the account by which maas-agent        *)
(* reaches MaaS, and the Kubernetes secret that holds its credentials.     *)
(* MaaS keeps no password it could be asked for, so that an account whose  *)
(* password is not in the secret is deleted and registered anew.           *)
(*                                                                         *)
(* A run is one pod of the job; it may fail at any call or be killed, and  *)
(* the next run may be of a deployment with MaaS enabled or not.  Nobody   *)
(* else changes the account or the secret.                                 *)
(***************************************************************************)
EXTENDS Naturals

CONSTANTS
    Password,       \* what GeneratePassword may return
    None,           \* no secret, or no account
    Stub,           \* the credentials of a secret written without MaaS
    Retries,        \* times the HTTP client repeats a request: 3 in the code
    MaxFaults       \* bound on lost answers, failed calls and kills

ASSUME ConstantsAssumption ==
    /\ None \notin Password
    /\ Stub \notin Password \cup {None}
    /\ Retries \in Nat
    /\ MaxFaults \in Nat

VARIABLES
    account,    \* the password of the account in MaaS, or None
    secret,     \* None, Stub, or the agent's password
    pc,         \* where the run is, "idle" between two runs
    enabled,    \* MAAS_ENABLED in the deployment the run belongs to
    password,   \* the password it has generated
    tries,      \* times the request in hand has been repeated
    outcome,    \* of the last run: "none", "ok" or "failed"
    faults

vars == <<account, secret, pc, enabled, password, tries, outcome, faults>>

-----------------------------------------------------------------------------
\* An earlier deployment has left an account with its secret, or an account
\* whose secret is gone with its namespace, or the stub.
Init ==
    /\ account \in Password \cup {None}
    /\ secret \in {None, Stub, account}
    /\ pc = "idle"
    /\ enabled \in BOOLEAN
    /\ password = None
    /\ tries = 0
    /\ outcome = "none"
    /\ faults = 0

Goto(label) == pc' = label /\ tries' = 0

Fault == faults < MaxFaults /\ faults' = faults + 1

RunEnds(result) ==
    /\ Goto("idle")
    /\ password' = None
    /\ outcome' = result

\* Configure
Start ==
    /\ pc = "idle"
    /\ enabled' \in BOOLEAN
    /\ Goto("config")
    /\ UNCHANGED <<account, secret, password, outcome, faults>>

\* A call fails for good, or the pod is killed.
RunFails ==
    /\ pc # "idle"
    /\ Fault
    /\ RunEnds("failed")
    /\ UNCHANGED <<account, secret, enabled>>

\* The answer is lost, the client sends the request again.
AnswerLost ==
    /\ Fault
    /\ tries < Retries
    /\ tries' = tries + 1
    /\ pc' = pc

-----------------------------------------------------------------------------
\* sendMaaSConfig: MaaS takes the configuration, which no step here reads.
SendMaaSConfig_NotAsked ==
    /\ pc = "config"
    /\ Goto("secret")
    /\ UNCHANGED <<account, secret, enabled, password, outcome, faults>>
SendMaaSConfig ==
    /\ pc = "config"
    /\ Goto(IF enabled THEN "secret" ELSE "stub")
    /\ UNCHANGED <<account, secret, enabled, password, outcome, faults>>

CreateStubSecret ==
    /\ pc = "stub"
    /\ secret' = Stub
    /\ RunEnds("ok")
    /\ UNCHANGED <<account, enabled, faults>>

\* getExistingUsernameFromSecret: a secret that is not the stub is kept.
GetExistingUsername_TakesTheStub ==
    /\ pc = "secret"
    /\ \/ secret # None
          /\ RunEnds("ok")
       \/ secret = None
          /\ Goto("delete")
          /\ password' \in Password
          /\ UNCHANGED outcome
    /\ UNCHANGED <<account, secret, enabled, faults>>
GetExistingUsername_NoPassword ==
    /\ pc = "secret"
    /\ IF secret \in {None, Stub}
       THEN Goto("delete") /\ UNCHANGED <<password, outcome>>
       ELSE RunEnds("ok")
    /\ UNCHANGED <<account, secret, enabled, faults>>
GetExistingUsername_NotLooked ==
    /\ pc = "secret"
    /\ Goto("delete")
    /\ password' \in Password
    /\ UNCHANGED <<account, secret, enabled, outcome, faults>>
GetExistingUsername ==
    /\ pc = "secret"
    /\ \/ secret \notin {None, Stub}
          /\ RunEnds("ok")
       \/ secret \in {None, Stub}
          /\ Goto("delete")
          /\ password' \in Password
          /\ UNCHANGED outcome
    /\ UNCHANGED <<account, secret, enabled, faults>>

\* The previous registration is deleted; the status is not looked at, so that
\* the account may still be there.
DeleteAccount ==
    /\ pc = "delete"
    /\ account' = None
    /\ Goto("create")
    /\ UNCHANGED <<secret, enabled, password, outcome, faults>>

DeleteRefused ==
    /\ pc = "delete"
    /\ Fault
    /\ Goto("create")
    /\ UNCHANGED <<account, secret, enabled, password, outcome>>

DeleteAnswerLost ==
    /\ pc = "delete"
    /\ account' = None
    /\ AnswerLost
    /\ UNCHANGED <<secret, enabled, password, outcome>>

\* MaaS registers a name only once; any other status ends the run.
CreateAccount ==
    /\ pc = "create"
    /\ account = None
    /\ account' = password
    /\ Goto("save")
    /\ UNCHANGED <<secret, enabled, password, outcome, faults>>

CreateAnswerLost ==
    /\ pc = "create"
    /\ account = None
    /\ account' = password
    /\ AnswerLost
    /\ UNCHANGED <<secret, enabled, password, outcome>>

CreateRefused_TakenForDone ==
    /\ pc = "create"
    /\ account # None
    /\ Goto("save")
    /\ UNCHANGED <<account, secret, enabled, password, outcome, faults>>
CreateRefused ==
    /\ pc = "create"
    /\ account # None
    /\ RunEnds("failed")
    /\ UNCHANGED <<account, secret, enabled, faults>>

CreateMaasAgentSecret ==
    /\ pc = "save"
    /\ secret' = password
    /\ RunEnds("ok")
    /\ UNCHANGED <<account, enabled, faults>>

\* The secret is stored, but the run does not get to know.
SaveAnswerLost ==
    /\ pc \in {"save", "stub"}
    /\ secret' = IF pc = "save" THEN password ELSE Stub
    /\ Fault
    /\ RunEnds("failed")
    /\ UNCHANGED <<account, enabled>>

-----------------------------------------------------------------------------
Run ==
    \/ Start \/ SendMaaSConfig \/ CreateStubSecret \/ GetExistingUsername
    \/ DeleteAccount \/ CreateAccount \/ CreateRefused \/ CreateMaasAgentSecret

Faulty ==
    \/ RunFails \/ DeleteRefused \/ DeleteAnswerLost \/ CreateAnswerLost
    \/ SaveAnswerLost

Next == Run \/ Faulty

Spec == Init /\ [][Next]_vars

\* Calls return and the job is run again; nothing is assumed of the faults.
FairSpec == Spec /\ WF_vars(Run)

-----------------------------------------------------------------------------
(* Properties *)

TypeOK ==
    /\ account \in Password \cup {None}
    /\ secret \in Password \cup {None, Stub}
    /\ pc \in {"idle", "config", "stub", "secret", "delete", "create", "save"}
    /\ enabled \in BOOLEAN
    /\ password \in Password \cup {None}
    /\ pc \in {"delete", "create", "save"} => password \in Password
    /\ tries \in 0..Retries
    /\ outcome \in {"none", "ok", "failed"}
    /\ faults \in 0..MaxFaults

\* The agent's credentials are those MaaS knows.  No run leaves a secret with
\* a password that another run, or a repeated request, has replaced in MaaS:
\* the next run would keep that secret and the agent would never get in.
CredentialsWork == secret \in Password => account = secret

\* Once the faults are over and MaaS stays enabled, the agent has working
\* credentials, although a run that fails after the registration leaves an
\* account whose password nobody knows.
EventuallyRegistered ==
    <>[]enabled => <>[](secret \in Password /\ account = secret)

\* A run does not take working credentials from the agent while MaaS stays
\* enabled.
StaysRegistered ==
    [][enabled /\ secret \in Password => secret' = secret /\ account' = account]_vars

\* What maas-agent is to get, and what it has.
Wish == IF enabled THEN "account" ELSE "stub"

Held == IF secret = Stub THEN "stub"
        ELSE IF secret \in Password /\ account = secret THEN "account"
        ELSE "nothing"

\* What a task of the bootstrap job promises: here a deployment wishes an
\* account, or the stub that stands for none.
Task == INSTANCE BootstrapTask WITH
            Wishes <- {"account", "stub"}, Nothing <- "nothing",
            wish <- Wish, held <- Held, running <- pc # "idle",
            stuck <- FALSE

\* The task keeps that promise although it has to delete the account before it
\* can register it: it does so only for an agent that holds nothing or the stub,
\* and the agent gets the account and its password in one step, the secret's.
ImplementsTask == Task!Spec
=============================================================================
