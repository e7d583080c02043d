---------------------------- MODULE ConsulToken ----------------------------
(***************************************************************************)
(* The bootstrap job's task "configserver": the policies and the token by  *)
(* which config-server reaches Consul, kept in a Kubernetes secret.  A run *)
(* is one pod of the job.  It may fail at any call or be killed, and the   *)
(* next run (the job's retry, or another deployment) starts from what      *)
(* Consul and Kubernetes then hold; everything else a run knows is lost.   *)
(*                                                                         *)
(* The HTTP client repeats a request whose answer did not arrive, whether  *)
(* or not Consul has carried it out.  A token's accessor, by which it is   *)
(* listed and changed, and its secret id, which the Kubernetes secret      *)
(* holds, are one name here.  Nobody else changes the tokens meanwhile.    *)
(***************************************************************************)
EXTENDS Naturals, FiniteSets

CONSTANTS
    Token,          \* names Consul may give to tokens
    NoToken,        \* no token: no secret, or nothing to update
    Policy,         \* policies tokens may carry
    Required,       \* those config-server needs
    Duplicated,     \* the one whose tokens CleanupDuplicateTokens looks for
    MaxLegacy,      \* bound on the tokens there are to begin with
    Retries,        \* times the HTTP client repeats a request: 3 in the code
    MaxFaults       \* bound on lost answers, failed calls and kills

ASSUME ConstantsAssumption ==
    /\ NoToken \notin Token
    /\ Required \subseteq Policy
    /\ Duplicated \in Required
    /\ MaxLegacy \in Nat
    /\ Retries \in Nat
    /\ MaxFaults \in Nat

VARIABLES
    tok,        \* Consul's tokens: "unborn", "live" or "deleted"
    pols,       \* the policies of each of them
    policy,     \* Consul's policies: "absent", "old" or "current"
    secret,     \* the token in the Kubernetes secret
    pc,         \* where the run is, "idle" between two runs
    todo,       \* required policies still to be looked at
    found,      \* LoadPolicyID's result for the policy in hand
    inHand,     \* that policy
    keep,       \* the token that CleanupDuplicateTokens keeps
    doomed,     \* those it has yet to delete
    fresh,      \* the token CreateConsulToken has got
    tries,      \* times the request in hand has been repeated
    outcome,    \* of the last run: "none", "ok" or "failed"
    faults

consulVars == <<tok, pols, policy>>
runVars == <<todo, found, inHand, keep, doomed, fresh>>
vars == <<consulVars, secret, pc, runVars, tries, outcome, faults>>

-----------------------------------------------------------------------------
Live == {t \in Token : tok[t] = "live"}

Good(t) == t \in Live /\ Required \subseteq pols[t]

Matching == {t \in Live : Duplicated \in pols[t]}

\* Consul holds what earlier versions have left there: a token may carry some
\* of the policies only, and there may be several with the same policy.
Init ==
    /\ tok \in [Token -> {"unborn", "live"}]
    /\ pols \in [Token -> SUBSET Policy]
    /\ \A t \in Token : tok[t] = "unborn" => pols[t] = {}
    /\ Cardinality(Live) <= MaxLegacy
    /\ policy \in [Policy -> {"absent", "old"}]
    /\ \A t \in Token : \A p \in pols[t] : policy[p] = "old"
    /\ secret \in Live \cup {NoToken}
    /\ pc = "idle"
    /\ todo = {}
    /\ found = FALSE
    /\ inHand = Duplicated
    /\ keep = NoToken
    /\ doomed = {}
    /\ fresh = NoToken
    /\ tries = 0
    /\ outcome = "none"
    /\ faults = 0

Fault == faults < MaxFaults /\ faults' = faults + 1

\* What the run goes by is gone when it ends.
RunEnds(result) ==
    /\ pc' = "idle"
    /\ todo' = {}
    /\ found' = FALSE
    /\ inHand' = Duplicated
    /\ keep' = NoToken
    /\ doomed' = {}
    /\ fresh' = NoToken
    /\ tries' = 0
    /\ outcome' = result

\* The next request is a new one.
Goto(label) == pc' = label /\ tries' = 0

Start ==
    /\ pc = "idle"
    /\ Goto("secret")
    /\ UNCHANGED <<consulVars, secret, runVars, outcome, faults>>

\* A call fails for good, or the pod is killed.
RunFails ==
    /\ pc # "idle"
    /\ Fault
    /\ RunEnds("failed")
    /\ UNCHANGED <<consulVars, secret>>

\* The answer is lost, the client sends the request again.
AnswerLost ==
    /\ Fault
    /\ tries < Retries
    /\ tries' = tries + 1
    /\ pc' = pc

-----------------------------------------------------------------------------
(* CheckAndCreateConsulPoliciesAndToken *)

GetSecret ==
    /\ pc = "secret"
    /\ todo' = Required
    /\ Goto("load")
    /\ UNCHANGED <<consulVars, secret, found, inHand, keep, doomed, fresh,
                   outcome, faults>>

LoadPolicyID ==
    /\ pc = "load"
    /\ \E p \in todo : /\ inHand' = p
                       /\ found' = (policy[p] # "absent")
                       /\ todo' = todo \ {p}
    /\ Goto("put")
    /\ UNCHANGED <<consulVars, secret, keep, doomed, fresh, outcome, faults>>

\* Consul creates a policy of a name only once.
Accepted == found \/ policy[inHand] = "absent"

CreateOrUpdatePolicy_OneMore ==
    /\ pc = "put"
    /\ Accepted
    /\ policy' = [policy EXCEPT ![inHand] = "current"]
    /\ Goto("load")
    /\ UNCHANGED <<tok, pols, secret, runVars, outcome, faults>>
CreateOrUpdatePolicy ==
    /\ pc = "put"
    /\ Accepted
    /\ policy' = [policy EXCEPT ![inHand] = "current"]
    /\ Goto(IF todo # {} THEN "load"
            ELSE IF secret # NoToken THEN "check" ELSE "list")
    /\ UNCHANGED <<tok, pols, secret, runVars, outcome, faults>>

PolicyAnswerLost ==
    /\ pc = "put"
    /\ Accepted
    /\ policy' = [policy EXCEPT ![inHand] = "current"]
    /\ AnswerLost
    /\ UNCHANGED <<tok, pols, secret, runVars, outcome>>

\* The repeated request to create a policy finds it created.
PolicyRefused ==
    /\ pc = "put"
    /\ ~Accepted
    /\ RunEnds("failed")
    /\ UNCHANGED <<consulVars, secret, faults>>

\* GetTokenInfo: Consul does not know the token, status 403.
TokenUnknown ==
    /\ pc = "check"
    /\ secret \notin Live
    /\ RunEnds("failed")
    /\ UNCHANGED <<consulVars, secret, faults>>

CheckRequiredPoliciesOnToken_Any ==
    /\ pc = "check"
    /\ secret \in Live
    /\ IF Required \cap pols[secret] # {}
       THEN RunEnds("ok")
       ELSE Goto("list") /\ UNCHANGED <<runVars, outcome>>
    /\ UNCHANGED <<consulVars, secret, faults>>
CheckRequiredPoliciesOnToken_Never ==
    /\ pc = "check"
    /\ secret \in Live
    /\ Goto("list")
    /\ UNCHANGED <<consulVars, secret, runVars, outcome, faults>>
CheckRequiredPoliciesOnToken ==
    /\ pc = "check"
    /\ secret \in Live
    /\ IF Required \subseteq pols[secret]
       THEN RunEnds("ok")
       ELSE Goto("list") /\ UNCHANGED <<runVars, outcome>>
    /\ UNCHANGED <<consulVars, secret, faults>>

-----------------------------------------------------------------------------
(* CleanupDuplicateTokens *)

\* The tokens come in Consul's order: any of them may be the first.
ListTokens_DeleteAll ==
    /\ pc = "list"
    /\ \/ Matching = {} /\ keep' = NoToken /\ doomed' = {}
       \/ keep' \in Matching /\ doomed' = Matching
    /\ Goto(IF doomed' = {} THEN "token" ELSE "delete")
    /\ UNCHANGED <<consulVars, secret, todo, found, inHand, fresh, outcome,
                   faults>>
ListTokens_AnyPolicy ==
    /\ pc = "list"
    /\ LET matching == {t \in Live : Required \cap pols[t] # {}} IN
       \/ matching = {} /\ keep' = NoToken /\ doomed' = {}
       \/ keep' \in matching /\ doomed' = matching \ {keep'}
    /\ Goto(IF doomed' = {} THEN "token" ELSE "delete")
    /\ UNCHANGED <<consulVars, secret, todo, found, inHand, fresh, outcome,
                   faults>>
ListTokens ==
    /\ pc = "list"
    /\ \/ Matching = {} /\ keep' = NoToken /\ doomed' = {}
       \/ keep' \in Matching /\ doomed' = Matching \ {keep'}
    /\ Goto(IF doomed' = {} THEN "token" ELSE "delete")
    /\ UNCHANGED <<consulVars, secret, todo, found, inHand, fresh, outcome,
                   faults>>

NextToDelete(t) ==
    /\ doomed' = doomed \ {t}
    /\ Goto(IF doomed' = {} THEN "token" ELSE "delete")

DeleteToken ==
    /\ pc = "delete"
    /\ \E t \in doomed : /\ tok' = [tok EXCEPT ![t] = "deleted"]
                         /\ NextToDelete(t)
    /\ UNCHANGED <<pols, policy, secret, todo, found, inHand, keep, fresh,
                   outcome, faults>>

\* An error is logged and the token left.
DeleteFails ==
    /\ pc = "delete"
    /\ \E t \in doomed : NextToDelete(t)
    /\ Fault
    /\ UNCHANGED <<consulVars, secret, todo, found, inHand, keep, fresh,
                   outcome>>

-----------------------------------------------------------------------------
(* CreateConsulToken *)

\* Token t is created, or the kept one is given the required policies.
PutToken(t) ==
    /\ IF keep = NoToken THEN tok[t] = "unborn" ELSE t = keep
    /\ tok' = [tok EXCEPT ![t] = "live"]
    /\ pols' = [pols EXCEPT ![t] = Required]

CreateConsulToken ==
    /\ pc = "token"
    /\ \E t \in Token : PutToken(t) /\ fresh' = t
    /\ Goto("save")
    /\ UNCHANGED <<policy, secret, todo, found, inHand, keep, doomed, outcome,
                   faults>>

TokenAnswerLost ==
    /\ pc = "token"
    /\ \E t \in Token : PutToken(t)
    /\ AnswerLost
    /\ UNCHANGED <<policy, secret, runVars, outcome>>

\* The bound on the names: the run cannot go on.
NamesExhausted ==
    /\ pc = "token"
    /\ keep = NoToken
    /\ \A t \in Token : tok[t] # "unborn"
    /\ RunEnds("failed")
    /\ UNCHANGED <<consulVars, secret, faults>>

SaveConsulTokenSecret_KeepsTheOld ==
    /\ pc = "save"
    /\ secret' = IF secret = NoToken THEN fresh ELSE secret
    /\ RunEnds("ok")
    /\ UNCHANGED <<consulVars, faults>>
SaveConsulTokenSecret ==
    /\ pc = "save"
    /\ secret' = fresh
    /\ RunEnds("ok")
    /\ UNCHANGED <<consulVars, faults>>

\* The secret is stored, but the run does not get to know.
SaveAnswerLost ==
    /\ pc = "save"
    /\ secret' = fresh
    /\ Fault
    /\ RunEnds("failed")
    /\ UNCHANGED consulVars

-----------------------------------------------------------------------------
Run ==
    \/ Start \/ GetSecret
    \/ LoadPolicyID \/ CreateOrUpdatePolicy \/ PolicyRefused
    \/ TokenUnknown \/ CheckRequiredPoliciesOnToken
    \/ ListTokens \/ DeleteToken
    \/ CreateConsulToken \/ NamesExhausted \/ SaveConsulTokenSecret

Faulty ==
    \/ RunFails \/ PolicyAnswerLost \/ DeleteFails \/ TokenAnswerLost
    \/ SaveAnswerLost

Next == Run \/ Faulty

Spec == Init /\ [][Next]_vars

\* Calls return and the job is run again; nothing is assumed of the faults.
FairSpec == Spec /\ WF_vars(Run)

-----------------------------------------------------------------------------
(* Properties *)

TypeOK ==
    /\ tok \in [Token -> {"unborn", "live", "deleted"}]
    /\ pols \in [Token -> SUBSET Policy]
    /\ policy \in [Policy -> {"absent", "old", "current"}]
    /\ secret \in Token \cup {NoToken}
    /\ pc \in {"idle", "secret", "load", "put", "check", "list", "delete",
               "token", "save"}
    /\ todo \subseteq Required
    /\ pc = "load" => todo # {}
    /\ found \in BOOLEAN
    /\ inHand \in Required
    /\ keep \in Token \cup {NoToken}
    /\ doomed \subseteq Token
    /\ pc = "delete" => doomed # {}
    /\ fresh \in Token \cup {NoToken}
    /\ pc = "save" => fresh \in Token
    /\ tries \in 0..Retries
    /\ outcome \in {"none", "ok", "failed"}
    /\ faults \in 0..MaxFaults

\* Config-server can work: the secret names a token that Consul knows and
\* that carries the required policies, with their current rules.
Usable == Good(secret) /\ \A p \in Required : policy[p] = "current"

\* A run that reports success has left config-server a usable token, however
\* many runs failed before it and wherever they stopped, and it stays usable
\* through all later runs.
SuccessMeansUsable == outcome = "ok" => Usable

\* Whatever a run does while a usable token is in place (it looks at the
\* policies again, calls get lost, it is killed), the token stays usable: the
\* clean-up of duplicates never reaches the token that is in use.
StaysUsable == [][Usable => Usable']_vars

\* The clean-up leaves the last token of the policy.
OneTokenRemains == [][Matching # {} => Matching' # {}]_vars

\* Tokens without the policy of the clean-up belong to others and are neither
\* deleted nor rewritten.
OthersSpared ==
    [][\A t \in Live : Duplicated \notin pols[t] =>
          tok'[t] = "live" /\ pols'[t] = pols[t]]_vars

\* What config-server has, as a task of the bootstrap job sees it.
Held == IF Usable THEN "token" ELSE "nothing"

\* No run gets past its look at a token that Consul has deleted, except the one
\* that deletes it and is about to replace it.
Stuck == /\ secret \notin Live \cup {NoToken}
         /\ pc \notin {"delete", "token", "save"}

\* What a task of the bootstrap job promises: here every deployment wishes a
\* usable token.
Task == INSTANCE BootstrapTask WITH
            Wishes <- {"token"}, Nothing <- "nothing", wish <- "token",
            held <- Held, running <- pc # "idle", stuck <- Stuck

\* The task keeps that promise: config-server has a usable token from the step
\* on that completes it (the last policy, the update of the token in use or the
\* new secret), however the run goes on, and success is reported only then.  It
\* gets stuck only where a run ends between the clean-up and the new secret.
ImplementsTask == Task!Spec

\* Once the faults are over config-server is given a usable token, wherever
\* earlier runs have stopped, unless the clean-up has deleted the token that
\* the secret names.
EventuallyMended == [](secret \in Live \cup {NoToken}) => <>[]Usable

\* consul_utils.go:306 announces "New token will be created" when the token
\* of the secret lacks a policy: then this holds without a condition.
EventuallyUsable == <>[]Usable
=============================================================================
