------------------------- MODULE ConsulTokenProofs -------------------------
(***************************************************************************)
(* Theorems about ConsulToken for every set of tokens and policies and     *)
(* every bound on the faults.                                              *)
(***************************************************************************)
EXTENDS ConsulToken, FiniteSetTheorems, TLAPS

USE DEF consulVars, runVars, vars

\* Required policies are policies, and the one of the clean-up is required.
LEMMA RequiredPolicies == Required \subseteq Policy /\ Duplicated \in Required
BY ConstantsAssumption DEF ConstantsAssumption

\* What earlier versions have left is of the right type.
LEMMA TypeInit == Init => TypeOK
<1> SUFFICES ASSUME Init PROVE TypeOK
  OBVIOUS
<1>1. /\ tok \in [Token -> {"unborn", "live", "deleted"}]
      /\ policy \in [Policy -> {"absent", "old", "current"}]
      /\ pols \in [Token -> SUBSET Policy]
      /\ secret \in Token \cup {NoToken}
  BY DEF Init, Live
<1>2. 0 \in 0..Retries /\ 0 \in 0..MaxFaults
  BY ConstantsAssumption DEF ConstantsAssumption
<1> QED
  BY <1>1, <1>2, RequiredPolicies DEF Init, TypeOK

\* A run that ends leaves nothing of itself behind.
LEMMA RunEndsType ==
    ASSUME TypeOK, NEW result \in {"none", "ok", "failed"}, RunEnds(result),
           tok' \in [Token -> {"unborn", "live", "deleted"}],
           pols' \in [Token -> SUBSET Policy],
           policy' \in [Policy -> {"absent", "old", "current"}],
           secret' \in Token \cup {NoToken},
           faults' \in 0..MaxFaults
    PROVE  TypeOK'
<1>1. 0 \in 0..Retries
  BY ConstantsAssumption DEF ConstantsAssumption
<1>2. /\ pc' = "idle" /\ todo' = {} /\ found' = FALSE /\ inHand' = Duplicated
      /\ keep' = NoToken /\ doomed' = {} /\ fresh' = NoToken /\ tries' = 0
      /\ outcome' = result
  BY DEF RunEnds
<1> QED
  BY <1>1, <1>2, RequiredPolicies DEF TypeOK

\* The bound on the faults is kept.
LEMMA FaultType == TypeOK /\ Fault => faults' \in 0..MaxFaults
BY ConstantsAssumption DEF ConstantsAssumption, TypeOK, Fault

\* Every step of a run and every fault keeps the types.
LEMMA TypeStep == TypeOK /\ [Next]_vars => TypeOK'
<1> SUFFICES ASSUME TypeOK, [Next]_vars PROVE TypeOK'
  OBVIOUS
<1>0. 0 \in 0..Retries /\ Required \subseteq Policy
  BY ConstantsAssumption DEF ConstantsAssumption
<1>1. CASE Start \/ GetSecret
  BY <1>0, <1>1, RequiredPolicies DEF Start, GetSecret, Goto, TypeOK
<1>2. CASE LoadPolicyID
  BY <1>0, <1>2 DEF LoadPolicyID, Goto, TypeOK
<1>3. CASE CreateOrUpdatePolicy
  BY <1>0, <1>3 DEF CreateOrUpdatePolicy, Goto, TypeOK
<1>4. CASE PolicyAnswerLost
  <2>1. tries' \in 0..Retries
    BY <1>4, ConstantsAssumption
    DEF PolicyAnswerLost, AnswerLost, TypeOK, ConstantsAssumption
  <2> QED
    BY <1>0, <1>4, <2>1, FaultType DEF PolicyAnswerLost, AnswerLost, TypeOK
<1>5. CASE PolicyRefused \/ TokenUnknown \/ NamesExhausted
  BY <1>5, RunEndsType DEF PolicyRefused, TokenUnknown, NamesExhausted, TypeOK
<1>6. CASE CheckRequiredPoliciesOnToken
  <2>1. CASE RunEnds("ok")
    BY <1>6, <2>1, RunEndsType DEF CheckRequiredPoliciesOnToken, TypeOK
  <2>2. CASE ~RunEnds("ok")
    BY <1>0, <1>6, <2>2 DEF CheckRequiredPoliciesOnToken, Goto, TypeOK
  <2> QED
    BY <2>1, <2>2
<1>7. CASE ListTokens
  <2>1. Matching \subseteq Token
    BY DEF Matching, Live
  <2> QED
    BY <1>0, <1>7, <2>1 DEF ListTokens, Goto, TypeOK
<1>8. CASE DeleteToken
  BY <1>0, <1>8 DEF DeleteToken, NextToDelete, Goto, TypeOK
<1>9. CASE DeleteFails
  BY <1>0, <1>9, FaultType DEF DeleteFails, NextToDelete, Goto, TypeOK
<1>10. CASE CreateConsulToken
  BY <1>0, <1>10 DEF CreateConsulToken, PutToken, Goto, TypeOK
<1>11. CASE TokenAnswerLost
  <2>1. tries' \in 0..Retries
    BY <1>11, ConstantsAssumption
    DEF TokenAnswerLost, AnswerLost, TypeOK, ConstantsAssumption
  <2> QED
    BY <1>0, <1>11, <2>1, FaultType
    DEF TokenAnswerLost, PutToken, AnswerLost, TypeOK
<1>12. CASE SaveConsulTokenSecret
  BY <1>12, RunEndsType DEF SaveConsulTokenSecret, TypeOK
<1>13. CASE SaveAnswerLost
  BY <1>13, RunEndsType, FaultType DEF SaveAnswerLost, TypeOK
<1>14. CASE RunFails
  BY <1>14, RunEndsType, FaultType DEF RunFails, TypeOK
<1>15. CASE UNCHANGED vars
  BY <1>15 DEF TypeOK
<1> QED
  BY <1>1, <1>2, <1>3, <1>4, <1>5, <1>6, <1>7, <1>8, <1>9, <1>10, <1>11,
     <1>12, <1>13, <1>14, <1>15
  DEF Next, Run, Faulty

\* The state of the tokens, of the secret and of the run keeps its types.
THEOREM TypeCorrect == Spec => []TypeOK
<1> QED
  BY TypeInit, TypeStep, PTL DEF Spec

-----------------------------------------------------------------------------
(***************************************************************************)
(* Safety.  A run comes to the clean-up only with a secret that is no      *)
(* good; it makes one token good and stores that one last.  So the secret  *)
(* is good before the last step only if the token made good was already in *)
(* it, and no step takes that token or a current policy away.              *)
(***************************************************************************)

\* The required policies that the run has dealt with are current.
PoliciesDone ==
    /\ pc = "load" => \A p \in Required \ todo : policy[p] = "current"
    /\ pc = "put" =>
          \A p \in Required : p \in todo \/ p = inHand \/ policy[p] = "current"
    /\ pc \in {"check", "list", "delete", "token", "save"} =>
          \A p \in Required : policy[p] = "current"

\* The run looks for another token only if that of the secret is no good.
NeedsToken ==
    /\ pc \in {"list", "delete"} => ~Good(secret)
    /\ pc = "token" /\ Good(secret) => keep = secret
    /\ pc = "save" => Good(fresh)

KeepsOne == pc = "delete" => keep \in Matching /\ keep \notin doomed

SecretBorn == secret \in Token => tok[secret] # "unborn"

IInv == /\ TypeOK
        /\ PoliciesDone
        /\ NeedsToken
        /\ KeepsOne
        /\ SecretBorn
        /\ SuccessMeansUsable

\* Before the first run nothing has been promised.
LEMMA InitIInv == Init => IInv
<1> SUFFICES ASSUME Init PROVE IInv
  OBVIOUS
<1>1. TypeOK
  BY TypeInit
<1>2. SecretBorn
  BY ConstantsAssumption DEF ConstantsAssumption, Init, Live, SecretBorn
<1> QED
  BY <1>1, <1>2
  DEF Init, IInv, PoliciesDone, NeedsToken, KeepsOne, SuccessMeansUsable

\* A run that ends, and one that begins, holds no obligations.
LEMMA Ended ==
    ASSUME IInv, TypeOK', pc' \in {"idle", "secret"},
           SecretBorn', outcome' = "ok" => Usable'
    PROVE  IInv'
BY DEF IInv, PoliciesDone, NeedsToken, KeepsOne, SuccessMeansUsable

\* A step that changes neither Consul nor the secret.
LEMMA StillUsable ==
    ASSUME UNCHANGED <<consulVars, secret>>
    PROVE  /\ Usable' = Usable
           /\ SecretBorn' = SecretBorn
           /\ Matching' = Matching
           /\ \A t : Good(t) <=> Good(t)'
BY DEF Usable, Good, Live, Matching, SecretBorn

\* A token that carries what is required carries the policy of the clean-up.
LEMMA PutTokenGood ==
    ASSUME IInv, NEW t \in Token, pc = "token", PutToken(t),
           UNCHANGED <<policy, secret>>
    PROVE  /\ Good(t)'
           /\ Usable => Usable'
           /\ SecretBorn'
           /\ Matching # {} => Matching' # {}
           /\ Good(secret)' => (keep = secret \/ Good(secret))
<1>1. /\ tok' = [tok EXCEPT ![t] = "live"]
      /\ pols' = [pols EXCEPT ![t] = Required]
      /\ tok \in [Token -> {"unborn", "live", "deleted"}]
      /\ pols \in [Token -> SUBSET Policy]
      /\ keep = NoToken => tok[t] = "unborn"
      /\ keep # NoToken => t = keep
  BY DEF PutToken, IInv, TypeOK
<1>2. tok'[t] = "live" /\ pols'[t] = Required
  BY <1>1
<1>3. \A u \in Token \ {t} : tok'[u] = tok[u] /\ pols'[u] = pols[u]
  BY <1>1
<1>4. Good(t)' /\ t \in Matching'
  BY <1>2, RequiredPolicies DEF Good, Live, Matching
<1>5. Good(secret) => Good(secret)'
  BY <1>2, <1>3 DEF Good, Live
<1>6. SecretBorn'
  BY <1>2, <1>3 DEF IInv, SecretBorn
<1>7. Good(secret)' => keep = secret \/ Good(secret)
  <2>1. CASE secret = t
    BY <1>1, <2>1 DEF IInv, SecretBorn
  <2>2. CASE secret # t
    BY <1>3, <2>2 DEF Good, Live
  <2> QED
    BY <2>1, <2>2
<1> QED
  BY <1>4, <1>5, <1>6, <1>7 DEF Usable

\* A policy is only ever brought up to date.
LEMMA PutPolicyUsable ==
    ASSUME IInv, policy' = [policy EXCEPT ![inHand] = "current"],
           UNCHANGED <<tok, pols, secret>>
    PROVE  /\ Usable => Usable'
           /\ SecretBorn'
           /\ Matching' = Matching
           /\ \A t : Good(t) <=> Good(t)'
           /\ \A p \in Required : policy[p] = "current" \/ p = inHand =>
                                     policy'[p] = "current"
<1>1. \A p \in Required : policy[p] = "current" \/ p = inHand =>
                             policy'[p] = "current"
  BY RequiredPolicies DEF IInv, TypeOK
<1> QED
  BY <1>1 DEF Usable, Good, Live, Matching, SecretBorn, IInv

\* Every step keeps the invariant, leaves a usable token usable and never
\* takes the last token of the policy.
LEMMA StepIInv ==
    IInv /\ [Next]_vars => /\ IInv'
                           /\ Usable => Usable'
                           /\ Matching # {} => Matching' # {}
<1> SUFFICES ASSUME IInv, [Next]_vars
             PROVE  IInv' /\ (Usable => Usable')
                          /\ (Matching # {} => Matching' # {})
  OBVIOUS
<1>0. TypeOK /\ TypeOK'
  BY TypeStep DEF IInv
<1>1. CASE Start \/ GetSecret
  BY <1>0, <1>1, StillUsable
  DEF Start, GetSecret, Goto, IInv, PoliciesDone, NeedsToken, KeepsOne,
      SuccessMeansUsable
<1>2. CASE LoadPolicyID
  BY <1>0, <1>2, StillUsable
  DEF LoadPolicyID, Goto, IInv, PoliciesDone, NeedsToken, KeepsOne,
      SuccessMeansUsable
<1>3. CASE CreateOrUpdatePolicy
  <2>1. ~Good(NoToken)
    BY ConstantsAssumption DEF ConstantsAssumption, Good, Live
  <2>2. /\ pc = "put" /\ policy' = [policy EXCEPT ![inHand] = "current"]
        /\ UNCHANGED <<tok, pols, secret, runVars, outcome>>
        /\ pc' = IF todo # {} THEN "load"
                 ELSE IF secret # NoToken THEN "check" ELSE "list"
    BY <1>3 DEF CreateOrUpdatePolicy, Goto
  <2>3. PoliciesDone'
    BY <2>2, PutPolicyUsable DEF IInv, PoliciesDone
  <2>4. NeedsToken' /\ KeepsOne' /\ SuccessMeansUsable'
    BY <2>1, <2>2, PutPolicyUsable
    DEF IInv, NeedsToken, KeepsOne, SuccessMeansUsable
  <2> QED
    BY <1>0, <2>2, <2>3, <2>4, PutPolicyUsable DEF IInv
<1>4. CASE PolicyAnswerLost
  <2>1. /\ pc = "put" /\ policy' = [policy EXCEPT ![inHand] = "current"]
        /\ UNCHANGED <<tok, pols, secret, runVars, outcome, pc>>
    BY <1>4 DEF PolicyAnswerLost, AnswerLost
  <2>2. PoliciesDone'
    BY <2>1, PutPolicyUsable DEF IInv, PoliciesDone
  <2>3. NeedsToken' /\ KeepsOne' /\ SuccessMeansUsable'
    BY <2>1, PutPolicyUsable DEF IInv, NeedsToken, KeepsOne, SuccessMeansUsable
  <2> QED
    BY <1>0, <2>1, <2>2, <2>3, PutPolicyUsable DEF IInv
<1>5. CASE PolicyRefused \/ TokenUnknown \/ NamesExhausted \/ RunFails
  <2>1. /\ pc' = "idle" /\ outcome' = "failed"
        /\ UNCHANGED <<consulVars, secret>>
    BY <1>5
    DEF PolicyRefused, TokenUnknown, NamesExhausted, RunFails, RunEnds
  <2>2. SecretBorn' /\ Usable' = Usable /\ Matching' = Matching
    BY <2>1, StillUsable DEF IInv
  <2> QED
    BY <1>0, <2>1, <2>2, Ended
<1>6. CASE CheckRequiredPoliciesOnToken
  <2>1. CASE Required \subseteq pols[secret]
    <3>1. Usable
      BY <1>6, <2>1
      DEF CheckRequiredPoliciesOnToken, IInv, PoliciesDone, Usable, Good
    <3> QED
      BY <1>0, <1>6, <2>1, <3>1, StillUsable, Ended
      DEF CheckRequiredPoliciesOnToken, RunEnds, IInv
  <2>2. CASE ~(Required \subseteq pols[secret])
    <3>1. ~Good(secret)
      BY <2>2 DEF Good
    <3> QED
      BY <1>0, <1>6, <2>2, <3>1, StillUsable
      DEF CheckRequiredPoliciesOnToken, Goto, IInv, PoliciesDone, NeedsToken,
          KeepsOne, SuccessMeansUsable
  <2> QED
    BY <2>1, <2>2
<1>7. CASE ListTokens
  <2>1. /\ pc = "list" /\ pc' = IF doomed' = {} THEN "token" ELSE "delete"
        /\ UNCHANGED <<consulVars, secret, outcome>>
        /\ doomed' # {} => keep' \in Matching /\ keep' \notin doomed'
    BY <1>7 DEF ListTokens, Goto
  <2> QED
    BY <1>0, <2>1, StillUsable
    DEF IInv, PoliciesDone, NeedsToken, KeepsOne, SuccessMeansUsable
<1>8. CASE DeleteToken
  <2>1. PICK t \in doomed : tok' = [tok EXCEPT ![t] = "deleted"]
                            /\ NextToDelete(t)
    BY <1>8 DEF DeleteToken
  <2>2. /\ pc = "delete" /\ pc' = IF doomed' = {} THEN "token" ELSE "delete"
        /\ doomed' = doomed \ {t}
        /\ UNCHANGED <<pols, policy, secret, keep, outcome>>
    BY <1>8, <2>1 DEF DeleteToken, NextToDelete, Goto
  <2>3. /\ t \in Token /\ tok \in [Token -> {"unborn", "live", "deleted"}]
        /\ tok'[t] = "deleted"
        /\ \A u \in Token \ {t} : tok'[u] = tok[u]
    BY <2>1 DEF IInv, TypeOK
  <2>4. ~Good(secret) /\ ~Good(secret)'
    BY <2>2, <2>3 DEF IInv, NeedsToken, Good, Live
  <2>5. keep \in Matching' /\ keep \notin doomed'
    BY <2>2, <2>3 DEF IInv, KeepsOne, Matching, Live
  <2>6. SecretBorn'
    BY <2>2, <2>3 DEF IInv, SecretBorn
  <2>7. SuccessMeansUsable'
    BY <2>2, <2>4 DEF IInv, SuccessMeansUsable, Usable
  <2>8. PoliciesDone' /\ NeedsToken' /\ KeepsOne'
    BY <2>2, <2>4, <2>5 DEF IInv, PoliciesDone, NeedsToken, KeepsOne
  <2> QED
    BY <1>0, <2>4, <2>5, <2>6, <2>7, <2>8 DEF IInv, Usable
<1>9. CASE DeleteFails
  <2>1. PICK t \in doomed : NextToDelete(t)
    BY <1>9 DEF DeleteFails
  <2>2. /\ pc = "delete" /\ pc' = IF doomed' = {} THEN "token" ELSE "delete"
        /\ doomed' = doomed \ {t}
        /\ UNCHANGED <<consulVars, secret, keep, outcome>>
    BY <1>9, <2>1 DEF DeleteFails, NextToDelete, Goto
  <2> QED
    BY <1>0, <2>2, StillUsable
    DEF IInv, PoliciesDone, NeedsToken, KeepsOne, SuccessMeansUsable
<1>10. CASE CreateConsulToken
  <2>1. PICK t \in Token : PutToken(t) /\ fresh' = t
    BY <1>10 DEF CreateConsulToken
  <2>2. pc = "token" /\ pc' = "save" /\ UNCHANGED <<policy, secret, outcome>>
    BY <1>10 DEF CreateConsulToken, Goto
  <2>3. /\ Good(t)'
        /\ Usable => Usable'
        /\ SecretBorn'
        /\ Matching # {} => Matching' # {}
    BY <2>1, <2>2, PutTokenGood
  <2>4. Good(fresh)'
    BY <2>1, <2>3 DEF Good, Live
  <2> QED
    BY <1>0, <2>2, <2>3, <2>4
    DEF IInv, PoliciesDone, NeedsToken, KeepsOne, SuccessMeansUsable
<1>11. CASE TokenAnswerLost
  <2>1. PICK t \in Token : PutToken(t)
    BY <1>11 DEF TokenAnswerLost
  <2>2. pc = "token" /\ UNCHANGED <<pc, policy, secret, keep, outcome>>
    BY <1>11 DEF TokenAnswerLost, AnswerLost
  <2> QED
    BY <1>0, <2>1, <2>2, PutTokenGood
    DEF IInv, PoliciesDone, NeedsToken, KeepsOne, SuccessMeansUsable
<1>12. CASE SaveConsulTokenSecret \/ SaveAnswerLost
  <2>1. /\ pc = "save" /\ secret' = fresh /\ pc' = "idle"
        /\ UNCHANGED consulVars
    BY <1>12 DEF SaveConsulTokenSecret, SaveAnswerLost, RunEnds
  <2>2. Good(secret)'
    BY <2>1 DEF IInv, NeedsToken, Good, Live
  <2>3. Usable'
    BY <2>1, <2>2 DEF IInv, PoliciesDone, Usable
  <2>4. SecretBorn'
    BY <2>2 DEF SecretBorn, Good, Live
  <2>5. Matching' = Matching
    BY <2>1 DEF Matching, Live
  <2> QED
    BY <1>0, <2>1, <2>3, <2>4, <2>5, Ended
<1>13. CASE UNCHANGED vars
  BY <1>0, <1>13, StillUsable
  DEF IInv, PoliciesDone, NeedsToken, KeepsOne, SuccessMeansUsable
<1> QED
  BY <1>1, <1>2, <1>3, <1>4, <1>5, <1>6, <1>7, <1>8, <1>9, <1>10, <1>11,
     <1>12, <1>13
  DEF Next, Run, Faulty

\* A run that reports success has left config-server a usable token, and later
\* runs keep it so: for any number of tokens, policies, runs and faults.
THEOREM Success == Spec => []SuccessMeansUsable
<1>1. IInv => SuccessMeansUsable
  BY DEF IInv
<1> QED
  BY <1>1, InitIInv, StepIInv, PTL DEF Spec

\* No step of any run spoils a usable token.
THEOREM Stays == Spec => StaysUsable
<1>1. IInv /\ [Next]_vars => [Usable => Usable']_vars
  BY StepIInv
<1> QED
  BY <1>1, InitIInv, StepIInv, PTL DEF Spec, StaysUsable

\* The clean-up never deletes the last token of its policy.
THEOREM OneRemains == Spec => OneTokenRemains
<1>1. IInv /\ [Next]_vars => [Matching # {} => Matching' # {}]_vars
  BY StepIInv
<1> QED
  BY <1>1, InitIInv, StepIInv, PTL DEF Spec, OneTokenRemains

-----------------------------------------------------------------------------
(* What belongs to others *)

\* The clean-up works on tokens of its policy: those it deletes and the one it
\* keeps.
OwnTokens ==
    /\ pc \in {"delete", "token"} => keep = NoToken \/ keep \in Matching
    /\ pc = "delete" => doomed \subseteq Matching

\* A step that leaves the tokens alone spares them, and what the clean-up has
\* in hand stays its own.
LEMMA SameTokens ==
    ASSUME OwnTokens, UNCHANGED <<tok, pols>>,
           \/ pc' \notin {"delete", "token"}
           \/ pc' = pc /\ UNCHANGED <<keep, doomed>>
    PROVE  OwnTokens'
BY DEF OwnTokens, Matching, Live

\* A step of a run keeps OwnTokens and touches no token of others.
LEMMA SpareStep ==
    IInv /\ OwnTokens /\ [Next]_vars =>
        /\ OwnTokens'
        /\ \A t \in Live : Duplicated \notin pols[t] =>
              tok'[t] = "live" /\ pols'[t] = pols[t]
<1> SUFFICES ASSUME IInv, OwnTokens, [Next]_vars
             PROVE  /\ OwnTokens'
                    /\ \A t \in Live : Duplicated \notin pols[t] =>
                          tok'[t] = "live" /\ pols'[t] = pols[t]
  OBVIOUS
<1>0. TypeOK /\ KeepsOne
  BY DEF IInv
<1>1. CASE UNCHANGED <<tok, pols>> /\ OwnTokens'
  BY <1>1 DEF Live
<1>2. CASE \/ Start \/ RunFails \/ GetSecret \/ LoadPolicyID
           \/ CreateOrUpdatePolicy \/ PolicyAnswerLost \/ PolicyRefused
           \/ TokenUnknown \/ CheckRequiredPoliciesOnToken \/ NamesExhausted
           \/ SaveConsulTokenSecret \/ SaveAnswerLost
  <2>1. UNCHANGED <<tok, pols>> /\ pc' \notin {"delete", "token"}
    BY <1>2 DEF Start, RunFails, GetSecret, LoadPolicyID, CreateOrUpdatePolicy,
       PolicyAnswerLost, AnswerLost, PolicyRefused, TokenUnknown,
       CheckRequiredPoliciesOnToken, NamesExhausted, SaveConsulTokenSecret,
       SaveAnswerLost, RunEnds, Goto, consulVars
  <2> QED
    BY <1>1, <2>1, SameTokens
<1>3. CASE ListTokens
  <2>1. /\ UNCHANGED <<tok, pols>>
        /\ \/ keep' = NoToken /\ doomed' = {}
           \/ keep' \in Matching /\ doomed' = Matching \ {keep'}
    BY <1>3 DEF ListTokens, consulVars
  <2>2. Matching' = Matching
    BY <2>1 DEF Matching, Live
  <2> QED
    BY <1>1, <2>1, <2>2 DEF OwnTokens
<1>4. CASE DeleteToken
  <2>1. PICK t \in doomed : /\ tok' = [tok EXCEPT ![t] = "deleted"]
                            /\ doomed' = doomed \ {t}
    BY <1>4 DEF DeleteToken, NextToDelete
  <2>2. pc = "delete" /\ UNCHANGED <<pols, keep>>
    BY <1>4 DEF DeleteToken
  <2>3. t \in Matching /\ keep \in Matching /\ keep # t
        /\ doomed \subseteq Matching
    BY <1>0, <2>1, <2>2 DEF OwnTokens, KeepsOne
  <2>4. Matching' = Matching \ {t}
    BY <1>0, <2>1, <2>2, <2>3 DEF Matching, Live, TypeOK
  <2>5. OwnTokens'
    BY <2>1, <2>2, <2>3, <2>4 DEF OwnTokens
  <2> QED
    BY <1>0, <2>1, <2>2, <2>3, <2>5 DEF Matching, Live, TypeOK
<1>5. CASE DeleteFails
  <2>1. /\ pc = "delete" /\ UNCHANGED <<tok, pols, keep>>
        /\ doomed' \subseteq doomed
    BY <1>5 DEF DeleteFails, NextToDelete, consulVars
  <2>2. Matching' = Matching
    BY <2>1 DEF Matching, Live
  <2>3. OwnTokens'
    BY <2>1, <2>2 DEF OwnTokens
  <2> QED
    BY <1>1, <2>1, <2>3
<1>6. CASE CreateConsulToken \/ TokenAnswerLost
  <2>1. /\ pc = "token" /\ keep' = keep
        /\ pc' \in {"token", "save"}
    BY <1>6 DEF CreateConsulToken, TokenAnswerLost, AnswerLost, Goto, runVars
  <2>2. PICK t \in Token : PutToken(t)
    BY <1>6 DEF CreateConsulToken, TokenAnswerLost
  <2>3. t \notin Live \/ t \in Matching
    BY <2>1, <2>2 DEF PutToken, OwnTokens, Live
  <2>4. keep \in Matching => keep \in Matching'
    BY <1>0, <2>2, RequiredPolicies DEF PutToken, Matching, Live, TypeOK
  <2>5. OwnTokens'
    BY <2>1, <2>4 DEF OwnTokens
  <2> QED
    BY <1>0, <2>2, <2>3, <2>5 DEF PutToken, Matching, Live, TypeOK
<1>7. CASE UNCHANGED vars
  BY <1>1, <1>7, SameTokens DEF vars, consulVars, runVars
<1> QED
  BY <1>2, <1>3, <1>4, <1>5, <1>6, <1>7 DEF Next, Run, Faulty

\* Whatever fails and wherever a run stops, tokens without the policy of the
\* clean-up are neither deleted nor rewritten.
THEOREM Spares == Spec => OthersSpared
<1>1. Init => OwnTokens
  BY DEF Init, OwnTokens
<1>2. IInv /\ OwnTokens /\ [Next]_vars => OwnTokens'
  BY SpareStep
<1>3. IInv /\ OwnTokens /\ [Next]_vars =>
          [\A t \in Live : Duplicated \notin pols[t] =>
              tok'[t] = "live" /\ pols'[t] = pols[t]]_vars
  BY SpareStep
<1> QED
  BY <1>1, <1>2, <1>3, InitIInv, StepIInv, PTL DEF Spec, OthersSpared

-----------------------------------------------------------------------------
(* What the task promises *)

\* A usable token is one that Consul knows.
LEMMA UsableIsLive == (Usable => ~Stuck) /\ (Usable' => ~Stuck')
BY DEF Usable, Good, Stuck

\* The steps of a run that only look at the tokens come first.
LEMMA LookFirst ==
    ASSUME Next
    PROVE  \/ /\ pc \in {"list", "delete", "token", "save"}
              /\ pc' \in {"delete", "token", "save", "idle"}
           \/ /\ pc \notin {"list", "delete", "token", "save"}
              /\ pc' \notin {"delete", "token", "save"}
              /\ UNCHANGED <<tok, secret>>
           \/ /\ RunFails
              /\ pc' = "idle"
              /\ UNCHANGED <<tok, secret>>
<1>1. CASE Start \/ GetSecret \/ LoadPolicyID \/ PolicyRefused \/ TokenUnknown
  BY <1>1 DEF Start, GetSecret, LoadPolicyID, PolicyRefused, TokenUnknown,
     RunEnds, Goto, consulVars
<1>2. CASE CreateOrUpdatePolicy \/ PolicyAnswerLost
  BY <1>2 DEF CreateOrUpdatePolicy, PolicyAnswerLost, AnswerLost, Goto
<1>3. CASE CheckRequiredPoliciesOnToken
  BY <1>3 DEF CheckRequiredPoliciesOnToken, RunEnds, Goto, consulVars
<1>4. CASE ListTokens \/ DeleteToken \/ DeleteFails
  BY <1>4 DEF ListTokens, DeleteToken, DeleteFails, NextToDelete, Goto
<1>5. CASE \/ CreateConsulToken \/ TokenAnswerLost \/ NamesExhausted
           \/ SaveConsulTokenSecret \/ SaveAnswerLost
  BY <1>5 DEF CreateConsulToken, TokenAnswerLost, AnswerLost, NamesExhausted,
     SaveConsulTokenSecret, SaveAnswerLost, RunEnds, Goto
<1>6. CASE RunFails
  BY <1>6 DEF RunFails, RunEnds, consulVars
<1> QED
  BY <1>1, <1>2, <1>3, <1>4, <1>5, <1>6 DEF Next, Run, Faulty

\* No run comes to the clean-up with a token that Consul has deleted.
ListWithLive == pc = "list" => secret \in Live \cup {NoToken}

\* The clean-up is entered from the look at the token, or without one.
LEMMA ListStep == ListWithLive /\ [Next]_vars => ListWithLive'
<1> SUFFICES ASSUME ListWithLive, [Next]_vars, pc' = "list"
             PROVE  secret' \in Live' \cup {NoToken}
  BY DEF ListWithLive
<1>1. CASE Next
  <2>1. UNCHANGED <<tok, secret>>
    BY <1>1, LookFirst
  <2>2. CreateOrUpdatePolicy \/ CheckRequiredPoliciesOnToken
    <3>1. ~(Start \/ GetSecret \/ LoadPolicyID \/ PolicyRefused
            \/ TokenUnknown \/ NamesExhausted \/ SaveConsulTokenSecret
            \/ SaveAnswerLost \/ RunFails)
      BY DEF Start, GetSecret, LoadPolicyID, PolicyRefused, TokenUnknown,
         NamesExhausted, SaveConsulTokenSecret, SaveAnswerLost, RunFails,
         RunEnds, Goto
    <3>2. ~(ListTokens \/ DeleteToken \/ DeleteFails \/ CreateConsulToken
            \/ TokenAnswerLost \/ PolicyAnswerLost)
      BY DEF ListTokens, DeleteToken, DeleteFails, NextToDelete,
         CreateConsulToken, TokenAnswerLost, PolicyAnswerLost, AnswerLost, Goto
    <3> QED
      BY <1>1, <3>1, <3>2 DEF Next, Run, Faulty
  <2>3. secret \in Live \cup {NoToken}
    BY <2>2 DEF CreateOrUpdatePolicy, CheckRequiredPoliciesOnToken, Goto
  <2> QED
    BY <2>1, <2>3 DEF Live
<1>2. CASE UNCHANGED vars
  BY <1>2 DEF ListWithLive, vars, consulVars, Live
<1> QED
  BY <1>1, <1>2

\* A run that is stuck stays so, and only by its end does one get stuck.
LEMMA StuckStep ==
    ASSUME ListWithLive, Next
    PROVE  /\ Stuck => Stuck'
           /\ pc' # "idle" => Stuck' = Stuck
           /\ Start => Stuck' = Stuck
<1>1. CASE UNCHANGED <<tok, secret>>
  <2>1. secret' = secret /\ Live' = Live
    BY <1>1 DEF Live
  <2> QED
    BY <2>1, LookFirst DEF ListWithLive, Stuck, RunFails, Start, Goto
<1>2. CASE /\ pc \in {"list", "delete", "token", "save"}
           /\ pc' \in {"delete", "token", "save", "idle"}
  BY <1>2 DEF ListWithLive, Stuck, Start
<1> QED
  BY <1>1, <1>2, LookFirst

\* A step that neither begins nor ends a run leaves config-server what it has,
\* or completes the token in use.
LEMMA InsideRefines ==
    ASSUME Usable => Usable', pc # "idle", pc' # "idle", outcome' = outcome,
           Stuck' = Stuck
    PROVE  [Task!Next]_Task!vars
<1>1. CASE Usable \/ ~Usable'
  BY <1>1 DEF Task!vars, Held
<1>2. CASE ~Usable /\ Usable'
  <2>1. Task!Fulfil
    BY <1>2, UsableIsLive DEF Task!Fulfil, Held
  <2> QED
    BY <2>1 DEF Task!Next
<1> QED
  BY <1>1, <1>2

\* A run that ends reports success only with a usable token in place.
LEMMA EndRefines ==
    ASSUME Usable => Usable', Stuck => Stuck', pc # "idle", pc' = "idle",
           \/ outcome' = "ok" /\ Usable'
           \/ outcome' = "failed"
    PROVE  [Task!Next]_Task!vars
<1>1. Held' \in IF Stuck THEN {Held} ELSE {Held, "token"}
  BY UsableIsLive DEF Held
<1>2. CASE outcome' = "ok" /\ Usable'
  <2>1. Stuck = FALSE /\ Stuck' = FALSE
    BY <1>2, UsableIsLive
  <2>2. Task!Succeed
    BY <1>2, <2>1 DEF Task!Succeed, Held
  <2> QED
    BY <2>2 DEF Task!Next
<1>3. CASE outcome' = "failed"
  <2>1. Stuck' \in IF Held' = "nothing" THEN {Stuck, TRUE} ELSE {Stuck}
    <3>1. CASE Usable'
      <4>1. Held' = "token" /\ Stuck' = FALSE /\ Stuck = FALSE
        BY <3>1, UsableIsLive DEF Held
      <4> QED
        BY <4>1
    <3>2. CASE ~Usable'
      <4>1. Held' = "nothing"
        BY <3>2 DEF Held
      <4>2. Stuck' = Stuck \/ Stuck' = TRUE
        BY DEF Stuck
      <4> QED
        BY <4>1, <4>2
    <3> QED
      BY <3>1, <3>2
  <2>2. Task!GiveUp
    BY <1>1, <1>3, <2>1 DEF Task!GiveUp
  <2> QED
    BY <2>2 DEF Task!Next
<1> QED
  BY <1>2, <1>3

\* Where the steps of a run lead.
LEMMA StepShape ==
    ASSUME Next
    PROVE  \/ Start
           \/ pc # "idle" /\ pc' # "idle" /\ outcome' = outcome
           \/ pc # "idle" /\ pc' = "idle" /\ outcome' \in {"ok", "failed"}
<1>1. CASE \/ PolicyRefused \/ TokenUnknown \/ NamesExhausted
           \/ SaveConsulTokenSecret \/ SaveAnswerLost \/ RunFails
  BY <1>1 DEF PolicyRefused, TokenUnknown, NamesExhausted,
     SaveConsulTokenSecret, SaveAnswerLost, RunFails, RunEnds
<1>2. CASE CheckRequiredPoliciesOnToken
  BY <1>2 DEF CheckRequiredPoliciesOnToken, RunEnds, Goto
<1>3. CASE \/ GetSecret \/ LoadPolicyID \/ CreateOrUpdatePolicy
           \/ PolicyAnswerLost \/ ListTokens
  BY <1>3 DEF GetSecret, LoadPolicyID, CreateOrUpdatePolicy,
     PolicyAnswerLost, AnswerLost, ListTokens, Goto
<1>4. CASE \/ DeleteToken \/ DeleteFails \/ CreateConsulToken
           \/ TokenAnswerLost
  BY <1>4 DEF DeleteToken, DeleteFails, NextToDelete, CreateConsulToken,
     TokenAnswerLost, AnswerLost, Goto
<1> QED
  BY <1>1, <1>2, <1>3, <1>4 DEF Next, Run, Faulty

\* Each step of the runs is a step that the promise allows.
LEMMA StepRefines ==
    IInv /\ ListWithLive /\ [Next]_vars => [Task!Next]_Task!vars
<1> SUFFICES ASSUME IInv, ListWithLive, [Next]_vars PROVE [Task!Next]_Task!vars
  OBVIOUS
<1>1. (Usable => Usable') /\ (outcome' = "ok" => Usable')
  BY StepIInv DEF IInv, SuccessMeansUsable
<1>2. CASE Start
  <2>1. /\ pc = "idle" /\ pc' = "secret" /\ outcome' = outcome
        /\ UNCHANGED <<consulVars, secret>>
    BY <1>2 DEF Start, Goto
  <2>2. Held' = Held
    BY <2>1, StillUsable DEF Held
  <2>3. Stuck' = Stuck
    BY <1>2, StuckStep DEF Next, Run
  <2>4. Task!Begin
    BY <2>1, <2>2, <2>3 DEF Task!Begin
  <2> QED
    BY <2>4 DEF Task!Next
<1>3. CASE Next /\ ~Start
  <2>1. (Stuck => Stuck') /\ (pc' # "idle" => Stuck' = Stuck)
    BY <1>3, StuckStep
  <2> QED
    BY <1>1, <1>3, <2>1, StepShape, InsideRefines, EndRefines DEF IInv
<1>4. CASE UNCHANGED vars
  <2>1. Held' = Held /\ Stuck' = Stuck
    BY <1>4, StillUsable DEF Held, Stuck, Live, vars, consulVars
  <2> QED
    BY <1>4, <2>1 DEF Task!vars
<1> QED
  BY <1>2, <1>3, <1>4

\* Config-server has a usable token from the step on that completes it, in
\* whichever run, and success is reported only then: for every set of tokens
\* and policies and any number of faults.
THEOREM Implements == Spec => ImplementsTask
<1>1. Init => Task!Init
  <2> SUFFICES ASSUME Init PROVE Task!Init
    OBVIOUS
  <2>1. pc = "idle" /\ outcome = "none"
    BY DEF Init
  <2>2. Held \in {"token"} \cup {"nothing"} /\ Stuck = FALSE
    BY DEF Held, Stuck, Init
  <2> QED
    BY <2>1, <2>2 DEF Task!Init
<1>2. IInv /\ [Next]_vars => IInv'
  BY StepIInv
<1>3. Init => ListWithLive
  BY DEF Init, ListWithLive
<1>4. ListWithLive /\ [Next]_vars => ListWithLive'
  BY ListStep
<1> QED
  BY <1>1, <1>2, <1>3, <1>4, InitIInv, StepRefines, PTL
  DEF Spec, ImplementsTask, Task!Spec

-----------------------------------------------------------------------------
(* How long a run takes *)

\* Calls that a run may still make, repeated ones not counted.
CallsLeft ==
    LET cleanup == Cardinality(Token) + 4
    IN CASE pc = "secret" -> 2 * Cardinality(Required) + cleanup + 1
         [] pc = "load" -> 2 * Cardinality(todo) + cleanup
         [] pc = "put" -> 2 * Cardinality(todo) + cleanup + 1
         [] pc = "check" -> cleanup
         [] pc = "list" -> Cardinality(Token) + 3
         [] pc = "delete" -> Cardinality(doomed) + 2
         [] pc = "token" -> 2
         [] pc = "save" -> 1
         [] OTHER -> 0

\* Subsets of finite sets, and what is left of them without an element.
LEMMA Subsets ==
    ASSUME NEW S, IsFiniteSet(S), NEW T \in SUBSET S
    PROVE  /\ Cardinality(S) \in Nat
           /\ IsFiniteSet(T)
           /\ Cardinality(T) \in Nat
           /\ Cardinality(T) <= Cardinality(S)
           /\ T # {} => Cardinality(T) > 0
           /\ \A x \in T : Cardinality(T \ {x}) = Cardinality(T) - 1
<1>1. IsFiniteSet(T) /\ Cardinality(T) <= Cardinality(S)
  BY FS_Subset
<1>2. Cardinality(S) \in Nat /\ Cardinality(T) \in Nat
  BY <1>1, FS_CardinalityType
<1>3. T # {} => Cardinality(T) # 0
  BY <1>1, FS_EmptySet
<1>4. \A x \in T : Cardinality(T \ {x}) = Cardinality(T) - 1
  BY <1>1, FS_RemoveElement
<1> QED
  BY <1>1, <1>2, <1>3, <1>4

\* Each answered call, and each that fails, brings the end of a run nearer.
LEMMA StepCloser ==
    ASSUME IsFiniteSet(Token), IsFiniteSet(Required), TypeOK, TypeOK',
           Next, pc # "idle", pc' # "idle"
    PROVE  /\ CallsLeft \in Nat /\ CallsLeft' \in Nat
           /\ \/ CallsLeft' < CallsLeft
              \/ CallsLeft' = CallsLeft /\ tries' \in (tries + 1)..Retries
<1> DEFINE t == Cardinality(Token)
           r == Cardinality(Required)
           m == Cardinality(todo)
           d == Cardinality(doomed)
<1>0. /\ t \in Nat /\ r \in Nat
      /\ m \in Nat /\ m <= r /\ m' \in Nat /\ m' <= r
      /\ d \in Nat /\ d <= t /\ d' \in Nat /\ d' <= t
      /\ IsFiniteSet(todo) /\ IsFiniteSet(doomed)
  BY Subsets DEF TypeOK
<1>a. CallsLeft \in Nat /\ CallsLeft' \in Nat
  <2>1. t' = t /\ r' = r
    OBVIOUS
  <2>2. CallsLeft \in Nat
    <3> HIDE DEF t, r, m, d
    <3> QED
      BY <1>0 DEF CallsLeft, t, r, m, d
  <2>3. CallsLeft' \in Nat
    <3> HIDE DEF t, r, m, d
    <3> QED
      BY <1>0 DEF CallsLeft, t, r, m, d
  <2> QED
    BY <2>2, <2>3
<1> SUFFICES \/ CallsLeft' < CallsLeft
             \/ CallsLeft' = CallsLeft /\ tries' \in (tries + 1)..Retries
  BY <1>a
<1>1. CASE GetSecret
  <2>1. pc = "secret" /\ pc' = "load" /\ m' = r
    BY <1>1 DEF GetSecret, Goto
  <2> HIDE DEF m
  <2> QED
    BY <1>0, <2>1 DEF CallsLeft, m
<1>2. CASE LoadPolicyID
  <2>1. pc = "load" /\ pc' = "put" /\ \E p \in todo : todo' = todo \ {p}
    BY <1>2 DEF LoadPolicyID, Goto
  <2>2. m' = m - 1
    BY <2>1, Subsets DEF TypeOK
  <2> HIDE DEF m
  <2> QED
    BY <1>0, <2>1, <2>2 DEF CallsLeft, m
<1>3. CASE CreateOrUpdatePolicy
  <2>1. pc = "put" /\ pc' \in {"load", "check", "list"} /\ todo' = todo
    BY <1>3 DEF CreateOrUpdatePolicy, Goto
  <2>2. m' = m
    BY <2>1
  <2> HIDE DEF m
  <2> QED
    BY <1>0, <2>1, <2>2 DEF CallsLeft, m
<1>4. CASE CheckRequiredPoliciesOnToken
  <2>1. pc = "check" /\ pc' = "list"
    BY <1>4 DEF CheckRequiredPoliciesOnToken, Goto, RunEnds
  <2> QED
    BY <1>0, <2>1 DEF CallsLeft
<1>5. CASE ListTokens
  <2>1. pc = "list" /\ pc' \in {"token", "delete"}
    BY <1>5 DEF ListTokens, Goto
  <2> HIDE DEF d
  <2> QED
    BY <1>0, <2>1 DEF CallsLeft, d
<1>6. CASE DeleteToken \/ DeleteFails
  <2>1. /\ pc = "delete" /\ doomed # {}
        /\ \E x \in doomed : doomed' = doomed \ {x}
        /\ pc' \in {"token", "delete"}
    BY <1>6 DEF DeleteToken, DeleteFails, NextToDelete, Goto, TypeOK
  <2>2. d' = d - 1 /\ d > 0
    BY <2>1, Subsets DEF TypeOK
  <2> HIDE DEF d
  <2> QED
    BY <1>0, <2>1, <2>2 DEF CallsLeft, d
<1>7. CASE CreateConsulToken
  BY <1>7 DEF CreateConsulToken, Goto, CallsLeft
<1>8. CASE PolicyAnswerLost \/ TokenAnswerLost
  <2>1. /\ pc \in {"put", "token"} /\ pc' = pc /\ todo' = todo
        /\ tries < Retries /\ tries' = tries + 1
    BY <1>8 DEF PolicyAnswerLost, TokenAnswerLost, AnswerLost, runVars
  <2>2. CallsLeft' = CallsLeft
    BY <2>1 DEF CallsLeft
  <2>3. tries' \in (tries + 1)..Retries
    BY <2>1, ConstantsAssumption DEF TypeOK, ConstantsAssumption
  <2> QED
    BY <2>2, <2>3
<1>9. ~(PolicyRefused \/ TokenUnknown \/ NamesExhausted \/ Start
          \/ SaveConsulTokenSecret \/ RunFails \/ SaveAnswerLost)
  BY DEF PolicyRefused, TokenUnknown, NamesExhausted, SaveConsulTokenSecret,
     RunFails, SaveAnswerLost, Start, RunEnds
<1> QED
  BY <1>1, <1>2, <1>3, <1>4, <1>5, <1>6, <1>7, <1>8, <1>9 DEF Next, Run, Faulty

\* A run makes at most two calls for each policy, one for each token and five
\* more, and sends each at most Retries times again, whatever it finds in
\* Consul and in the secret.
THEOREM RunsBounded ==
    IsFiniteSet(Token) /\ IsFiniteSet(Required) =>
        (Spec => [][pc # "idle" =>
                       \/ pc' = "idle"
                       \/ CallsLeft' \in 0..(CallsLeft - 1)
                       \/ /\ CallsLeft' = CallsLeft
                          /\ tries' \in (tries + 1)..Retries]_vars)
<1> SUFFICES ASSUME IsFiniteSet(Token), IsFiniteSet(Required)
             PROVE  Spec => [][pc # "idle" =>
                                  \/ pc' = "idle"
                                  \/ CallsLeft' \in 0..(CallsLeft - 1)
                                  \/ /\ CallsLeft' = CallsLeft
                                     /\ tries' \in (tries + 1)..Retries]_vars
  OBVIOUS
<1>1. TypeOK /\ TypeOK' /\ [Next]_vars =>
          [pc # "idle" => \/ pc' = "idle"
                          \/ CallsLeft' \in 0..(CallsLeft - 1)
                          \/ /\ CallsLeft' = CallsLeft
                             /\ tries' \in (tries + 1)..Retries]_vars
  <2> SUFFICES ASSUME TypeOK, TypeOK', Next, pc # "idle", pc' # "idle"
               PROVE  \/ CallsLeft' \in 0..(CallsLeft - 1)
                      \/ /\ CallsLeft' = CallsLeft
                         /\ tries' \in (tries + 1)..Retries
    OBVIOUS
  <2>1. /\ CallsLeft \in Nat /\ CallsLeft' \in Nat
        /\ \/ CallsLeft' < CallsLeft
           \/ CallsLeft' = CallsLeft /\ tries' \in (tries + 1)..Retries
    BY StepCloser
  <2> QED
    BY <2>1
<1> QED
  BY <1>1, TypeCorrect, PTL DEF Spec
=============================================================================
