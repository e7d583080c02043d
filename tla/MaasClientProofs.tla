-------------------------- MODULE MaasClientProofs --------------------------
(***************************************************************************)
(* Theorems about MaasClient for every set of passwords and every bound on *)
(* the faults.                                                             *)
(***************************************************************************)
EXTENDS MaasClient, TLAPS

\* The three kinds of credentials are told apart, and the bounds are numbers.
LEMMA Constants ==
    /\ None \notin Password
    /\ Stub \notin Password
    /\ Stub # None
    /\ 0 \in 0..Retries
    /\ 0 \in 0..MaxFaults
BY ConstantsAssumption DEF ConstantsAssumption

\* The bound on the faults is kept.
LEMMA FaultType == TypeOK /\ Fault => faults' \in 0..MaxFaults
BY ConstantsAssumption DEF ConstantsAssumption, TypeOK, Fault

\* A run that ends leaves nothing of itself behind.
LEMMA RunEndsType ==
    ASSUME TypeOK, NEW result \in {"ok", "failed"}, RunEnds(result),
           account' \in Password \cup {None},
           secret' \in Password \cup {None, Stub},
           enabled' \in BOOLEAN,
           faults' \in 0..MaxFaults
    PROVE  TypeOK'
BY Constants DEF TypeOK, RunEnds, Goto

\* A repeated request leaves the run where it is.
LEMMA AnswerLostType ==
    ASSUME TypeOK, AnswerLost,
           account' \in Password \cup {None},
           UNCHANGED <<secret, enabled, password, outcome>>
    PROVE  TypeOK'
<1>1. faults' \in 0..MaxFaults
  BY FaultType DEF AnswerLost
<1>2. tries' \in 0..Retries
  BY ConstantsAssumption DEF ConstantsAssumption, AnswerLost, TypeOK
<1> QED
  BY <1>1, <1>2 DEF TypeOK, AnswerLost

\* Every step keeps the types.
LEMMA TypeStep == TypeOK /\ [Next]_vars => TypeOK'
<1> SUFFICES ASSUME TypeOK, [Next]_vars PROVE TypeOK'
  OBVIOUS
<1> USE Constants
<1>1. CASE Start
  BY <1>1 DEF Start, Goto, TypeOK
<1>2. CASE SendMaaSConfig
  BY <1>2 DEF SendMaaSConfig, Goto, TypeOK
<1>3. CASE CreateStubSecret
  BY <1>3, RunEndsType DEF CreateStubSecret, TypeOK
<1>4. CASE GetExistingUsername
  <2>1. CASE RunEnds("ok")
    BY <1>4, <2>1, RunEndsType DEF GetExistingUsername, TypeOK
  <2>2. CASE Goto("delete") /\ password' \in Password /\ UNCHANGED outcome
    BY <1>4, <2>2 DEF GetExistingUsername, Goto, TypeOK
  <2> QED
    BY <1>4, <2>1, <2>2 DEF GetExistingUsername
<1>5. CASE DeleteAccount
  BY <1>5 DEF DeleteAccount, Goto, TypeOK
<1>6. CASE CreateAccount
  BY <1>6 DEF CreateAccount, Goto, TypeOK
<1>7. CASE CreateRefused
  BY <1>7, RunEndsType DEF CreateRefused, TypeOK
<1>8. CASE CreateMaasAgentSecret
  <2>1. password \in Password
    BY <1>8 DEF CreateMaasAgentSecret, TypeOK
  <2> QED
    BY <1>8, <2>1, RunEndsType DEF CreateMaasAgentSecret, TypeOK
<1>9. CASE RunFails
  BY <1>9, RunEndsType, FaultType DEF RunFails, TypeOK
<1>10. CASE DeleteRefused
  BY <1>10, FaultType DEF DeleteRefused, Goto, TypeOK
<1>11. CASE DeleteAnswerLost
  BY <1>11, AnswerLostType DEF DeleteAnswerLost, TypeOK
<1>12. CASE CreateAnswerLost
  <2>1. password \in Password
    BY <1>12 DEF CreateAnswerLost, TypeOK
  <2> QED
    BY <1>12, <2>1, AnswerLostType DEF CreateAnswerLost
<1>13. CASE SaveAnswerLost
  <2>1. secret' \in Password \cup {None, Stub}
    BY <1>13 DEF SaveAnswerLost, TypeOK
  <2> QED
    BY <1>13, <2>1, RunEndsType, FaultType DEF SaveAnswerLost, TypeOK
<1>14. CASE UNCHANGED vars
  BY <1>14 DEF vars, TypeOK
<1> QED
  BY <1>1, <1>2, <1>3, <1>4, <1>5, <1>6, <1>7, <1>8, <1>9, <1>10, <1>11,
     <1>12, <1>13, <1>14 DEF Next, Run, Faulty

\* A run that gets as far as MaaS's accounts has generated a password.
THEOREM TypeCorrect == Spec => []TypeOK
<1>1. Init => TypeOK
  BY Constants DEF Init, TypeOK
<1> QED
  BY <1>1, TypeStep, PTL DEF Spec

-----------------------------------------------------------------------------
\* A run touches the account only when the secret holds no credentials of the
\* agent, stores the password that MaaS has taken, and writes the stub only
\* with MaaS disabled.
RunsOnlyWithout ==
    /\ pc \in {"delete", "create", "save"} => secret \in {None, Stub}
    /\ pc = "save" => account = password
    /\ pc = "stub" => ~enabled

IInv == TypeOK /\ CredentialsWork /\ RunsOnlyWithout

\* What the runs find agrees with the secret.
LEMMA InitIInv == Init => IInv
BY Constants DEF Init, IInv, TypeOK, CredentialsWork, RunsOnlyWithout

\* Every step keeps the secret and the account in agreement.
LEMMA StepIInv == IInv /\ [Next]_vars => IInv'
<1> SUFFICES ASSUME IInv, [Next]_vars
             PROVE  CredentialsWork' /\ RunsOnlyWithout'
  BY TypeStep DEF IInv
<1> USE Constants DEF IInv, CredentialsWork, RunsOnlyWithout
<1>1. CASE Start
  BY <1>1 DEF Start, Goto
<1>2. CASE SendMaaSConfig
  BY <1>2 DEF SendMaaSConfig, Goto
<1>3. CASE CreateStubSecret
  BY <1>3 DEF CreateStubSecret, RunEnds, Goto
<1>4. CASE GetExistingUsername
  BY <1>4 DEF GetExistingUsername, RunEnds, Goto
<1>5. CASE DeleteAccount
  BY <1>5 DEF DeleteAccount, Goto
<1>6. CASE CreateAccount
  BY <1>6 DEF CreateAccount, Goto
<1>7. CASE CreateRefused
  BY <1>7 DEF CreateRefused, RunEnds, Goto
<1>8. CASE CreateMaasAgentSecret
  BY <1>8 DEF CreateMaasAgentSecret, RunEnds, Goto
<1>9. CASE RunFails
  BY <1>9 DEF RunFails, RunEnds, Goto
<1>10. CASE DeleteRefused
  BY <1>10 DEF DeleteRefused, Goto
<1>11. CASE DeleteAnswerLost \/ CreateAnswerLost
  BY <1>11 DEF DeleteAnswerLost, CreateAnswerLost, AnswerLost
<1>12. CASE SaveAnswerLost
  BY <1>12 DEF SaveAnswerLost, RunEnds, Goto
<1>13. CASE UNCHANGED vars
  BY <1>13 DEF vars
<1> QED
  BY <1>1, <1>2, <1>3, <1>4, <1>5, <1>6, <1>7, <1>8, <1>9, <1>10, <1>11,
     <1>12, <1>13 DEF Next, Run, Faulty

\* The invariant holds throughout.
LEMMA Invariant == Spec => []IInv
BY InitIInv, StepIInv, PTL DEF Spec

\* The agent's credentials are those MaaS knows, wherever runs have failed,
\* been killed or lost an answer.
THEOREM Credentials == Spec => []CredentialsWork
<1>1. IInv => CredentialsWork
  BY DEF IInv
<1> QED
  BY <1>1, Invariant, PTL

\* The runs of deployments with MaaS enabled leave working credentials alone.
THEOREM Stays == Spec => StaysRegistered
<1>1. IInv /\ [Next]_vars =>
        [enabled /\ secret \in Password =>
            secret' = secret /\ account' = account]_vars
  <2> SUFFICES ASSUME IInv, Next, enabled, secret \in Password
               PROVE  secret' = secret /\ account' = account
    OBVIOUS
  <2>1. pc \notin {"delete", "create", "save"}
    BY Constants DEF IInv, RunsOnlyWithout
  <2>2. pc # "stub"
    BY DEF IInv, RunsOnlyWithout
  <2> QED
    BY <2>1, <2>2 DEF Next, Run, Faulty, Start, SendMaaSConfig,
       CreateStubSecret, GetExistingUsername, DeleteAccount, CreateAccount,
       CreateRefused, CreateMaasAgentSecret, RunFails, DeleteRefused,
       DeleteAnswerLost, CreateAnswerLost, SaveAnswerLost
<1> QED
  BY <1>1, Invariant, PTL DEF Spec, StaysRegistered

-----------------------------------------------------------------------------
(* What the task promises *)

\* Only a deployment with MaaS enabled looks at the secret and the account.
OnlyEnabled == pc \in {"secret", "delete", "create", "save"} => enabled

\* Every step of a run keeps it.
LEMMA StepOnlyEnabled ==
    OnlyEnabled /\ [Next]_vars => OnlyEnabled'
BY DEF OnlyEnabled, vars, Next, Run, Faulty, Start, SendMaaSConfig,
   CreateStubSecret, GetExistingUsername, DeleteAccount, CreateAccount,
   CreateRefused, CreateMaasAgentSecret, RunFails, DeleteRefused,
   DeleteAnswerLost, CreateAnswerLost, SaveAnswerLost, AnswerLost, RunEnds,
   Goto

\* What the agent holds is one of three things, told apart by the secret.
LEMMA HeldIs ==
    IInv => /\ secret = Stub => Held = "stub"
            /\ secret = None => Held = "nothing"
            /\ secret \in Password => Held = "account"
BY Constants DEF IInv, CredentialsWork, Held

\* A step in the midst of a run leaves the agent what it has.
LEMMA StepInside ==
    ASSUME IInv,
           \/ SendMaaSConfig \/ DeleteAccount \/ CreateAccount
           \/ DeleteRefused \/ DeleteAnswerLost \/ CreateAnswerLost
           \/ GetExistingUsername /\ pc' # "idle"
    PROVE  UNCHANGED Task!vars
<1>1. UNCHANGED <<secret, enabled, outcome>>
  BY DEF SendMaaSConfig, DeleteAccount, CreateAccount, DeleteRefused,
     DeleteAnswerLost, CreateAnswerLost, GetExistingUsername, RunEnds, Goto
<1>2. pc # "idle" /\ pc' # "idle"
  BY DEF SendMaaSConfig, DeleteAccount, CreateAccount, DeleteRefused,
     DeleteAnswerLost, CreateAnswerLost, GetExistingUsername, AnswerLost, Goto
<1>3. secret \in Password => account' = account
  BY Constants DEF IInv, RunsOnlyWithout, SendMaaSConfig, DeleteAccount,
     CreateAccount, DeleteRefused, DeleteAnswerLost, CreateAnswerLost,
     GetExistingUsername
<1>4. Held' = Held
  BY <1>1, <1>3 DEF Held
<1> QED
  BY <1>1, <1>2, <1>4 DEF Task!vars, Wish

\* A run that ends has given the agent what its deployment wishes, or gives up
\* and leaves it what it has.
LEMMA StepEnds ==
    ASSUME IInv, IInv', OnlyEnabled,
           \/ CreateStubSecret \/ CreateRefused \/ CreateMaasAgentSecret
           \/ RunFails \/ SaveAnswerLost
           \/ GetExistingUsername /\ pc' = "idle"
    PROVE  Task!Succeed \/ Task!GiveUp
<1>1. pc # "idle" /\ pc' = "idle" /\ enabled' = enabled
  BY DEF CreateStubSecret, CreateRefused, CreateMaasAgentSecret, RunFails,
     SaveAnswerLost, GetExistingUsername, RunEnds, Goto
<1>2. Wish' = Wish
  BY <1>1 DEF Wish
<1>3. CASE CreateRefused \/ RunFails
  <2>1. UNCHANGED <<account, secret>> /\ outcome' = "failed"
    BY <1>3 DEF CreateRefused, RunFails, RunEnds
  <2>2. Held' = Held
    BY <2>1 DEF Held
  <2> QED
    BY <1>1, <1>2, <2>1, <2>2 DEF Task!GiveUp
<1>4. CASE GetExistingUsername /\ pc' = "idle"
  <2>1. /\ secret \in Password /\ UNCHANGED <<account, secret>>
        /\ outcome' = "ok" /\ enabled
    BY <1>4 DEF GetExistingUsername, RunEnds, Goto, IInv, TypeOK, OnlyEnabled
  <2>2. Held' = "account" /\ Wish = "account"
    BY <2>1, HeldIs DEF Held, Wish
  <2> QED
    BY <1>1, <1>2, <2>1, <2>2 DEF Task!Succeed
<1>5. CASE CreateStubSecret \/ CreateMaasAgentSecret \/ SaveAnswerLost
  <2>1. \/ pc = "stub" /\ secret' = Stub
        \/ pc = "save" /\ secret' = password
    BY <1>5 DEF CreateStubSecret, CreateMaasAgentSecret, SaveAnswerLost
  <2>2. Held' = Wish
    <3>1. CASE pc = "stub" /\ secret' = Stub
      BY <3>1 DEF IInv, RunsOnlyWithout, Wish, Held
    <3>2. CASE pc = "save" /\ secret' = password
      <4>1. secret' \in Password /\ account' = secret'
        BY <1>5, <3>2
        DEF CreateStubSecret, CreateMaasAgentSecret, SaveAnswerLost, IInv,
            TypeOK, RunsOnlyWithout
      <4> QED
        BY <3>2, <4>1, Constants DEF Held, Wish, OnlyEnabled
    <3> QED
      BY <2>1, <3>1, <3>2
  <2>3. outcome' \in {"ok", "failed"}
    BY <1>5
    DEF CreateStubSecret, CreateMaasAgentSecret, SaveAnswerLost, RunEnds
  <2> QED
    BY <1>1, <1>2, <2>2, <2>3 DEF Task!Succeed, Task!GiveUp
<1> QED
  BY <1>3, <1>4, <1>5

\* Each step of the runs is a step that the promise allows.
LEMMA StepRefines ==
    IInv /\ IInv' /\ OnlyEnabled /\ [Next]_vars => [Task!Next]_Task!vars
<1> SUFFICES ASSUME IInv, IInv', OnlyEnabled, [Next]_vars
             PROVE  [Task!Next]_Task!vars
  OBVIOUS
<1>1. CASE Start
  <2>1. /\ pc = "idle" /\ pc' = "config" /\ enabled' \in BOOLEAN
        /\ UNCHANGED <<account, secret, outcome>>
    BY <1>1 DEF Start, Goto
  <2>2. Held' = Held /\ Wish' \in {"account", "stub"}
    BY <2>1 DEF Held, Wish
  <2>3. Task!Begin
    BY <2>1, <2>2 DEF Task!Begin
  <2> QED
    BY <2>3 DEF Task!Next
<1>2. CASE UNCHANGED vars
  BY <1>2 DEF vars, Task!vars, Held, Wish
<1> QED
  BY <1>1, <1>2, StepInside, StepEnds DEF Next, Run, Faulty, Task!Next

\* The agent gets its account, or the stub, in the one step that completes it,
\* and a run that gives up takes nothing away: for every set of passwords.
THEOREM Implements == Spec => ImplementsTask
<1>1. Init => Task!Init
  <2> SUFFICES ASSUME Init PROVE Task!Init
    OBVIOUS
  <2>1. pc = "idle" /\ outcome = "none"
    BY DEF Init
  <2>2. Held \in {"account", "stub", "nothing"} /\ Wish \in {"account", "stub"}
    BY DEF Held, Wish
  <2> QED
    BY <2>1, <2>2 DEF Task!Init
<1>2. Init => OnlyEnabled
  BY DEF Init, OnlyEnabled
<1> QED
  BY <1>1, <1>2, InitIInv, StepIInv, StepOnlyEnabled, StepRefines, PTL
  DEF Spec, ImplementsTask, Task!Spec

-----------------------------------------------------------------------------
(* How long a run takes *)

\* Calls that a run may still make.
CallsLeft ==
    CASE pc = "config" -> 5
      [] pc = "secret" -> 4
      [] pc = "delete" -> 3
      [] pc = "create" -> 2
      [] pc \in {"save", "stub"} -> 1
      [] OTHER -> 0

\* A run makes five calls at most and sends each request at most Retries times
\* more: a lost answer puts it back to no earlier call, whatever MaaS has made
\* of the request.
THEOREM RunsBounded ==
    Spec => [][pc # "idle" =>
                  \/ CallsLeft' < CallsLeft
                  \/ /\ CallsLeft' = CallsLeft
                     /\ tries' \in (tries + 1)..Retries]_vars
<1>1. TypeOK /\ [Next]_vars =>
          [pc # "idle" =>
              \/ CallsLeft' < CallsLeft
              \/ /\ CallsLeft' = CallsLeft
                 /\ tries' \in (tries + 1)..Retries]_vars
  <2> SUFFICES ASSUME TypeOK, Next, pc # "idle"
               PROVE  \/ CallsLeft' < CallsLeft
                      \/ /\ CallsLeft' = CallsLeft
                         /\ tries' \in (tries + 1)..Retries
    OBVIOUS
  <2>1. CASE DeleteAnswerLost \/ CreateAnswerLost
    BY <2>1, ConstantsAssumption
       DEF DeleteAnswerLost, CreateAnswerLost, AnswerLost, CallsLeft, TypeOK,
           ConstantsAssumption
  <2>2. CASE pc' = "idle"
    BY <2>2 DEF CallsLeft, TypeOK
  <2>3. CASE \/ SendMaaSConfig \/ DeleteAccount \/ CreateAccount
             \/ DeleteRefused
    BY <2>3 DEF SendMaaSConfig, DeleteAccount, CreateAccount, DeleteRefused,
       Goto, CallsLeft
  <2>4. CASE GetExistingUsername
    BY <2>2, <2>4 DEF GetExistingUsername, RunEnds, Goto, CallsLeft
  <2>5. CASE \/ CreateStubSecret \/ CreateRefused \/ CreateMaasAgentSecret
             \/ RunFails \/ SaveAnswerLost
    BY <2>2, <2>5 DEF CreateStubSecret, CreateRefused, CreateMaasAgentSecret,
       RunFails, SaveAnswerLost, RunEnds, Goto
  <2> QED
    BY <2>1, <2>3, <2>4, <2>5 DEF Next, Run, Faulty, Start
<1> QED
  BY <1>1, TypeCorrect, PTL DEF Spec
=============================================================================
