------------------------- MODULE SetupWizardProofs -------------------------
(***************************************************************************)
(* Proofs about SetupWizard, for any number of wizards, any merchants,     *)
(* secrets and API bases, and any bound on the saves.                      *)
(***************************************************************************)
EXTENDS SetupWizard, TLAPS

\* A test that will succeed has read good parameters.
TestsOK ==
    \A w \in Wizard : \A t \in test[w] : t.answer.success => Good(t.read)

IInv == TypeOK /\ TestsOK /\ PassedIsEarned /\ SecretIsPasted

-----------------------------------------------------------------------------
\* The endpoint grants a token for good parameters only.
LEMMA Granting ==
    ASSUME params \in Params, NEW session,
           NEW answer \in ExchangeBootstrap(session) \cup {Raised}
    PROVE  /\ answer \in Answer \cup {Raised}
           /\ answer.success => Good(params)
  <1>1. CASE answer = Granted(params.base)
             /\ <<params.merchant, params.secret>> \in Registered
             /\ params.base \in SafeBase
    BY <1>1 DEF Answer, Good
  <1>2. CASE \E e \in Error : answer = Refused(e)
    <2>1. PICK e \in Error : answer = Refused(e)
      BY <1>2
    <2> QED BY <2>1 DEF Answer, Refused
  <1>3. CASE answer = Raised
    BY <1>3 DEF Raised, Refused
  <1>4. answer \in IssueToken => \/ answer = Refused("issue_token_rejected")
                                \/ /\ answer = Granted(params.base)
                                   /\ <<params.merchant, params.secret>> \in Registered
    BY DEF IssueToken
  <1>5. /\ "unauthorized" \in Error /\ "configure_module_first" \in Error
        /\ "invalid_api_base" \in Error /\ "company_mismatch" \in Error
        /\ "issue_token_rejected" \in Error
    BY DEF Error
  <1>6. CASE answer \in ExchangeBootstrap(session)
    BY <1>1, <1>2, <1>4, <1>5, <1>6 DEF ExchangeBootstrap
  <1> QED BY <1>3, <1>6

\* What is told of any answer.
LEMMA Telling ==
    ASSUME NEW answer \in Answer \cup {Raised}
    PROVE  /\ Told(answer) \in Result
           /\ Told(answer).success => answer.success
  <1>1. CASE answer.success
    BY <1>1 DEF Told, Result
  <1>2. CASE ~answer.success
    <2>1. answer.error \in Error \cup {"bootstrap_failed"}
      <3>1. CASE answer = Raised
        BY <3>1 DEF Raised, Refused
      <3>2. CASE \E base \in SafeBase : answer = Granted(base)
        BY <1>2, <3>2 DEF Granted
      <3>3. CASE \E e \in Error : answer = Refused(e)
        BY <3>3 DEF Refused
      <3> QED BY <3>1, <3>2, <3>3 DEF Answer
    <2> QED BY <1>2, <2>1 DEF Told, Result
  <1> QED BY <1>1, <1>2

LEMMA Initially == Init => IInv
  <1> SUFFICES ASSUME Init PROVE IInv
    OBVIOUS
  <1>1. NoResult \in Result /\ ~NoResult.success
    BY DEF NoResult, Result
  <1>2. [merchant |-> Unset, secret |-> Unset] \in Typed
    BY DEF Typed
  <1>3. TypeOK
    BY <1>1, <1>2, WizardAssumption DEF Init, TypeOK, Step
  <1>4. TestsOK /\ PassedIsEarned /\ SecretIsPasted
    BY <1>1 DEF Init, TestsOK, PassedIsEarned, SecretIsPasted
  <1> QED BY <1>3, <1>4 DEF IInv

\* A save leaves a wizard at its last step, without a secret and a result.
LEMMA Saving ==
    ASSUME TypeOK, NEW w \in Wizard, SaveCredentials(w)
    PROVE  /\ params' \in Params
           /\ typed' \in [Wizard -> Typed]
           /\ typed'[w].secret = Unset
           /\ \A v \in Wizard : v # w => typed'[v] = typed[v] /\ fresh'[v] = fresh[v]
           /\ result' = [result EXCEPT ![w] = NoResult]
           /\ saved' = [saved EXCEPT ![w] = TRUE]
           /\ UNCHANGED <<test, tested>>
  <1>1. typed \in [Wizard -> Typed] /\ fresh \in [Wizard -> BOOLEAN]
    BY DEF TypeOK
  <1>2. /\ typed' = [typed EXCEPT ![w] = Forgotten(typed[w])]
        /\ fresh' = [fresh EXCEPT ![w] = FALSE]
    BY DEF SaveCredentials
  <1>3. Forgotten(typed[w]) \in Typed /\ Forgotten(typed[w]).secret = Unset
    BY <1>1 DEF Forgotten, Typed
  <1>4. params' \in Params
    BY DEF SaveCredentials, WellFormed, TypeOK, Params
  <1> QED BY <1>1, <1>2, <1>3, <1>4 DEF SaveCredentials

LEMMA TypeStep == TypeOK /\ [Next]_vars => TypeOK'
  <1> SUFFICES ASSUME TypeOK, [Next]_vars PROVE TypeOK'
    OBVIOUS
  <1>0. NoResult \in Result
    BY DEF NoResult, Result
  <1>1. ASSUME NEW w \in Wizard, NextWelcome(w) \/ Prev(w) PROVE TypeOK'
    BY <1>1 DEF NextWelcome, Prev, Goto, TypeOK, Step
  <1>2. ASSUME NEW w \in Wizard, NextConnect(w) PROVE TypeOK'
    <2>1. [merchant |-> params.merchant, secret |-> Unset] \in Typed
      BY DEF TypeOK, Params, Typed
    <2> QED BY <1>2, <2>1 DEF NextConnect, Goto, TypeOK, Step
  <1>3. ASSUME NEW w \in Wizard, Paste(w) PROVE TypeOK'
    <2>1. PICK t \in Typed :
            /\ typed' = [typed EXCEPT ![w] = t]
            /\ fresh' = [fresh EXCEPT ![w] = fresh[w] \/ t.secret # typed[w].secret]
      BY <1>3 DEF Paste
    <2>2. typed' \in [Wizard -> Typed] /\ fresh' \in [Wizard -> BOOLEAN]
      BY <2>1 DEF TypeOK
    <2> QED BY <1>3, <2>2 DEF Paste, TypeOK
  <1>4. ASSUME NEW w \in Wizard, SaveCredentials(w) PROVE TypeOK'
    <2>1. saves' \in 0..MaxSaves
      BY <1>4, WizardAssumption DEF SaveCredentials, TypeOK
    <2> QED
      BY <1>0, <1>4, <2>1, Saving DEF SaveCredentials, Goto, TypeOK, Step
  <1>5. ASSUME NEW w \in Wizard, StartTest(w) PROVE TypeOK'
    <2>1. PICK session \in Sessions :
            \E answer \in ExchangeBootstrap(session) \cup {Raised} :
                test' = [test EXCEPT ![w] = {[read |-> params, answer |-> answer]}]
      BY <1>5 DEF StartTest
    <2>2. PICK answer \in ExchangeBootstrap(session) \cup {Raised} :
            test' = [test EXCEPT ![w] = {[read |-> params, answer |-> answer]}]
      BY <2>1
    <2>3. answer \in Answer \cup {Raised}
      BY Granting DEF TypeOK
    <2>4. test' \in [Wizard -> SUBSET [read : Params, answer : Answer \cup {Raised}]]
      BY <2>2, <2>3 DEF TypeOK
    <2> QED BY <1>5, <2>4 DEF StartTest, TypeOK
  <1>6. ASSUME NEW w \in Wizard, TestUnsaved(w) PROVE TypeOK'
    BY <1>6 DEF TestUnsaved, TypeOK, Result
  <1>7. ASSUME NEW w \in Wizard, EndTest(w) PROVE TypeOK'
    <2>1. PICK t \in test[w] : /\ result' = [result EXCEPT ![w] = Told(t.answer)]
                               /\ tested' = [tested EXCEPT ![w] = {t.read}]
      BY <1>7 DEF EndTest
    <2>2. t.read \in Params /\ t.answer \in Answer \cup {Raised}
      BY <2>1 DEF TypeOK
    <2>3. result' \in [Wizard -> Result] /\ tested' \in [Wizard -> SUBSET Params]
      BY <2>1, <2>2, Telling DEF TypeOK
    <2> QED BY <1>7, <2>3 DEF EndTest, TypeOK
  <1>8. CASE SaveSettings
    <2>1. saves' \in 0..MaxSaves
      BY <1>8, WizardAssumption DEF SaveSettings, TypeOK
    <2> QED BY <1>8, <2>1 DEF SaveSettings, TypeOK, wizardVars
  <1>9. CASE UNCHANGED vars
    BY <1>9 DEF vars, wizardVars, TypeOK
  <1> QED BY <1>1, <1>2, <1>3, <1>4, <1>5, <1>6, <1>7, <1>8, <1>9 DEF Next

LEMMA Inductive == IInv /\ [Next]_vars => IInv'
  <1> SUFFICES ASSUME IInv, [Next]_vars PROVE IInv'
    OBVIOUS
  <1> USE DEF IInv
  <1>0. TypeOK'
    BY TypeStep
  <1>1. ASSUME UNCHANGED test PROVE TestsOK'
    BY <1>1 DEF TestsOK
  <1>2. ASSUME UNCHANGED <<result, saved, tested>> PROVE PassedIsEarned'
    BY <1>2 DEF PassedIsEarned
  <1>3. ASSUME UNCHANGED <<typed, fresh>> PROVE SecretIsPasted'
    BY <1>3 DEF SecretIsPasted
  <1>4. ASSUME NEW w \in Wizard, NextWelcome(w) \/ Prev(w) PROVE IInv'
    BY <1>0, <1>1, <1>2, <1>3, <1>4 DEF NextWelcome, Prev
  <1>5. ASSUME NEW w \in Wizard, NextConnect(w) PROVE IInv'
    <2>1. SecretIsPasted'
      BY <1>5 DEF NextConnect, TypeOK, SecretIsPasted
    <2> QED BY <1>0, <1>1, <1>2, <1>5, <2>1 DEF NextConnect
  <1>6. ASSUME NEW w \in Wizard, Paste(w) PROVE IInv'
    <2>1. PICK t \in Typed :
            /\ typed' = [typed EXCEPT ![w] = t]
            /\ fresh' = [fresh EXCEPT ![w] = fresh[w] \/ t.secret # typed[w].secret]
      BY <1>6 DEF Paste
    <2>2. ASSUME NEW v \in Wizard, typed'[v].secret # Unset PROVE fresh'[v]
      <3>1. CASE v # w
        BY <2>1, <2>2, <3>1 DEF TypeOK, SecretIsPasted
      <3>2. CASE v = w /\ t.secret = typed[w].secret
        <4>1. typed[w].secret # Unset
          BY <2>1, <2>2, <3>2 DEF TypeOK
        <4>2. fresh[w]
          BY <4>1 DEF SecretIsPasted
        <4> QED BY <2>1, <3>2, <4>2 DEF TypeOK
      <3>3. CASE v = w /\ t.secret # typed[w].secret
        BY <2>1, <3>3 DEF TypeOK
      <3> QED BY <3>1, <3>2, <3>3
    <2>3. SecretIsPasted'
      BY <2>2 DEF SecretIsPasted
    <2> QED BY <1>0, <1>1, <1>2, <1>6, <2>3 DEF Paste
  <1>7. ASSUME NEW w \in Wizard, SaveCredentials(w) PROVE IInv'
    <2>1. SecretIsPasted'
      BY <1>7, Saving DEF SecretIsPasted
    <2>2. PassedIsEarned'
      BY <1>7, Saving DEF PassedIsEarned, TypeOK, NoResult
    <2> QED BY <1>0, <1>1, <1>7, <2>1, <2>2, Saving
  <1>8. ASSUME NEW w \in Wizard, StartTest(w) PROVE IInv'
    <2>1. PICK session \in Sessions :
            \E answer \in ExchangeBootstrap(session) \cup {Raised} :
                test' = [test EXCEPT ![w] = {[read |-> params, answer |-> answer]}]
      BY <1>8 DEF StartTest
    <2>2. PICK answer \in ExchangeBootstrap(session) \cup {Raised} :
            test' = [test EXCEPT ![w] = {[read |-> params, answer |-> answer]}]
      BY <2>1
    <2>3. answer.success => Good(params)
      BY Granting DEF TypeOK
    <2>4. TestsOK'
      BY <2>2, <2>3 DEF TypeOK, TestsOK, Good
    <2> QED BY <1>0, <1>2, <1>3, <1>8, <2>4 DEF StartTest
  <1>9. ASSUME NEW w \in Wizard, TestUnsaved(w) PROVE IInv'
    <2>1. PassedIsEarned'
      BY <1>9 DEF TestUnsaved, PassedIsEarned, TypeOK
    <2> QED BY <1>0, <1>1, <1>3, <1>9, <2>1 DEF TestUnsaved
  <1>10. ASSUME NEW w \in Wizard, EndTest(w) PROVE IInv'
    <2>1. PICK t \in test[w] : /\ result' = [result EXCEPT ![w] = Told(t.answer)]
                               /\ tested' = [tested EXCEPT ![w] = {t.read}]
      BY <1>10 DEF EndTest
    <2>2. t.answer \in Answer \cup {Raised} /\ (t.answer.success => Good(t.read))
      BY <2>1 DEF TypeOK, TestsOK
    <2>3. Told(t.answer).success => Good(t.read)
      BY <2>2, Telling
    <2>4. test' = [test EXCEPT ![w] = {}] /\ saved' = [saved EXCEPT ![w] = FALSE]
      BY <1>10 DEF EndTest
    <2>5. TestsOK'
      BY <2>4 DEF TypeOK, TestsOK, Good
    <2>6. ASSUME NEW v \in Wizard, result'[v].success
          PROVE  ~saved'[v] /\ \E p \in tested'[v] : Good(p)
      <3>1. CASE v # w
        BY <2>1, <2>4, <2>6, <3>1 DEF TypeOK, PassedIsEarned
      <3>2. CASE v = w
        BY <2>1, <2>3, <2>4, <2>6, <3>2 DEF TypeOK
      <3> QED BY <3>1, <3>2
    <2>7. PassedIsEarned'
      BY <2>6 DEF PassedIsEarned, Good
    <2> QED BY <1>0, <1>3, <1>10, <2>5, <2>7 DEF EndTest
  <1>11. CASE SaveSettings
    BY <1>0, <1>1, <1>2, <1>3, <1>11 DEF SaveSettings, wizardVars
  <1>12. CASE UNCHANGED vars
    BY <1>0, <1>1, <1>2, <1>3, <1>12 DEF vars, wizardVars
  <1> QED
    BY <1>4, <1>5, <1>6, <1>7, <1>8, <1>9, <1>10, <1>11, <1>12 DEF Next

LEMMA Invariant == Spec => []IInv
  <1>1. Init => IInv
    BY Initially
  <1>2. IInv /\ [Next]_vars => IInv'
    BY Inductive
  <1> QED BY <1>1, <1>2, PTL DEF Spec

-----------------------------------------------------------------------------
\* The variables have their types.
THEOREM TypeCorrect == Spec => []TypeOK
  <1>1. IInv => TypeOK
    BY DEF IInv
  <1> QED BY <1>1, Invariant, PTL

\* Test Passed is about parameters that were good, and newer than the last
\* save of the wizard (action_save_credentials, action_test_connection).
THEOREM Earned == Spec => []PassedIsEarned
  <1>1. IInv => PassedIsEarned
    BY DEF IInv
  <1> QED BY <1>1, Invariant, PTL

\* A wizard holds no secret that it has saved before (action_save_credentials,
\* action_next_connect).
THEOREM Pasted == Spec => []SecretIsPasted
  <1>1. IInv => SecretIsPasted
    BY DEF IInv
  <1> QED BY <1>1, Invariant, PTL
=============================================================================
