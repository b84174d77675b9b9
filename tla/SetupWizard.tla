---------------------------- MODULE SetupWizard ----------------------------
(***************************************************************************)
(* The setup wizard (models/setup_wizard.py) and the connection part of    *)
(* the Settings form (models/res_config_settings.py), which write the      *)
(* parameters that the token endpoint reads.  Several administrators may   *)
(* have one or the other open.                                             *)
(*                                                                         *)
(* A call of a wizard is a transaction of its own.  All of them are short  *)
(* but the test of the connection, which waits for the relay: it sees the  *)
(* parameters as they were when it began, and its result is written when   *)
(* it ends.  The web client sends no further call of a wizard meanwhile.   *)
(***************************************************************************)
EXTENDS TokenEndpoint, Naturals

CONSTANTS
    Wizard,        \* the wizards, each with the session of its user
    Malformed,     \* what is pasted and is neither an id nor a secret
    Sessions,      \* the states of the users' sessions
    Stored,        \* the parameters that may be stored at first
    MaxSaves       \* bound on the saves

VARIABLES
    step,       \* step[w]: the field `state`
    typed,      \* typed[w]: merchant_id and bootstrap_secret
    result,     \* result[w]: test_success and what test_result says
    test,       \* test[w]: what the test under way has read and will answer
    fresh,      \* history: the secret in w was pasted after w's last save
    tested,     \* history: the parameters that w's last test has read, if any
    saved,      \* history: w has saved since that test
    saves       \* number of saves

wizardVars == <<step, typed, result, test, fresh, tested, saved>>
vars == <<params, wizardVars, saves>>

ASSUME WizardAssumption ==
    /\ Malformed \notin Merchant \cup Secret \cup {Unset}
    /\ Sessions \subseteq Session
    /\ Stored \subseteq Params
    /\ MaxSaves \in Nat

Step == {"welcome", "connect", "credentials", "test"}

Typed ==
    [ merchant : Merchant \cup {Unset, Malformed},
      secret : Secret \cup {Unset, Malformed} ]

\* An exception inside the endpoint is told as the error bootstrap_failed.
Raised == Refused("bootstrap_failed")

\* `not_saved`: the test found no merchant id, and did not call the endpoint.
Result ==
    [ success : BOOLEAN,
      text : Error \cup {"none", "successful", "not_saved", "bootstrap_failed"} ]

NoResult == [success |-> FALSE, text |-> "none"]

TypeOK ==
    /\ params \in Params
    /\ step \in [Wizard -> Step]
    /\ typed \in [Wizard -> Typed]
    /\ result \in [Wizard -> Result]
    /\ test \in [Wizard -> SUBSET [read : Params, answer : Answer \cup {Raised}]]
    /\ fresh \in [Wizard -> BOOLEAN]
    /\ tested \in [Wizard -> SUBSET Params]
    /\ saved \in [Wizard -> BOOLEAN]
    /\ saves \in 0..MaxSaves

Init ==
    /\ params \in Stored
    /\ step = [w \in Wizard |-> "welcome"]
    /\ typed = [w \in Wizard |-> [merchant |-> Unset, secret |-> Unset]]
    /\ result = [w \in Wizard |-> NoResult]
    /\ test = [w \in Wizard |-> {}]
    /\ fresh = [w \in Wizard |-> FALSE]
    /\ tested = [w \in Wizard |-> {}]
    /\ saved = [w \in Wizard |-> FALSE]
    /\ saves = 0

\* Wizard w shows step s and waits for its user.
At(w, s) == step[w] = s /\ test[w] = {}

Goto(w, s) == step' = [step EXCEPT ![w] = s]

-----------------------------------------------------------------------------
(* Moving between the steps. *)

\* action_next_welcome, for a member of trusteed.group_admin.
NextWelcome(w) ==
    /\ At(w, "welcome")
    /\ Goto(w, "connect")
    /\ UNCHANGED <<params, typed, result, test, fresh, tested, saved, saves>>

\* action_next_connect: the merchant id is filled in, the secret never is.
NextConnect(w) ==
    /\ At(w, "connect")
    /\ Goto(w, "credentials")
    /\ typed' = [typed EXCEPT ![w] = [merchant |-> params.merchant, secret |-> Unset]]
    /\ UNCHANGED <<params, result, test, fresh, tested, saved, saves>>

\* action_prev_credentials and action_prev_test: all the fields are kept.
Prev(w) ==
    /\ \/ At(w, "credentials") /\ Goto(w, "connect")
       \/ At(w, "test") /\ Goto(w, "credentials")
    /\ UNCHANGED <<params, typed, result, test, fresh, tested, saved, saves>>

(***************************************************************************)
(* The user edits the fields, and the web client stores the form before it *)
(* sends the next call.  The onchange clears the result in the browser     *)
(* only: the result fields are readonly, and the web client stores no such *)
(* field, so the record keeps its result.                                  *)
(***************************************************************************)
Paste(w) ==
    /\ At(w, "credentials")
    /\ \E t \in Typed :
        /\ t # typed[w]
        /\ typed' = [typed EXCEPT ![w] = t]
        /\ fresh' = [fresh EXCEPT ![w] = @ \/ t.secret # typed[w].secret]
    /\ UNCHANGED <<params, step, result, test, tested, saved, saves>>

-----------------------------------------------------------------------------
(* Saving. *)

\* Mutant of Forgotten: the secret stays in the wizard's record.
Remembered(t) == t

\* The secret is wiped from the wizard's record (F-010).
Forgotten(t) == [t EXCEPT !.secret = Unset]

\* Mutant of WellFormed: the form of the secret is not looked at.
NotBlank(t) == t.merchant \in Merchant /\ t.secret # Unset

\* What the fields must be: an id in the form of a UUID, 64 hex digits.
WellFormed(t) == t.merchant \in Merchant /\ t.secret \in Secret

\* Mutant of SaveCredentials: the result of an earlier test is kept.
SaveAndKeepResult(w) ==
    /\ At(w, "credentials")
    /\ saves < MaxSaves
    /\ WellFormed(typed[w])
    /\ params' = [params EXCEPT !.merchant = typed[w].merchant,
                                !.secret = typed[w].secret]
    /\ typed' = [typed EXCEPT ![w] = Forgotten(@)]
    /\ Goto(w, "test")
    /\ fresh' = [fresh EXCEPT ![w] = FALSE]
    /\ saved' = [saved EXCEPT ![w] = TRUE]
    /\ saves' = saves + 1
    /\ UNCHANGED <<result, test, tested>>

(***************************************************************************)
(* action_save_credentials.  A blank or malformed value is a UserError,    *)
(* which changes nothing.                                                  *)
(***************************************************************************)
SaveCredentials(w) ==
    /\ At(w, "credentials")
    /\ saves < MaxSaves
    /\ WellFormed(typed[w])
    /\ params' = [params EXCEPT !.merchant = typed[w].merchant,
                                !.secret = typed[w].secret]
    /\ typed' = [typed EXCEPT ![w] = Forgotten(@)]
    /\ Goto(w, "test")
    /\ result' = [result EXCEPT ![w] = NoResult]
    /\ fresh' = [fresh EXCEPT ![w] = FALSE]
    /\ saved' = [saved EXCEPT ![w] = TRUE]
    /\ saves' = saves + 1
    /\ UNCHANGED <<test, tested>>

(***************************************************************************)
(* set_values of a Settings form refuses a base that is not safe and an id *)
(* that is malformed; otherwise it stores every field, edited or not.  The *)
(* form may be of any age: any values may be stored.                       *)
(***************************************************************************)
SaveSettings ==
    /\ saves < MaxSaves
    /\ \E edited \in Params :
        /\ edited.base \in SafeBase
        /\ params' = edited
    /\ saves' = saves + 1
    /\ UNCHANGED wizardVars

-----------------------------------------------------------------------------
(* The test of the connection. *)

\* action_test_connection up to the answer of the endpoint.
StartTest(w) ==
    /\ At(w, "test")
    /\ params.merchant # Unset
    /\ \E session \in Sessions :
       \E answer \in ExchangeBootstrap(session) \cup {Raised} :
            test' = [test EXCEPT ![w] = {[read |-> params, answer |-> answer]}]
    /\ UNCHANGED <<params, step, typed, result, fresh, tested, saved, saves>>

\* Without a merchant id there is nothing to test.
TestUnsaved(w) ==
    /\ At(w, "test")
    /\ params.merchant = Unset
    /\ result' = [result EXCEPT ![w] = [success |-> FALSE, text |-> "not_saved"]]
    /\ UNCHANGED <<params, step, typed, test, fresh, tested, saved, saves>>

\* Mutant of Told: any answer counts as a success.
ToldAnswered(answer) == [success |-> TRUE, text |-> "successful"]

Told(answer) ==
    IF answer.success
    THEN [success |-> TRUE, text |-> "successful"]
    ELSE [success |-> FALSE, text |-> answer.error]

\* The result is written and the wizard shown again.
EndTest(w) ==
    /\ \E t \in test[w] :
        /\ result' = [result EXCEPT ![w] = Told(t.answer)]
        /\ tested' = [tested EXCEPT ![w] = {t.read}]
    /\ saved' = [saved EXCEPT ![w] = FALSE]
    /\ test' = [test EXCEPT ![w] = {}]
    /\ UNCHANGED <<params, step, typed, fresh, saves>>

\* action_finish leaves the wizard and opens the panel; no state changes.

Next ==
    \/ \E w \in Wizard :
        \/ NextWelcome(w) \/ NextConnect(w) \/ Prev(w) \/ Paste(w)
        \/ SaveCredentials(w)
        \/ StartTest(w) \/ TestUnsaved(w) \/ EndTest(w)
    \/ SaveSettings

Spec == Init /\ [][Next]_vars

-----------------------------------------------------------------------------
\* The parameters with which the endpoint may be granted a token.
Good(p) == <<p.merchant, p.secret>> \in Registered /\ p.base \in SafeBase

(***************************************************************************)
(* Test Passed is shown only for parameters that were good when the test   *)
(* read them, and the test began after the last save of this wizard: a     *)
(* result never survives the credentials it is about, on whatever way the  *)
(* user went back and forth.                                               *)
(***************************************************************************)
PassedIsEarned ==
    \A w \in Wizard :
        result[w].success => ~saved[w] /\ \E p \in tested[w] : Good(p)

(***************************************************************************)
(* A wizard only ever stores a secret that was pasted after its last save: *)
(* coming back to the step and saving again cannot put back an old secret  *)
(* over one that another administrator has stored since.                   *)
(***************************************************************************)
SecretIsPasted ==
    \A w \in Wizard : typed[w].secret # Unset => fresh[w]
=============================================================================
