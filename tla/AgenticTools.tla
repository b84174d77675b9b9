---------------------------- MODULE AgenticTools ----------------------------
(***************************************************************************)
(* The agentic tools of the addon: the switch of each tool in              *)
(* ir.config_parameter (utils/tool_toggles.py), the Settings form that     *)
(* edits the switches (models/res_config_settings.py), and the calls of    *)
(* tools (models/ai_tool_invocation.py), which reach the Trusteed backend  *)
(* through the API client with its one retry.                              *)
(*                                                                         *)
(* Workers of Odoo run the calls concurrently.  A request may be lost, may *)
(* be late (processed after the client has given it up), and the answer    *)
(* may be lost.  The admins' forms are open at the same time; a form shows *)
(* what was stored when it was opened.                                     *)
(***************************************************************************)
EXTENDS ApiClient

CONSTANTS
    Tool,       \* the tools of the instance, among Catalog
    Call,       \* the calls of tools
    Cart,       \* the checkout sessions that are paid for
    Admin,      \* those who edit the Settings form
    MaxSaves    \* bound on the saves of the form

Catalog == {"sign", "verify", "acp", "x402", "ap2"}

ASSUME ToolsAssumption == Tool \subseteq Catalog /\ MaxSaves \in Nat

VARIABLES
    param,    \* param[t]: the stored switch of tool t
    form,     \* form[a]: the form that admin a has open
    call,     \* call[i]: a call of a tool
    wire,     \* requests under way: <<call, attempt>>
    paid,     \* the requests that have made the backend take a payment
    saves,    \* how often the form has been saved
    choice    \* history: what an admin last chose for a tool

settings == <<param, form, saves, choice>>
vars == <<settings, call, wire, paid>>

(***************************************************************************)
(* A stored switch is absent, "0" (off) or one of "1" and "True" (on).  An *)
(* open form holds the ticked boxes as loaded, and whether another form    *)
(* has been saved since.  A call has made `attempt` requests; the agent    *)
(* names the cart, and gives it one idempotency key, also when it calls    *)
(* again after an error.                                                   *)
(***************************************************************************)
Stored == {"absent", "off", "on"}

Form == [open : BOOLEAN, ticks : SUBSET Tool, overtaken : BOOLEAN]

ToolCall ==
    [ stage : {"idle", "send", "wait", "ok", "failed", "refused"},
      tool : Tool, cart : Cart, attempt : 0..MaxRetries + 1 ]

Request == Call \X (1..MaxRetries + 1)

TypeOK ==
    /\ param \in [Tool -> Stored]
    /\ form \in [Admin -> Form]
    /\ call \in [Call -> ToolCall]
    /\ wire \in SUBSET Request
    /\ paid \in SUBSET Request
    /\ saves \in 0..MaxSaves
    /\ choice \in [Tool -> {"none", "on", "off"}]

Closed == [open |-> FALSE, ticks |-> {}, overtaken |-> FALSE]

-----------------------------------------------------------------------------
(* utils/tool_toggles.py. *)

\* TOGGLES: the switches that default to on.
DefaultOn == {"sign", "verify"}

\* PLANNED_TOOL_IDS: no backend is deployed.
Planned == {"sign", "ap2"}

\* Mutant of Coerce: Python's bool(), for which "0" is true.
CoerceBool(value, default) == IF value = "absent" THEN default ELSE TRUE

Coerce(value, default) == IF value = "absent" THEN default ELSE value = "on"

IsAvailable(t) == t \in Catalog \ Planned

IsEnabled(t) == IsAvailable(t) /\ Coerce(param[t], t \in DefaultOn)

\* Mutant of Seeded: the defaults are written over what is stored.
SeededAnew(t) == IF t \in DefaultOn THEN "on" ELSE "off"

\* seed_defaults: only absent switches are written.
Seeded(t) ==
    IF param[t] # "absent" THEN param[t]
    ELSE IF t \in DefaultOn THEN "on" ELSE "off"

Init ==
    /\ param = [t \in Tool |-> IF t \in DefaultOn THEN "on" ELSE "off"]
    /\ form = [a \in Admin |-> Closed]
    /\ call \in [Call -> [stage : {"idle"}, tool : Tool, cart : Cart,
                          attempt : {0}]]
    /\ wire = {} /\ paid = {}
    /\ saves = 0
    /\ choice = [t \in Tool |-> "none"]

\* post_init_hook, at an installation on a database with switches.
Reinstall ==
    /\ param' = [t \in Tool |-> Seeded(t)]
    /\ UNCHANGED <<form, saves, choice, call, wire, paid>>

-----------------------------------------------------------------------------
(***************************************************************************)
(* The Settings form.  What its fields do with their config_parameter is   *)
(* Odoo's res.config.settings, outside src/: default_get shows bool() of   *)
(* the stored string, so "0" as ticked, and the field's default if none is *)
(* stored; set_values stores "True" for a ticked box and deletes the       *)
(* parameter of one that is not.                                           *)
(***************************************************************************)
Loaded(t) == IF param[t] = "absent" THEN t \in DefaultOn ELSE TRUE

OpenForm(a) ==
    /\ ~form[a].open
    /\ form' = [form EXCEPT ![a] =
                   [open |-> TRUE, ticks |-> {t \in Tool : Loaded(t)},
                    overtaken |-> FALSE]]
    /\ UNCHANGED <<param, saves, choice, call, wire, paid>>

\* Admin a changes the boxes of `edited`, perhaps other fields, and saves: every
\* field is stored.
Save(a) ==
    /\ form[a].open /\ saves < MaxSaves
    /\ \E edited \in SUBSET Tool :
          LET ticks == (form[a].ticks \ edited) \cup (edited \ form[a].ticks) IN
          /\ param' = [t \in Tool |-> IF t \in ticks THEN "on" ELSE "absent"]
          /\ choice' = [t \in Tool |->
                          IF t \notin edited THEN choice[t]
                          ELSE IF t \in ticks THEN "on" ELSE "off"]
    /\ form' = [b \in Admin |->
                  IF b = a THEN Closed
                  ELSE [form[b] EXCEPT !.overtaken = form[b].open]]
    /\ saves' = saves + 1
    /\ UNCHANGED <<call, wire, paid>>

-----------------------------------------------------------------------------
(* models/ai_tool_invocation.py and the API client. *)

(***************************************************************************)
(* The tool is unavailable or switched off, or the call is not proper: an  *)
(* argument is missing, of the wrong type, or names another merchant than  *)
(* the configured one, or merchant id, credentials or a valid API base are *)
(* not configured.  The ACP rail refuses after the first checks, planned   *)
(* tools never get past them.                                              *)
(***************************************************************************)
Refused(t, proper) ==
    \/ ~IsEnabled(t)
    \/ ~proper
    \/ t = "acp"

\* An agent calls a tool.
Invoke(i) ==
    /\ call[i].stage = "idle"
    /\ \E proper \in BOOLEAN :
          call' = [call EXCEPT ![i].stage =
                      IF Refused(call[i].tool, proper) THEN "refused"
                      ELSE "send"]
    /\ UNCHANGED <<settings, wire, paid>>

\* Mutant of Send: the attempts are not counted.
SendUncounted(i) ==
    /\ call[i].stage = "send"
    /\ call' = [call EXCEPT ![i].stage = "wait"]
    /\ wire' = wire \cup {<<i, 1>>}
    /\ UNCHANGED <<settings, paid>>

\* The request of the next attempt goes out.
Send(i) ==
    /\ call[i].stage = "send"
    /\ call' = [call EXCEPT ![i].stage = "wait", ![i].attempt = @ + 1]
    /\ wire' = wire \cup {<<i, call[i].attempt + 1>>}
    /\ UNCHANGED <<settings, paid>>

\* How call i stands after its present attempt went so.
Attempted(i, answer) ==
    LET next == AfterAttempt(call[i].attempt, answer) IN
    [call EXCEPT ![i].stage = IF next = "retry" THEN "send" ELSE next]

\* The client gives up waiting, or loses the connection.
TimeOut(i) ==
    /\ call[i].stage = "wait"
    /\ call' = Attempted(i, NoAnswer)
    /\ UNCHANGED <<settings, wire, paid>>

\* Mutant of Keyed: the retry is sent with a key of its own.
KeyedFirst(r) == call[r[1]].tool = "x402" /\ r[2] = 1

\* The request carries the agent's idempotency key: both attempts of an x402
\* dispatch do, the verification of a signature has none.
Keyed(r) == call[r[1]].tool = "x402"

-----------------------------------------------------------------------------
(***************************************************************************)
(* The backend, outside src/.  It takes a payment once per idempotency key *)
(* and answers a repeated request with the stored result.  A payment it    *)
(* cannot take is answered with an error; a server error or an unreadable  *)
(* answer may come before or after the payment.                            *)
(***************************************************************************)

\* Mutant of SameCart: each call makes a key of its own.
SameCall(r, s) == r[1] = s[1]

\* Two requests carry the same key: the agent's, which is one per cart.
SameCart(r, s) == call[r[1]].cart = call[s[1]].cart

Known(r) == Keyed(r) /\ \E s \in paid : SameCart(r, s)

Pays(r, answer) ==
    /\ call[r[1]].tool = "x402" /\ ~Known(r)
    /\ answer \notin {"error4", "redirect"}

\* Request r is processed, and its answer reaches the client if that still
\* waits for it, or is lost; or the request is.  "ok", a 2xx, only answers a
\* payment that has been made.
Process(r) ==
    /\ r \in wire
    /\ wire' = wire \ {r}
    /\ \E answer \in Answer \cup {NoAnswer} :
          /\ \/ Pays(r, answer) /\ paid' = paid \cup {r}
             \/ /\ ~(Pays(r, answer) /\ answer = "ok")
                /\ UNCHANGED paid
          /\ IF /\ answer # NoAnswer
                /\ call[r[1]].stage = "wait" /\ call[r[1]].attempt = r[2]
             THEN call' = Attempted(r[1], answer)
             ELSE UNCHANGED call
    /\ UNCHANGED settings

-----------------------------------------------------------------------------
Next ==
    \/ Reinstall
    \/ \E a \in Admin : OpenForm(a) \/ Save(a)
    \/ \E i \in Call : Invoke(i) \/ Send(i) \/ TimeOut(i)
    \/ \E r \in wire : Process(r)

\* A worker goes on with its call, and the client's time-outs end its waits.
Fairness == \A i \in Call : WF_vars(Send(i) \/ TimeOut(i))

Spec == Init /\ [][Next]_vars /\ Fairness

-----------------------------------------------------------------------------
(***************************************************************************)
(* A cart is paid for once: through the retry of the client, the late and  *)
(* the lost requests, the repeated call of an agent that was told of an    *)
(* error, and two calls at the same time.                                  *)
(***************************************************************************)
PaidOnce == \A r, s \in paid : SameCart(r, s) => r = s

(***************************************************************************)
(* An agent that is told of success can rely on it: the cart is paid for,  *)
(* by this call or by another one with the same key.  (It assumes that the *)
(* backend, outside src/, sends a 2xx for a payment it knows and no other: *)
(* see Process.)                                                           *)
(***************************************************************************)
SuccessMeansPaid ==
    \A i \in Call :
        (call[i].tool = "x402" /\ call[i].stage = "ok")
            => \E r \in paid : call[r[1]].cart = call[i].cart

(***************************************************************************)
(* "Installing the addon [...] NEVER silently enables agent payments": no  *)
(* request for a payment leaves before the Settings form has been saved.   *)
(***************************************************************************)
InstallEnablesNoPayment ==
    saves = 0 => /\ paid = {}
                 /\ \A r \in wire : call[r[1]].tool \in DefaultOn

(***************************************************************************)
(* A tool that is switched on goes off only by an admin's choice, or when  *)
(* a form is saved that was opened before another one was saved.  An       *)
(* installation never changes what is on.                                  *)
(***************************************************************************)
OnlyChoiceOrStaleFormDisables ==
    [][\A t \in Tool :
          (IsEnabled(t) /\ ~IsEnabled(t)') =>
             \/ choice'[t] = "off"
             \/ \E a \in Admin : form[a].overtaken /\ ~form'[a].open]_vars

\* Every call of a tool ends: whatever the backend does, two attempts are all.
EveryCallEnds ==
    \A i \in Call :
        call[i].stage = "send" ~> call[i].stage \in {"ok", "failed"}

(***************************************************************************)
(* The tools implement the specification Payment: a cart is taken one      *)
(* payment, for a call that was let through, nothing is refunded or taken  *)
(* back, what a call was told is final, and it is told of success only     *)
(* when its cart is paid for.  The receipts of a cart are the requests     *)
(* that made the backend take a payment for it.                            *)
(***************************************************************************)
Owed == [i \in Call |-> IF call[i].tool = "x402" THEN {call[i].cart} ELSE {}]

Standing ==
    [i \in Call |-> IF call[i].stage \in {"send", "wait"} THEN "open"
                    ELSE call[i].stage]

Receipts == [c \in Cart |-> {r \in paid : call[r[1]].cart = c}]

Pay == INSTANCE Payment
         WITH Receipt <- Request, owes <- Owed, state <- Standing, taken <- Receipts

PaymentRefined == Pay!Spec

-----------------------------------------------------------------------------
(***************************************************************************)
(* Payment rails are opt-in: one is on only if an admin has ticked its box *)
(* (README.md, "opt-in: agent-initiated payment, you enable it yourself"). *)
(* The code does not do this: the seeded "0" is shown as ticked, and a     *)
(* save of the form for any other setting stores it.                       *)
(***************************************************************************)
PaymentsOptIn ==
    \A t \in Tool \ DefaultOn : IsEnabled(t) => choice[t] = "on"
=============================================================================
