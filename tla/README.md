# TLA+ models of the Trusteed Odoo addon

This directory holds TLA+ specifications of the Odoo 18 addon *Trusteed Trust
Center*, the TLC configurations that model-check them on small instances, and
theorems about them that TLAPS proves for all instances. `PROJECT.json` maps
every definition to the lines it models and lists the runs, the mutants that
show each property can fail, the disagreements between the code and its
documentation, the hazards and the theorems.

To run one check: `tlc -workers 2 -config Enforcement.cfg MCEnforcement`; to
check the proofs of a module: `tlapm EnforcementProofs.tla`.

## 1. The system

The addon sits between an Odoo shop and the Trusteed backend. It decides at
checkout whether an order, often placed by an AI agent with a signed token, may
be confirmed; it offers tools that agents call, among them payments; it reports
order events and signs invoice receipts; and it embeds a panel in the back
office. The backend, Odoo's ORM and PostgreSQL are outside `src/`; they are
modelled from how the code uses them (`"external": true` in the map).

| component | state | operations | correct when |
|---|---|---|---|
| **Token verifier** `models/enforcement_token_verifier.py` | `_NONCE_CACHE`, one per process | `verify_agent_token` | a token is accepted once by a process, as far as the nonce's time to live reaches; only its signer uses a nonce up |
| **Checkout enforcement** `models/sale_order_enforcement.py` | the order's state and agent DID, in a database transaction | overrides of `action_confirm`, `write`, `create` | a jti consumed under strict confirms in one call only; kill-switch and universal rules hold on each path, the limits on size also in an outage; a refused call leaves nothing |
| **Nonce-consume client** `models/nonce_consumer.py` | the backend's record of jtis | `consume_nonce` | ACCEPTED once per jti, lost answers included |
| **Company map** `models/enforcement_company_map.py` | one record per company | `get_for_company` | the configured fallback decides |
| **Snapshot cache** `models/enforcement_snapshot.py`, `data/cron.xml` | `_SNAPSHOT_CACHE`, `_JWKS_CACHE`, per process | `pull_snapshot`, key set refresh, cron | nothing unverified is used; a rule change arrives in time; the process catches up |
| **Offline safety valve** `models/offline_safety_valve_evaluator.py` and `_trusteed_offline_context` | none; a loop over rules | `evaluate` | the first rule that fires is reported; what cannot be read of an order only loosens the rules, and never the limits on size |
| **API client** `models/api_client.py` | attempt counter of a call | `_request_with_retry` | ends; success is never invented |
| **Agentic tools and switches** `models/ai_tool_invocation.py`, `utils/tool_toggles.py`, `models/res_config_settings.py`, `hooks.py` | `ir.config_parameter` switches, open forms | `run_*` tools, Settings form, seeding | a cart is paid once; no payment without opt-in |
| Order events `models/stock_picking_fulfillment.py`, `models/account_move_refund_proxy.py` | - | hooks on pickings and refunds | one event per thing that happened |
| **Invoice receipts** `models/account_move_jws.py` | attachments, in a database transaction | override of `action_post` | an invoice has one receipt at most; posting ends, whatever the relay does |
| **Admin panel** `static/src/js/trusteed_panel.js` | tracked company, toast, timer of each component | mount, company switch, timer, unmount | no timer is lost, no switch during a toast; an SPA mounted in order is that of the company tracked |
| **Bundle** `static/src/js/admin-spa.js` | API client, React roots, query cache, per page | `TrusteedEmbed.mount`, render, requests | a token only goes to the API that minted it; loading ends |
| **Token endpoint** `controllers/main.py` | none; reads the connection parameters | `/trusteed/token` | a token for members of the group only, from the stored API |
| **Setup wizard** `models/setup_wizard.py` | wizard record, stored credentials | steps, save, connection test | a passed test is about good credentials; no old secret comes back |
| Capabilities reporter, cart signals, agent history, R043 gate, SSRF guard, SaaS detection, views, scripts | - | - | sequential or pure |

How they interact: an order confirmation (enforcement) asks the snapshot cache for
the rules (a request when the entry has expired), calls the verifier (no I/O),
then the nonce-consume client and the Layer-2 rules service (one request each),
and falls back on the offline valve when the latter does not answer. The cron
refreshes the snapshot cache in the background. The tools read their switch, then
use the API client. The panel asks the token endpoint for a token and hands it to
the bundle, which keeps one client for the whole page; the setup wizard calls the
same endpoint in process, and wizard and Settings form write the parameters that
it reads. On the server, everything runs in Odoo workers: several processes,
several threads in each, one transaction per call, no lock in the addon's own
code. In the browser, one callback runs at a time, and callbacks follow each other
in any order.

What is hard about it: requests are the points where other workers, the cron, or
the backend's changes come in between; answers get lost after the backend has
acted; a transaction is rolled back, or run again by Odoo's RPC layer, after the
backend has acted; a process and its caches die; a confirmation runs the gate
twice; the clock's boundaries (nonce, token window, snapshot lifetime, business
hours); three conventions for a stored switch; and extractions that swallow
exceptions half-way; and, in the browser, awaits and timers that outlive the
component, company or parameters they were started for. `PROJECT.json` lists each
of these as a hazard at its line, with the properties that cover it.

## 2. Modules

| module | models | extends |
|---|---|---|
| `AgentTokens` | tokens, `verify_agent_token` as operators on a token, a clock and a nonce cache | |
| `TokenVerifier` | one process over time: presentations, clock, restarts | `AgentTokens` |
| `Enforcement` | the gate on all entry paths, with ORM transactions, nonce-consume, Layer 2, several workers and processes | `AgentTokens` |
| `SnapshotCache` | concurrent pulls of one merchant's snapshot, key rotation, outages | |
| `SafetyValve` | context extraction and rule evaluation of one order in an outage | |
| `ApiClient` | `_request_with_retry` as a function of the attempt and its outcome | |
| `AgenticTools` | tool calls, lossy and late requests, the switches and their form | `ApiClient` |
| `Payment` | abstract: what the payment tools promise; implemented by `AgenticTools` | |
| `Redemption` | abstract: what checkout enforcement promises about single-use tokens; implemented by `Enforcement` | |
| `InvoiceReceipts` | `action_post` with the attachment of receipts, concurrent transactions | |
| `TokenEndpoint` | `/trusteed/token` as the set of its answers | |
| `EmbedBundle` | what the bundle keeps: API client, roots, query cache | |
| `TrusteedPanel` | the panel component with endpoint and bundle | `EmbedBundle`, instance of `TokenEndpoint` |
| `SetupWizard` | wizards, Settings form and connection test over one set of parameters | `TokenEndpoint` |
| `MC*` | the small instances | the module named |
| `*Proofs` | theorems about the module named | |

`Enforcement` composes the verifier and the nonce-consume client with the gate.
It sees the snapshot cache as `policy[c]`, what `get_snapshot` returns in a
company at that moment (any value of `Policy`, or none, changing at any time),
and the rules as two sets of orders in it: `blocks`, those that the rules
service must block, and `limits`, those over a limit on amount, spike or number
of lines. The offline valve is the choice `ValveVerdicts`: it works on a context
that lacks signals and may be cut short by an exception, so it may pass what the
service blocks and block what the service allows; only an order over a limit it
blocks in any case. `SnapshotCache` and `SafetyValve` look into these two, and
`SizeRulesHold` of the latter is what justifies `limits`. `TrusteedPanel` composes
component, endpoint and bundle: its actions call `Mount` of `EmbedBundle` and take
answers from `ExchangeBootstrap` of `TokenEndpoint`. `AgenticTools` instantiates
`Payment` with `owes <- Owed`, `state <- Standing`, `taken <- Receipts`;
`Enforcement` instantiates `Redemption` with `taken <- consumed`,
`held <- Held`, `needs <- Needs`, `spent <- Spent`, `did <- agentDid`.

### Correspondence of state and actions

* **AgentTokens.** A token is a record of what its checks look at: whether it is
  well formed, whether the signature holds, `iat`, `exp`, intent, nonce, `iss`,
  `jti`. `Admissible` is everything before the nonce (steps 1 to 6), `Records` a
  call that gets to line 203, `Remember` what a call leaves in the cache,
  `Verdict` its result: accept, reject or raise. The ways to raise are those of
  the code: a context value that is no string has no `split`; `float()` of an
  integer beyond its range (`Huge`); `encode()` of a nonce with a lone surrogate;
  and, after the nonce has been recorded, `int()` of an `exp` that is NaN or
  infinite. JSON admits all of these, every comparison with NaN is false, and
  minus infinity fares like an integer below all others.
* **TokenVerifier.** `Verify` is one call (no I/O, one action: see section 4).
  `accepted` and `spent` are history.
* **Enforcement.** `call[w]` is the RPC call a worker serves: its entry path
  (`op`), batch, the orders still to be gated, the stage of the gate under way,
  the writes of the open transaction, and history fields. Actions: `Start` (the
  override is entered), `GateBlind`/`GateKilled`/`GateOrganic`/`GateToken` (the
  gate up to its first request), `ConsumeNonce`, `AskLayer2` (one request each),
  `SuperConfirm` (Odoo's `action_confirm` writes the state through `write`, so
  the gate is entered again), `Commit`, `Retry` (a conflict), and `Crash`,
  `PolicyChange`, `Tick` of the environment. A refusal raises, which drops the
  call with its writes. The history fields `killed`, `strict`, `blocked` and
  `limited` say what the snapshot has demanded at every instant of the call so
  far, `offline` which orders it let through without an answer of the rules
  service. `redeemed` counts committed calls per jti whose consumption the backend
  accepted under strict; a headless create never asks the backend, so the sales
  it commits are not in it.
* **SnapshotCache.** `pull[t]` is a call of `pull_snapshot`: `Start` reads clock
  and cache, `Respond` is the backend, `Receive`/`GiveUp` the answer or its lack,
  `Verify` and `KeysArrive` the signature check with its one refetch on a kid
  miss, `Accept` and `Reject` its end. Times are relative to the present
  (ticks left, ticks of age), so that behaviours are infinite and liveness means
  something. A tick is 60 s: `MinTTL` 1, `MaxTTL` 5 in the code.
* **SafetyValve.** A behaviour is the gate of one order: `Gate`, the `Extract*`
  steps any of which may `Raise` and end the extraction, `TryRule` once per
  rule, `Conclude`. `R014` to `R030` are the nine evaluators, `Fires` their
  dispatch.
* **AgenticTools.** `param[t]` is the stored switch (`absent`, `0`, `1`/`True`),
  `form[a]` an open Settings form with what it showed when loaded, `call[i]` a
  tool call, `wire` the requests under way, also those the client has given up;
  `paid` what the backend has taken money for. `Process` takes any request at
  any time, and its answer may be lost.
* **Payment.** `owes` is the cart a call is to pay for, `state` how the call
  stands (idle, refused, open, ok, failed), `taken` the payments for a cart: at
  most one, for a call that was begun; a call succeeds only if it is paid for.
  `Standing` reads the state off the call's stage, `Receipts` groups `paid` by
  cart.
* **Redemption.** `taken` is the backend's record of jtis, `held` what each worker's
  call has had accepted under strict and not yet committed or lost, `spent` what
  committed calls were made with. `needs` is what a call would have to present if
  it committed now: the jtis of the tokens on all orders of an existing quotation
  while the mode has been strict throughout, nothing once it was not. It follows
  the merchant's rules, so the abstract specification lets it change freely and
  promises only that a sale has what it needs. `Take` is a jti reaching the
  backend (whose answer the buyer gets, does not get, or gives up over), `Lose`
  a refusal, an abort or the death of a process with several calls, `Sell` the
  commit. Everything else is a stutter, or a change of `needs`.
* **InvoiceReceipts.** `call[c]` is an `action_post`: `Begin` (the snapshot is
  taken, Odoo refuses what is not a draft), `SuperPost` (the rows are written:
  others wait), `AttachReceipt` once per customer invoice (look, fetch, create),
  `Commit`; `Conflict` is the write that meets a newer row, after which Odoo runs
  the call again; `Crash` and `ResetToDraft` come from outside.
* **TokenEndpoint.** `ExchangeBootstrap(session)` is the set of answers the route
  may give, its checks in their order, `IssueToken` the one attempt at the
  relay. A token is named by the API base that minted it.
* **EmbedBundle.** `client` are the module globals that `mount` sets, `trees` the
  React roots (none is ever unmounted), `queries` the query cache. `Observed` is
  what a new observer or a focus does to a query, `Settled` what an answer does:
  a refusal (401, 403, 503) is final, any other failure is retried once, through
  the client of that moment.
* **TrusteedPanel.** One action per callback of the component: `OnMounted`,
  `OnWillUnmount`, `Effect`, `TimerFires`, and the two halves of `_mountSpa` about
  its await, `MountSpa` and `MountAnswered`. `calls` are the mounts that await
  their token; `asks` (history) says for whom each was begun. `Effect` is a patch
  of the component, the only time when OWL reads the dependency of `useEffect`
  again: it may come at any time, but is certain only when the component's own
  state was written (`dirty`), by a switch under way or by its timer. The page may
  have no active company when the panel is mounted (`NoCompany`, the `?? null`);
  such a panel lets every switch pass. The user switches companies, leaves the
  panel and opens it again; administrators `Save` the parameters while an
  `Exchange` is under way.
* **SetupWizard.** One action per button: `NextWelcome`, `NextConnect`, `Prev`,
  `SaveCredentials`, `TestUnsaved`, and `StartTest`/`EndTest`, since the test waits
  for the relay; `Paste` is the user's typing, `SaveSettings` the other form.

## 3. Runs

Runs that pass:

| run | instance | what it shows |
|---|---|---|
| `token_verifier` | two agents, tokens failing each single check, tokens that raise in each of the ways above, and good ones; a unit is a minute: nonce 5, window 5, skew 1, clock to 8, one restart | acceptances under one nonce lie its lifetime apart; the one gap there is (a token first used right after its issue, or before) is exactly as wide as `ReuseOnlyOfYoungTokens` says; only the signer spends a nonce; nothing forgets a live entry |
| `enforcement` | two workers in two processes; three orders (agent token, none, created with a token), batches of one and two; tokens that are good, that raise and that lack a jti; an order that the rules block within its limits and one over them; rules that begin strict and change once, to balanced, kill-switch, no credentials or no snapshot; clock to 2 with a nonce lifetime of 1; two calls, two tries, one change, one crash | single redemption of consumed tokens under strict, kill-switch, universal rules with the service and in an outage, DIDs only on confirmed orders; the whole implements `Redemption` |
| `snapshot_cache` | cron and an order pull concurrently; one key, two snapshots, lifetimes 1..2, pulls up to a tick long, one restart | only verified snapshots; a change arrives within the lifetime; only overtaken pulls regress |
| `snapshot_refresh` | cron and an order pull concurrently, pulls up to a tick long; two keys, the backend going over from one to the other between its two snapshots; lifetimes of one tick | `CatchesUp`, with the new key, key-set expiry, outages and overlapping pulls |
| `safety_valve` | every pair of 18 rules around their thresholds, 8 orders, 24 hours, both modes, a failure at each step | first match; what a lost field can and cannot change; size limits; business hours |
| `agentic_tools` | tools verify and x402, two calls, one cart, two administrators, two saves | payment once, success means paid, nothing is paid before a choice, switches change by choice or a stale form only, calls end; the whole implements `Payment` |
| `admin_panel` | two openings of the panel, two companies, one of them or none active at first, one section, two API bases; three moves of the user, one change of the parameters | timers are tracked, tokens stay with their API, a panel whose answers came in order shows the active company, the toast of a switch goes and takes no later switch with it, loading ends |
| `setup_wizard` | two wizards, an old and a new secret, a safe and an unsafe base, three initial configurations, two saves | a passed test was earned; a stored secret was pasted |
| `invoice_receipts` | three calls, any batches of two customer invoices and a vendor bill, any number of resets to draft | one receipt per invoice; every posting ends |

Runs that find a documented claim violated (the counterexample is what the code
does; `findings` quotes the claim): `no_self_replay` (a confirmation gates its
order twice and refuses its own token), `panel_unmounted` (the SPA is mounted for
a panel that has been left while its token was on the way), `payments_opt_in` (an
untouched save of the form switches a payment rail on).

More configurations show a claim violated, for readers of the findings who want to
see the behaviour: `StrictCompany.cfg` (without a snapshot a company configured
strict confirms) and `ReplayRejected.cfg` (a REPLAY passes outside strict) with
`MCEnforcement`, `SnapshotValidUntil.cfg` (a 304 keeps a snapshot beyond
`validUntil`) with `MCSnapshotCache`, `MissingSignal.cfg` (R028 blocks for want of
a signal nobody provides offline) with `MCSafetyValve`; and with
`MCTrusteedPanel`, `PanelSwitch.cfg` (a switch that nothing renders the panel for
is not noticed, nor one in a panel mounted without a company),
`PanelOvertaken.cfg` (an overtaken answer mounts the earlier company),
`PanelReload.cfg` (after a switch the cache shows what was loaded before) and
`PanelDownload.cfg` (the download of a receipt carries no token).

### Why the bounds are enough

Single redemption and payment-once are violated by two parties, so two workers,
two processes and two calls. The instance of `Enforcement` is symmetric: each
worker has a process of its own that bears its name, no constant and no property
tells one pair from the other, and no property of the run is a liveness property,
so TLC may identify states that differ by exchanging them. Its rules begin strict:
a call that begins under balanced meets strict rules only in the proofs, which
take any initial policy and any number of changes. A lost answer followed by a
retry needs two attempts; a stale form needs two administrators and two saves. The
nonce lifetime of 1 with a clock to 2 makes entries expire during a call, and the
backend's record remain. The regressions of the snapshot cache need two
overlapping pulls and two snapshots; `MaxTTL` 2 distinguishes a renewed entry from
a fresh one, and `MaxAge` 1 lets a pull begin before and end after a change. In
`snapshot_refresh` the two threads stay and the rest is smaller: `MCHandover`
bounds the backend to one new key, with which it signs the second snapshot (that
is what makes a cached key set miss), and there is no restart, since a restart
empties the caches and drops the pulls, which is a state that the backend also
reaches by itself before the first pull; what follows is the same. The rule pairs
suffice for the order of evaluation: the proofs (section 5) cover lists of any
length. In the panel, two answers overtake each other with two requests, of one
panel (a switch) or of two (leaving and opening again); three moves allow a switch
there and back in one opening, or a switch in each of two. `MCInit` starts it at
the base that is not the bundle's default: the other start differs by the name of
the bases only, except that there a lost base would go unnoticed. Two overlapping
batches and a third call give a wait, a conflict and a re-run behind it. Each
property has a mutant that breaks it under its own configuration.

Bounds in guards: `MaxTime`, `MaxEpoch`, `MaxCalls`, `MaxTries`, `MaxChanges`,
`MaxCrashes`, `MaxVersion`, `MaxRestarts`, `MaxRules`, `MaxSaves`, `MaxMoves`;
`Oldest` and `-MaxAge` stop two counters of `SnapshotCache` where no test depends
on them any more. The configurations with `CHECK_DEADLOCK FALSE` are those whose
instance comes to an end by these bounds, or by the end of the order's gate.

## 4. Assumptions

* *Fairness.* `SnapshotCache`: weak fairness of `Tick`, of every pull's next step
  (each request has a time-out) and, for the threads in `Recurrent`, of `Start`
  (the cron job runs every few minutes). No fairness of the backend: `CatchesUp`
  is about the case that it stays within reach. `AgenticTools`: weak fairness of a
  worker's `Send` or `TimeOut`, since every request has a time-out; the backend
  may never answer. `TrusteedPanel`: weak fairness of the browser (the render of a
  component whose state was written, and with it `Effect`; timers; React's
  commits), of the endpoint (its time-outs end every request) and of the API's
  requests; none of a patch that nothing in the component calls for, so none of
  `Effect` after a mere switch of the company; none of the user, of
  administrators, of the focus and of the ageing of data. `InvoiceReceipts`: weak
  fairness of a worker's next step, since every request has a time-out; nothing
  makes a user post or reset. The other modules state safety only.
* *Backend.* It records a jti atomically and once; it answers 304 only when the
  cached snapshot is the current one (the client sends no validator, so this is
  the server's decision); it deduplicates payments by idempotency key; the rules
  service never allows an order in `blocks`. A cart's payment is called with one
  key, which the agent supplies. A 2xx answers only a payment that has been made:
  the client looks at the status, and returns an envelope with `success: false`
  as it is (`api_client.py` 219-222), so `SuccessMeansPaid` rests on the backend
  refusing a payment with an error status.
* *One call of the verifier at a time.* `Verify`, and the gate's `GateToken`, take
  the look at the nonce cache (line 200) and the entry (line 203) as one step.
  That holds in Odoo's prefork server, where a process serves one request at a
  time and the call does no I/O; no lock in the code enforces it. Where threads
  share a process, two of them could both find a nonce absent, and the properties
  of `TokenVerifier` hold of calls that do not overlap (a hazard of its own).
* *Odoo and PostgreSQL.* A call is a transaction under REPEATABLE READ; a write
  waits for a transaction that has written the row, concurrent updates of a row
  abort the later one, and the RPC layer runs the call again, as often as it takes
  (Odoo gives up after five tries, which only ends a call earlier);
  `account.move.action_post` refuses moves that are not drafts and writes the row
  of each other one before it returns;
  `sale.order.action_confirm` writes the state through `self.write`;
  `res.config.settings` loads a Boolean as `bool(stored)`, stores `True`, and
  deletes the parameter of an unticked one.
* *Web client.* The company service is as the panel uses it: it changes while the
  component is mounted. A version of Odoo that reloads the page on a switch only
  leaves the behaviours without `Effect`. A view is unmounted before the next
  is mounted; readonly fields of a wizard are not stored by the client.
* *Data.* Parsing, canonical JSON and Ed25519 are fields of the token; a DID
  stands for its key id; rule parameters have the types their rule expects; a pull takes
  no longer than `MaxAge`.
* *Writes that do not happen.* `_trusteed_cel_call_layer2` would store
  `kid_first_seen` while it builds its request. It never does: `hashlib` is a
  local name of that function which is bound further down, and the exception is
  swallowed (see findings). The Layer-2 stage therefore writes nothing.

## 5. Proofs

All modules with theorems are free of recursive operators. TLC checks each
inductive invariant's parts first; the proofs hold for all values of the
constants under the named assumptions (`TokenAssumption`, `TimeAssumption`,
`VerifierAssumption`, `EnforcementAssumption`, `SnapshotAssumption`,
the assumptions of `SafetyValve`, `ToolsAssumption`, `BundleAssumption`,
`PanelAssumption`, `EndpointAssumption`, `WizardAssumption`, `MoveAssumption`).

* `TokenVerifierProofs`: types and all four properties, with lemmas on eviction
  and on what a call leaves in the cache. Inductive invariant:
  acceptances lie in the past; the cache remembers the last one for as long as
  it must; an acceptance lies within its token's window. The gap of
  `ReuseOnlyOfYoungTokens` follows by arithmetic from the last two, for all
  lifetimes, windows and skews.
* `EnforcementProofs`: types, `ConsumedTokenRedeemedOnce`, `KillSwitchHolds`,
  `UniversalRulesHold`, `DidOnlyOnSales`. The property on `redeemed` is not
  inductive: a call in progress may hold a jti it has yet to commit. `CallsOK`
  adds that such a jti is recorded at the backend, held by one call, and gone from
  every call once redeemed. For the kill-switch it adds that a call under an
  unbroken kill-switch has passed no gate (`GateOK`). For the rules and the DIDs,
  `Checked` adds what the gates passed so far amount to: a blocked order is still
  to be gated or `Passable` (its token makes the verifier raise, or it passed
  offline and has not been over a limit all along), what the call has demanded so
  far (`Demands`) the snapshot of its company still demands, and every DID in the
  open transaction is that of a token verified for its order. Nothing is assumed
  of `blocks`, `limits` and `tier2`: a snapshot whose enabled rules the code does
  not count as Layer 2 demands nothing, as in the code (line 229).

  `StrictTokensPaid` looks at a call under a mode that has been strict all along:
  each of its orders is still to be gated or its token's jti is held. It needs the
  history field `strict`, since a gate keeps the snapshot it has read while the
  mode changes, and the two rounds of a confirmation read it anew.
  `Implementation` proves `Spec => RedemptionRefined`: a nonce-consume that
  reaches the backend is a `Take`, a commit is a `Sell`, and every other step loses
  what some calls held or only changes demands. It rests on three
  invariants: `IInv` (what a call holds nobody has spent), `Checked` (the DIDs it
  writes belong to orders of its batch) and `Paying` (it has what it needs).
* `SnapshotCacheProofs`: types, `OnlyVerified`, `ChangeReachesGate`,
  `OnlyOvertakenPullsRegress`. Invariant: an entry's staleness plus what it has
  left is at most `MaxTTL`; each stage of a pull knows how its snapshot relates
  to the cache, to the backend's current one and to its own age.
* `SafetyValveProofs`: types and the four properties, for rule lists of any
  length and any rules. Invariant: the context is that of the steps taken,
  and no rule tried so far fires.
* `AgenticToolsProofs`: types, payment-once, success, quiet installation,
  `OnlyChoiceOrStaleFormDisables`. Invariant: every request on the wire or paid
  belongs to an attempt made; forms show what was stored unless overtaken;
  until the first save the switches are those of the seeding.

  `Implementation` proves `Spec => PaymentRefined`: initial states map to initial
  states, and each step to a step of `Payment` or a stutter; it rests on the
  same invariant and on `WireOK`, by which a request on the wire is that of a
  call that was let through.
* `TrusteedPanelProofs`: types, `TimersTracked`, `TokenStaysHome`,
  `InOrderIsCurrent`. Invariant: one panel is mounted at most; each awaited call
  is one of `asks`; clients carry tokens of their own base, as do the answers
  under way; and the last request of a mounted panel without a pending timer is
  for the company it tracks.
* `InvoiceReceiptsProofs`: types and `OneReceipt`. The property is not inductive,
  since a transaction creates its attachments long before it commits them.
  Invariant: only a call that has written its batch, and so holds the rows, has
  made receipts, and only for customer invoices of that batch; no two such calls
  share a move; and a move for which a call has made a receipt has none
  committed. `Begin` alone takes no row, so that its snapshot may be outdated:
  it is `SuperPost`, which waits and conflicts, that makes what was seen last.
* `SetupWizardProofs`: types, `PassedIsEarned`, `SecretIsPasted`. Invariant: a
  granted answer of a test under way belongs to good parameters.

Every invariant, action property and refinement that a passing run checks is
also a theorem. Model-checked only: the liveness properties `CatchesUp`,
`EveryCallEnds`, `SwitchSettles`, `LoadingEnds` and `EveryPostEnds`, which involve
fairness and `ENABLED` and are out of the prover's reach; and the claims that
the runs refute.

## 6. Limits of the models

* One merchant and one process in `SnapshotCache`; a garbled key set is not
  modelled.
* `Enforcement` does not model the payload of the Layer-2 request, so rules
  that depend on agent attributes are the service's open answer.
* In `AgenticTools`, the tool calls' arguments are well formed and the store is
  configured; refused arguments end a call before any request.
* The jti that a headless `create` leaves unconsumed at the backend is visible
  in `Enforcement` but constrained by no property: `ConsumedTokenRedeemedOnce`,
  `Redemption` and their theorems speak of consumed tokens (see hazards).
* A kill-switch set in the middle of a gate does not stop that gate;
  `KillSwitchHolds` is about one that is on throughout (see hazards).
* `PassedIsEarned` says what a passed test is worth, not on whose page it is shown
  (see hazards).
* In `EmbedBundle` one query stands for those of a section, and navigation inside
  the SPA is left out: the only section that offers it is one no menu of the addon
  opens. Tokens do not expire; a refusal by the API is possible at any time.
* In `InvoiceReceipts` a failure while attaching is one of the outcomes without
  a receipt, and the note in the chatter goes with the attachment.
* In `SetupWizard` a test is never aborted, and concurrent writes to one
  parameter, which Odoo would run again, happen one after the other.
* In Odoo 18, `product.product` has no `detailed_type`, so the offline
  extraction of an order with product lines raises at its lines. The models
  leave open whether a step raises and cover both cases.

Not modelled: order events (unreachable as the code stands, see findings); the
capabilities reporter, cart signals, agent history, SSRF guard and SaaS
detection (pure or sequential); the R043 gate and `map_outcome_to_action` (no
caller); views, data and scripts (no behaviour); what the sections of the SPA
show.

## 7. Plan

In this order; the most important behaviour came first.

1. Done: token verifier, enforcement, snapshot cache, safety valve, tools;
   panel with endpoint and bundle, setup wizard, invoice receipts; `Payment` and
   `Redemption` with their refinements; the proofs of section 5.
2. One more abstract specification: a register of the merchant's snapshot whose
   value never lags by more than the lifetime while the backend answers,
   implemented by `SnapshotCache`, and the step-simulation theorem.
3. `OrderEvents` (commit and rollback around the request, jti collisions), with
   the name of the mapping model as a parameter: of use once the lookup is
   repaired.
