----------------------------- MODULE EmbedBundle -----------------------------
(***************************************************************************)
(* What the bundle admin-spa.js keeps between two calls of                 *)
(* TrusteedEmbed.mount, in the page that has loaded it: the API client     *)
(* (one per page, replaced by every mount), the React roots (one more per  *)
(* mount, none is ever unmounted), and the query cache (one per page, its  *)
(* keys name neither the host's company nor the client).                   *)
(*                                                                         *)
(* One query stands for those of a section.  The cached data is named by   *)
(* the mount whose client loaded it.                                       *)
(***************************************************************************)
EXTENDS Naturals

CONSTANTS
    Section,         \* the sections of the SPA
    DefaultSection,  \* the one for an unknown name
    Base,            \* API bases
    DefaultBase,     \* the one built into the bundle
    Language,        \* the languages that the SPA speaks
    BrowserLanguage, \* the one it takes from the browser
    Unset            \* an option that is undefined, no token

ASSUME BundleAssumption ==
    /\ DefaultSection \in Section
    /\ DefaultBase \in Base
    /\ BrowserLanguage \in Language
    /\ Unset \notin Base

VARIABLES
    loaded,    \* window.TrusteedEmbed.mount is there: the bundle has run
    client,    \* the API client that all sections use
    trees,     \* the React roots
    queries    \* queries[s]: the cached query of section s

bundleVars == <<loaded, client, trees, queries>>

\* `by` is the number of the mount that made the client; 0 at load time.
Client ==
    [ source : {"wp-embed", "odoo-embed"},
      base : Base,
      token : Base \cup {Unset},
      by : Nat ]

Tree == [by : Nat, section : Section, language : Language, rendered : BOOLEAN]

Request == [client : Client, retried : BOOLEAN]

Query ==
    [ data : Nat,                  \* the mount that loaded the data, or 0
      fresh : BOOLEAN,             \* younger than staleTime, not invalidated
      failed : BOOLEAN,            \* the section shows an error
      request : SUBSET Request ]   \* the request under way, if any

BundleTypeOK ==
    /\ loaded \in BOOLEAN
    /\ client \in Client
    /\ trees \in SUBSET Tree
    /\ queries \in [Section -> Query]

NoQuery == [data |-> 0, fresh |-> FALSE, failed |-> FALSE, request |-> {}]

BundleInit ==
    /\ loaded \in BOOLEAN
    /\ client = [source |-> "wp-embed", base |-> DefaultBase,
                 token |-> Unset, by |-> 0]
    /\ trees = {}
    /\ queries = [s \in Section |-> NoQuery]

-----------------------------------------------------------------------------
\* Mutant of KnownSection: any name is taken.
AnySection(name) == name

KnownSection(name) == IF name \in Section THEN name ELSE DefaultSection

\* The bundle's default stands in for an apiBase that is undefined.
BaseOrDefault(base) == IF base = Unset THEN DefaultBase ELSE base

\* The language of a locale, unless it is undefined or of another language.
Spoken(locale) == IF locale \in Language THEN locale ELSE BrowserLanguage

(***************************************************************************)
(* TrusteedEmbed.mount, for the n-th time: configure the client, create a  *)
(* root.  React renders it later.                                          *)
(***************************************************************************)
Mount(options, n) ==
    /\ client' = [source |-> options.source,
                  base |-> BaseOrDefault(options.apiBase),
                  token |-> options.token,
                  by |-> n]
    /\ trees' = trees \cup {[by |-> n,
                             section |-> KnownSection(options.section),
                             language |-> Spoken(options.locale),
                             rendered |-> FALSE]}
    /\ UNCHANGED <<loaded, queries>>

(***************************************************************************)
(* An observer joins the request under way, is content with fresh data, or *)
(* starts a request with the client of that moment.  Without data, the     *)
(* section goes back from its error to loading.                            *)
(***************************************************************************)
Observed(q) ==
    IF q.request # {} \/ q.fresh
    THEN q
    ELSE [q EXCEPT !.request = {[client |-> client, retried |-> FALSE]},
                   !.failed = q.failed /\ q.data # 0]

\* React commits a root: the section's component subscribes to its query.
Render(t) ==
    /\ ~t.rendered
    /\ trees' = (trees \ {t}) \cup {[t EXCEPT !.rendered = TRUE]}
    /\ queries' = [queries EXCEPT ![t.section] = Observed(@)]
    /\ UNCHANGED <<loaded, client>>

\* The window gets the focus: queries that are shown and stale are refetched.
Focus(s) ==
    /\ \E t \in trees : t.rendered /\ t.section = s
    /\ queries[s] # Observed(queries[s])
    /\ queries' = [queries EXCEPT ![s] = Observed(@)]
    /\ UNCHANGED <<loaded, client, trees>>

\* staleTime, 60 s, has passed since the data came.
Age(s) ==
    /\ queries[s].fresh
    /\ queries' = [queries EXCEPT ![s].fresh = FALSE]
    /\ UNCHANGED <<loaded, client, trees>>

(***************************************************************************)
(* The API at a base knows the tokens minted there, until they expire;     *)
(* any request may fail for another reason.                                *)
(***************************************************************************)
Outcome(c) ==
    {"refused", "failed"} \cup IF c.token = c.base THEN {"ok"} ELSE {}

\* Mutant of Settled: the retry does not count as one that follows a failure.
SettledNever(q, r, outcome) ==
    IF outcome = "ok"
    THEN [data |-> r.client.by, fresh |-> TRUE, failed |-> FALSE, request |-> {}]
    ELSE IF outcome = "failed"
    THEN [q EXCEPT !.request = {[client |-> client, retried |-> ~r.retried]}]
    ELSE [q EXCEPT !.fresh = FALSE, !.failed = TRUE, !.request = {}]

(***************************************************************************)
(* A refusal (401, 403, 503) is final: a client made by mount cannot       *)
(* refresh its token.  Any other failure is retried once, and the retry    *)
(* goes through the client that is then installed.                         *)
(***************************************************************************)
Settled(q, r, outcome) ==
    IF outcome = "ok"
    THEN [data |-> r.client.by, fresh |-> TRUE, failed |-> FALSE, request |-> {}]
    ELSE IF outcome = "failed" /\ ~r.retried
    THEN [q EXCEPT !.request = {[client |-> client, retried |-> TRUE]}]
    ELSE [q EXCEPT !.fresh = FALSE, !.failed = TRUE, !.request = {}]

Reply(s) ==
    \E r \in queries[s].request : \E outcome \in Outcome(r.client) :
        /\ queries' = [queries EXCEPT ![s] = Settled(@, r, outcome)]
        /\ UNCHANGED <<loaded, client, trees>>

BundleStep ==
    \/ \E t \in trees : Render(t)
    \/ \E s \in Section : Focus(s)
    \/ \E s \in Section : Age(s)
    \/ \E s \in Section : Reply(s)

(***************************************************************************)
(* The download of a receipt does not go through the client: it takes base *)
(* and source from it, but the token from the WordPress token manager,     *)
(* which has none in Odoo (refresh() reads window.__AMCP_CONFIG__, which   *)
(* is undefined there; the TypeError is caught and the token is null).     *)
(***************************************************************************)
DownloadRequest ==
    [source |-> client.source, base |-> client.base, token |-> Unset]
=============================================================================
