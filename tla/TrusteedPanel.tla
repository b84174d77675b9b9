---------------------------- MODULE TrusteedPanel ----------------------------
(***************************************************************************)
(* The OWL component of the admin panel (static/src/js/trusteed_panel.js)  *)
(* with the two parts it works with: the token endpoint in Odoo, and the   *)
(* bundle with the SPA in the page.                                        *)
(*                                                                         *)
(* An instance of the component lives from one opening of a Trusteed menu  *)
(* to the next change of view; instances follow each other in the page and *)
(* share the bundle.  Browser code runs one callback at a time, so each    *)
(* callback is an action; between them come the user (company switch,      *)
(* leaving the panel), the timers, and the answers of the endpoint, in any *)
(* order and after any delay.                                              *)
(***************************************************************************)
EXTENDS EmbedBundle, Sequences

CONSTANTS
    Merchant, Secret, Registered, SafeBase,   \* see TokenEndpoint
    Panel,             \* the instances of the component
    RequestedSection,  \* RequestedSection[p]: the name in p's action context
    UserLang,          \* user.lang, the language part of its tag
    ContextLang,       \* user.context.lang
    Company,           \* the companies the user can switch to
    HomeCompany,       \* the one that is active when the page is loaded,
    NoCompany,         \* or none is; activeCompanyId before the mount
    Sessions,          \* the states of the user's session
    Configurations,    \* the connection parameters that administrators save
    MaxMoves,          \* bound on the user's moves: openings and switches
    MaxSaves           \* bound on changes of the connection parameters

VARIABLES
    params,     \* ir.config_parameter
    active,     \* companyService.activeCompany?.id ?? null
    life,       \* life[p]: the component is set up, mounted, or unmounted
    tracked,    \* tracked[p]: state.activeCompanyId
    toast,      \* toast[p]: state.toastMsg is not null
    dirty,      \* dirty[p]: a write to the state of p calls for a render of p
    timerId,    \* timerId[p]: _switchTimerId, 0 for null
    timers,     \* the timers that the browser will fire
    lastTimer,  \* the last id that setTimeout returned
    asks,       \* history: the panel and the company of each _mountSpa that fetches
    calls,      \* those whose answer is awaited: number, and what came, if so
    newest,     \* history: the highest number among the mounts that were made
    moves,      \* how often the user has opened the panel or switched company
    saves       \* how often the parameters have been changed

Endpoint == INSTANCE TokenEndpoint

componentVars ==
    <<active, life, tracked, toast, dirty, timerId, timers, lastTimer>>
vars == <<bundleVars, componentVars, params, asks, calls, newest, moves, saves>>

ASSUME PanelAssumption ==
    /\ HomeCompany \in Company /\ NoCompany \notin Company
    /\ SafeBase \subseteq Base
    /\ Sessions \subseteq Endpoint!Session
    /\ Configurations \subseteq Endpoint!Params
    /\ MaxMoves \in Nat /\ MaxSaves \in Nat

\* What _fetchOdooToken returns; both Unset for its null.
Fetched == [token : SafeBase \cup {Unset}, apiBase : SafeBase \cup {Unset}]

Call == [id : Nat, answer : SUBSET Fetched]

Timer == [panel : Panel, id : Nat]

TypeOK ==
    /\ BundleTypeOK
    /\ params \in Endpoint!Params
    /\ active \in Company \cup {NoCompany}
    /\ life \in [Panel -> {"setup", "mounted", "unmounted"}]
    /\ tracked \in [Panel -> Company \cup {NoCompany}]
    /\ toast \in [Panel -> BOOLEAN]
    /\ dirty \in [Panel -> BOOLEAN]
    /\ timerId \in [Panel -> Nat]
    /\ timers \in SUBSET Timer
    /\ lastTimer \in Nat
    /\ asks \in Seq([panel : Panel, company : Company \cup {NoCompany}])
    /\ calls \in SUBSET Call
    /\ newest \in Nat
    /\ moves \in 0..MaxMoves
    /\ saves \in 0..MaxSaves

Init ==
    /\ BundleInit
    /\ params \in Configurations
    /\ active \in {HomeCompany, NoCompany}
    /\ life = [p \in Panel |-> "setup"]
    /\ tracked = [p \in Panel |-> NoCompany]
    /\ toast = [p \in Panel |-> FALSE]
    /\ dirty = [p \in Panel |-> FALSE]
    /\ timerId = [p \in Panel |-> 0]
    /\ timers = {}
    /\ lastTimer = 0
    /\ asks = << >>
    /\ calls = {}
    /\ newest = 0
    /\ moves = 0
    /\ saves = 0

-----------------------------------------------------------------------------
(* The private helpers of the component. *)

\* _resolveSection: the section in the action's context, or the default.
ResolveSection(p) ==
    IF RequestedSection[p] = Unset THEN DefaultSection ELSE RequestedSection[p]

\* _resolveLocale: the user's language, wherever this version of Odoo has it.
ResolveLocale == IF UserLang = Unset THEN ContextLang ELSE UserLang

\* Mutant of FetchOdooToken: the API base of the answer is not passed on.
FetchWithoutBase(answer) ==
    [token |-> answer.base, apiBase |-> Unset]

(***************************************************************************)
(* _fetchOdooToken: the token and the API base of an answer with success;  *)
(* nothing (null) for an error of the endpoint and for a failed rpc.       *)
(***************************************************************************)
FetchOdooToken(answer) ==
    IF answer.success
    THEN [token |-> answer.base, apiBase |-> answer.base]
    ELSE [token |-> Unset, apiBase |-> Unset]

(***************************************************************************)
(* _mountSpa up to its await: nothing without #amcp-root in a mounted      *)
(* component or without the bundle, else ask the endpoint for a token.     *)
(***************************************************************************)
MountSpa(p) ==
    IF life'[p] = "mounted" /\ loaded
    THEN /\ asks' = Append(asks, [panel |-> p, company |-> tracked'[p]])
         /\ calls' = calls \cup {[id |-> Len(asks) + 1, answer |-> {}]}
    ELSE UNCHANGED <<asks, calls>>

(***************************************************************************)
(* _mountSpa after its await: mount the SPA in the element that was looked *)
(* up before.  Neither the component nor the company is looked at again.   *)
(***************************************************************************)
MountAnswered(c) ==
    \E fetched \in c.answer :
        /\ Mount([section |-> ResolveSection(asks[c.id].panel),
                  source |-> "odoo-embed",
                  locale |-> ResolveLocale,
                  token |-> fetched.token,
                  apiBase |-> fetched.apiBase], c.id)
        /\ calls' = calls \ {c}
        /\ newest' = IF c.id > newest THEN c.id ELSE newest
        /\ UNCHANGED <<componentVars, params, asks, moves, saves>>

TimerOf(p) == [panel |-> p, id |-> timerId[p]]

\* Mutant of Cleared: the pending timer is not cancelled.
Uncleared(p) == timers

\* clearTimeout(this._switchTimerId)
Cleared(p) == timers \ {TimerOf(p)}

(***************************************************************************)
(* _handleCompanySwitch: track the company, show the toast, and set the    *)
(* timer again, which replaces the timer of an earlier switch.  The writes *)
(* to the state call for a render.                                         *)
(***************************************************************************)
HandleCompanySwitch(p, newCompany) ==
    /\ tracked' = [tracked EXCEPT ![p] = newCompany]
    /\ toast' = [toast EXCEPT ![p] = TRUE]
    /\ dirty' = [dirty EXCEPT ![p] = TRUE]
    /\ lastTimer' = lastTimer + 1
    /\ timers' = Cleared(p) \cup {[panel |-> p, id |-> lastTimer + 1]}
    /\ timerId' = [timerId EXCEPT ![p] = lastTimer + 1]

-----------------------------------------------------------------------------
(* The callbacks that setup() registers. *)

\* onMounted.  The view before has been left: see OnWillUnmount.  The effect's
\* first run, which follows, finds the company that has just been tracked.
OnMounted(p) ==
    /\ moves < MaxMoves
    /\ life[p] = "setup"
    /\ \A q \in Panel : life[q] # "mounted"
    /\ life' = [life EXCEPT ![p] = "mounted"]
    /\ tracked' = [tracked EXCEPT ![p] = active]
    /\ MountSpa(p)
    /\ moves' = moves + 1
    /\ UNCHANGED <<bundleVars, active, toast, dirty, timerId, timers, lastTimer,
                   params, newest, saves>>

\* onWillUnmount: cancel the timer that is pending, and no more.
OnWillUnmount(p) ==
    /\ life[p] = "mounted"
    /\ life' = [life EXCEPT ![p] = "unmounted"]
    /\ timers' = Cleared(p)
    /\ timerId' = [timerId EXCEPT ![p] = 0]
    /\ dirty' = [dirty EXCEPT ![p] = FALSE]
    /\ UNCHANGED <<bundleVars, active, tracked, toast, lastTimer, params, asks,
                   calls, newest, moves, saves>>

(***************************************************************************)
(* A patch of the component, after which useEffect reads its dependency    *)
(* and runs the effect if the active company is another one.  A component  *)
(* that was mounted without a company lets every switch pass.  Patches     *)
(* come from writes to the component's state (dirty) or from outside, at   *)
(* any time; a switch of the company by itself causes none.                *)
(***************************************************************************)
Effect(p) ==
    /\ life[p] = "mounted"
    /\ \/ /\ tracked[p] \notin {NoCompany, active}
          /\ HandleCompanySwitch(p, active)
       \/ /\ tracked[p] \in {NoCompany, active}
          /\ dirty' = [dirty EXCEPT ![p] = FALSE]
          /\ UNCHANGED <<tracked, toast, timerId, timers, lastTimer>>
    /\ UNCHANGED <<bundleVars, active, life, params, asks, calls, newest,
                   moves, saves>>

\* Mutant of TimerFires: the SPA is not mounted again.
TimerFiresOnly(t) ==
    /\ timers' = timers \ {t}
    /\ timerId' = [timerId EXCEPT ![t.panel] = 0]
    /\ toast' = [toast EXCEPT ![t.panel] = FALSE]
    /\ dirty' = [dirty EXCEPT ![t.panel] = TRUE]
    /\ UNCHANGED <<bundleVars, active, life, tracked, lastTimer, params, asks,
                   calls, newest, moves, saves>>

\* Mutant of TimerFires: toastMsg is not in the state that OWL observes.
TimerFiresUnrendered(t) ==
    /\ timers' = timers \ {t}
    /\ timerId' = [timerId EXCEPT ![t.panel] = 0]
    /\ toast' = [toast EXCEPT ![t.panel] = FALSE]
    /\ UNCHANGED <<life, tracked, dirty>>
    /\ MountSpa(t.panel)
    /\ UNCHANGED <<bundleVars, active, lastTimer, params, newest, moves, saves>>

\* The callback of setTimeout: the toast goes, the SPA is mounted again.
TimerFires(t) ==
    /\ timers' = timers \ {t}
    /\ timerId' = [timerId EXCEPT ![t.panel] = 0]
    /\ toast' = [toast EXCEPT ![t.panel] = FALSE]
    /\ dirty' = [dirty EXCEPT ![t.panel] = TRUE]
    /\ UNCHANGED <<life, tracked>>
    /\ MountSpa(t.panel)
    /\ UNCHANGED <<bundleVars, active, lastTimer, params, newest, moves, saves>>

-----------------------------------------------------------------------------
(* The world around: the user, the endpoint, the administrators. *)

SwitchCompany(c) ==
    /\ moves < MaxMoves
    /\ c # active
    /\ active' = c
    /\ moves' = moves + 1
    /\ UNCHANGED <<bundleVars, life, tracked, toast, dirty, timerId, timers,
                   lastTimer, params, asks, calls, newest, saves>>

\* A request reaches the endpoint, or the rpc fails; the answer is under way.
Exchange(c) ==
    /\ c.answer = {}
    /\ \E session \in Sessions :
       \E answer \in Endpoint!ExchangeBootstrap(session)
                        \cup {Endpoint!Refused("issue_token_rejected")} :
           calls' = (calls \ {c})
                        \cup {[c EXCEPT !.answer = {FetchOdooToken(answer)}]}
    /\ UNCHANGED <<bundleVars, componentVars, params, asks, newest, moves, saves>>

\* The settings form or the setup wizard changes the parameters.
Save(p) ==
    /\ saves < MaxSaves
    /\ p # params
    /\ params' = p
    /\ saves' = saves + 1
    /\ UNCHANGED <<bundleVars, componentVars, asks, calls, newest, moves>>

\* A step of the bundle alone.
InBundle == UNCHANGED <<componentVars, params, asks, calls, newest, moves, saves>>

Bundle == BundleStep /\ InBundle

Next ==
    \/ \E p \in Panel : OnMounted(p)
    \/ \E p \in Panel : OnWillUnmount(p)
    \/ \E p \in Panel : Effect(p)
    \/ \E t \in timers : TimerFires(t)
    \/ \E c \in calls : Exchange(c)
    \/ \E c \in calls : MountAnswered(c)
    \/ \E c \in Company : SwitchCompany(c)
    \/ \E p \in Configurations : Save(p)
    \/ Bundle

(***************************************************************************)
(* OWL renders a component whose state was written, the browser runs the   *)
(* timers that are due, the endpoint answers within its timeouts (2 s and  *)
(* 4 s) or the rpc fails, the API's requests end, React renders what was   *)
(* mounted.  Nothing makes the user or an administrator act, a component   *)
(* be patched for another reason, the window get the focus, or data grow   *)
(* old.                                                                    *)
(***************************************************************************)
Fairness ==
    /\ WF_vars(\E p \in Panel : dirty[p] /\ Effect(p))
    /\ WF_vars(\E t \in timers : TimerFires(t))
    /\ WF_vars(\E c \in calls : Exchange(c))
    /\ WF_vars(\E c \in calls : MountAnswered(c))
    /\ WF_vars((\E t \in trees : Render(t)) /\ InBundle)
    /\ \A s \in Section : WF_vars(Reply(s) /\ InBundle)

Spec == Init /\ [][Next]_vars /\ Fairness

-----------------------------------------------------------------------------
(***************************************************************************)
(* Every timer that the browser holds is the one its component tracks, the *)
(* component is mounted, and its toast is shown; the toast of a mounted    *)
(* component is never left without the timer that takes it away.           *)
(***************************************************************************)
TimersTracked ==
    /\ \A t \in timers :
        life[t.panel] = "mounted" /\ timerId[t.panel] = t.id /\ toast[t.panel]
    /\ \A p \in Panel :
        life[p] = "mounted" /\ toast[p] => TimerOf(p) \in timers

(***************************************************************************)
(* The API client never sends a token to a base other than the one that    *)
(* minted it, whatever was saved between the request for the token and     *)
(* the mount, or between the mount and a retry: a token only ever travels  *)
(* with the api_base of its own answer.                                    *)
(***************************************************************************)
TokenStaysHome ==
    \A c \in {client} \cup
            UNION {{r.client : r \in queries[s].request} : s \in Section} :
        c.token \in {Unset, c.base}

\* Component p has nothing left to do for its company.
Quiet(p) ==
    /\ life[p] = "mounted"
    /\ tracked[p] = active
    /\ timerId[p] = 0
    /\ \A c \in calls : asks[c.id].panel # p

(***************************************************************************)
(* Unless an answer was overtaken by that of a later request, a component  *)
(* with nothing left to do has the SPA mounted by itself, for the company  *)
(* that is active: no switch is lost, however they follow each other.      *)
(***************************************************************************)
InOrderIsCurrent ==
    \A p \in Panel :
        Quiet(p) /\ loaded /\ client.by = newest =>
            /\ client.by # 0
            /\ asks[client.by] = [panel |-> p, company |-> active]

(***************************************************************************)
(* The toast of a switch does not stay, unless the component is left, and  *)
(* it goes at a time when the component tracks the active company: a       *)
(* switch during the toast is not missed, since the patch that takes the   *)
(* toast away runs the effect again.                                       *)
(***************************************************************************)
SwitchSettles ==
    \A p \in Panel :
        life[p] = "mounted" /\ toast[p]
            ~> life[p] = "unmounted" \/ (tracked[p] = active /\ ~toast[p])

\* A section does not load for ever: each of its requests ends.
LoadingEnds ==
    \A s \in Section : queries[s].request # {} ~> queries[s].request = {}

-----------------------------------------------------------------------------
(* What comments of the source say, and the code does not do. *)

(***************************************************************************)
(* A mounted component comes to track the company that is active (the      *)
(* comments at the effect: it re-runs whenever the active company          *)
(* changes).                                                               *)
(***************************************************************************)
SwitchNoticed ==
    \A p \in Panel :
        life[p] = "mounted" /\ tracked[p] # active
            ~> life[p] = "unmounted" \/ tracked[p] = active

(***************************************************************************)
(* The SPA is never mounted for a component that has been unmounted (the   *)
(* comment at the timer: the pending work is cancelled on unmount).        *)
(***************************************************************************)
NoMountAfterUnmount ==
    [][client' # client => life[asks[client'.by].panel] = "mounted"]_vars

(***************************************************************************)
(* activeCompanyId is the last company that the component mounted the SPA  *)
(* for (the comment at the state), when nothing is left to do.             *)
(***************************************************************************)
TrackedIsMounted ==
    \A p \in Panel :
        Quiet(p) /\ client.by # 0 /\ asks[client.by].panel = p
            => asks[client.by].company = tracked[p]

(***************************************************************************)
(* After a switch the SPA has loaded the new company's data (the comment   *)
(* at the head of the component), when nothing is left to do: it does not  *)
(* show what this component has loaded for the company before.             *)
(***************************************************************************)
SwitchReloads ==
    \A p \in Panel, s \in Section :
        /\ Quiet(p)
        /\ client.by = newest /\ client.token # Unset
        /\ \A t \in trees : t.rendered
        /\ queries[s].request = {} /\ ~queries[s].failed
        /\ queries[s].data # 0 /\ asks[queries[s].data].panel = p
        => asks[queries[s].data].company = active

(***************************************************************************)
(* The download of a receipt carries the token of the client (the head of  *)
(* the component: mount is given getToken, which fixes the use of the      *)
(* WordPress token manager).                                               *)
(***************************************************************************)
DownloadAuthorised ==
    (\E t \in trees : t.rendered) => DownloadRequest.token = client.token
=============================================================================
