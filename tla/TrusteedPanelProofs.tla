------------------------ MODULE TrusteedPanelProofs ------------------------
(***************************************************************************)
(* Proofs about TrusteedPanel, for any number of components, companies,    *)
(* sections and API bases, and any bounds on the moves and the saves.      *)
(***************************************************************************)
EXTENDS TrusteedPanel, TLAPS

(***************************************************************************)
(* One component at most is mounted.  Before it is mounted a component has *)
(* nothing; then its toast, its timer's id and the timer in the browser go *)
(* together.                                                               *)
(***************************************************************************)
MountedInv ==
    \A p, q \in Panel : life[p] = "mounted" /\ life[q] = "mounted" => p = q

TimerInv ==
    /\ TimersTracked
    /\ \A t \in timers : t.id # 0
    /\ \A p \in Panel :
        /\ life[p] = "setup" => timerId[p] = 0 /\ ~toast[p]
        /\ life[p] = "mounted" => (toast[p] <=> timerId[p] # 0)

(***************************************************************************)
(* An API client, installed or in a request, and an answer under way have  *)
(* their token from the base that they name.                               *)
(***************************************************************************)
TokenInv ==
    /\ TokenStaysHome
    /\ \A c \in calls : \A f \in c.answer : f.token = f.apiBase

(***************************************************************************)
(* Each request for a token is awaited under a number of its own or has    *)
(* led to a mount; the last one is that of the mounted component for its   *)
(* company, unless a timer is set that will make another.                  *)
(***************************************************************************)
CallInv ==
    /\ \A c \in calls : c.id \in 1..Len(asks)
    /\ \A c, d \in calls : c.id = d.id => c = d
    /\ newest <= Len(asks)
    /\ \A n \in 1..Len(asks) : n <= newest \/ \E c \in calls : c.id = n

LastInv ==
    \A p \in Panel :
        life[p] = "mounted" /\ timerId[p] = 0 /\ loaded =>
            /\ Len(asks) > 0
            /\ asks[Len(asks)] = [panel |-> p, company |-> tracked[p]]

IInv == TypeOK /\ MountedInv /\ TimerInv /\ TokenInv /\ CallInv /\ LastInv

-----------------------------------------------------------------------------
\* What Append does.
LEMMA Appended ==
    ASSUME NEW S, NEW s \in Seq(S), NEW e \in S
    PROVE  /\ Append(s, e) \in Seq(S)
           /\ Len(s) \in Nat
           /\ Len(Append(s, e)) = Len(s) + 1
           /\ \A i \in 1..Len(s) : Append(s, e)[i] = s[i]
           /\ Append(s, e)[Len(s) + 1] = e
  OBVIOUS

\* The endpoint grants tokens for safe bases only.
LEMMA Granting ==
    ASSUME params \in Endpoint!Params, NEW session,
           NEW answer \in Endpoint!ExchangeBootstrap(session)
                            \cup {Endpoint!Refused("issue_token_rejected")}
    PROVE  /\ FetchOdooToken(answer) \in Fetched
           /\ FetchOdooToken(answer).token = FetchOdooToken(answer).apiBase
  BY DEF Endpoint!Params, Endpoint!ExchangeBootstrap, Endpoint!IssueToken,
         Endpoint!Granted, Endpoint!Refused, FetchOdooToken, Fetched

\* A mount installs a client whose token is from its base.
LEMMA Mounted ==
    ASSUME BundleTypeOK, NEW options, NEW n \in Nat, Mount(options, n),
           options.source \in {"wp-embed", "odoo-embed"},
           options.token \in Base \cup {Unset},
           options.apiBase \in Base \cup {Unset}
    PROVE  /\ BundleTypeOK'
           /\ options.token = options.apiBase
                => client'.token \in {Unset, client'.base}
  <1>1. BaseOrDefault(options.apiBase) \in Base
    BY BundleAssumption DEF BaseOrDefault
  <1>2. KnownSection(options.section) \in Section
    BY BundleAssumption DEF KnownSection
  <1>3. Spoken(options.locale) \in Language
    BY BundleAssumption DEF Spoken
  <1>4. client' \in Client
    BY <1>1 DEF Mount, Client
  <1>5. trees' \in SUBSET Tree
    <2>1. [by |-> n, section |-> KnownSection(options.section),
           language |-> Spoken(options.locale), rendered |-> FALSE] \in Tree
      BY <1>2, <1>3 DEF Tree
    <2> QED BY <2>1 DEF Mount, BundleTypeOK
  <1>6. options.token = options.apiBase => client'.token \in {Unset, client'.base}
    BY DEF Mount, BaseOrDefault
  <1> QED BY <1>4, <1>5, <1>6 DEF Mount, BundleTypeOK

\* Two facts about a query that is observed, and one that is answered.
LEMMA ObservedQuery ==
    ASSUME NEW q \in Query, client \in Client
    PROVE  /\ Observed(q) \in Query
           /\ \A r \in Observed(q).request : r \in q.request \/ r.client = client
  <1>1. [client |-> client, retried |-> FALSE] \in Request
    BY DEF Request
  <1>2. CASE q.request # {} \/ q.fresh
    BY <1>2 DEF Observed
  <1>3. CASE ~(q.request # {} \/ q.fresh)
    <2> DEFINE error == q.failed /\ q.data # 0
               again == [client |-> client, retried |-> FALSE]
               loading == [q EXCEPT !.request = {again}]
    <2>1. Observed(q) = [loading EXCEPT !.failed = error]
      BY <1>3 DEF Observed
    <2>2. error \in BOOLEAN /\ again \in Request /\ again.client = client
      BY <1>1
    <2> HIDE DEF error, again
    <2>3. loading \in Query /\ loading.request = {again}
      BY <2>2 DEF Query
    <2> HIDE DEF loading
    <2> QED BY <2>1, <2>2, <2>3 DEF Query
  <1> QED BY <1>2, <1>3

LEMMA SettledQuery ==
    ASSUME NEW q \in Query, NEW r \in q.request, NEW outcome, client \in Client
    PROVE  /\ Settled(q, r, outcome) \in Query
           /\ \A x \in Settled(q, r, outcome).request : x.client = client
  <1>1. [client |-> client, retried |-> TRUE] \in Request /\ r \in Request
    BY DEF Request, Query
  <1>2. r.client.by \in Nat
    BY <1>1 DEF Request, Client
  <1>3. CASE outcome = "ok"
    BY <1>2, <1>3 DEF Settled, Query
  <1>4. CASE outcome # "ok" /\ outcome = "failed" /\ ~r.retried
    <2> DEFINE again == [client |-> client, retried |-> TRUE]
    <2>1. Settled(q, r, outcome) = [q EXCEPT !.request = {again}]
      BY <1>4 DEF Settled
    <2>2. again \in Request /\ again.client = client
      BY <1>1
    <2> HIDE DEF again
    <2> QED BY <2>1, <2>2 DEF Query
  <1>5. CASE outcome # "ok" /\ ~(outcome = "failed" /\ ~r.retried)
    BY <1>5 DEF Settled, Query
  <1> QED BY <1>3, <1>4, <1>5

\* A step of the bundle keeps its types, the client, and where tokens go.
LEMMA BundleSteps ==
    ASSUME BundleTypeOK, BundleStep
    PROVE  BundleTypeOK' /\ client' = client /\ loaded' = loaded
           /\ (TokenStaysHome => TokenStaysHome')
  <1>1. client \in Client /\ queries \in [Section -> Query]
    BY DEF BundleTypeOK
  <1>2. client' = client /\ loaded' = loaded
    BY DEF BundleStep, Render, Focus, Age, Reply
  <1>3. ASSUME NEW s \in Section, NEW q \in Query,
               queries' = [queries EXCEPT ![s] = q],
               \A r \in q.request : r \in queries[s].request \/ r.client = client
        PROVE  /\ queries' \in [Section -> Query]
               /\ TokenStaysHome => TokenStaysHome'
    <2>1. queries' \in [Section -> Query]
      BY <1>1, <1>3
    <2>2. ASSUME TokenStaysHome,
                 NEW c \in {client} \cup
                     UNION {{r.client : r \in queries'[x].request} : x \in Section}
          PROVE  c.token \in {Unset, c.base}
      <3>1. CASE c = client
        BY <2>2, <3>1 DEF TokenStaysHome
      <3>2. CASE c # client
        <4>1. PICK x \in Section : \E r \in queries'[x].request : c = r.client
          BY <2>2, <3>2
        <4>2. PICK r \in queries'[x].request : c = r.client
          BY <4>1
        <4>3. r \in queries[x].request
          BY <1>1, <1>3, <4>2, <3>2
        <4> QED BY <2>2, <4>2, <4>3 DEF TokenStaysHome
      <3> QED BY <3>1, <3>2
    <2> QED BY <1>2, <2>1, <2>2 DEF TokenStaysHome
  <1>4. CASE \E t \in trees : Render(t)
    <2>1. PICK t \in trees : Render(t)
      BY <1>4
    <2>2. t \in Tree /\ t.section \in Section
      BY DEF BundleTypeOK, Tree
    <2>3. trees' \in SUBSET Tree
      BY <2>1, <2>2 DEF Render, BundleTypeOK, Tree
    <2>4. queries' = [queries EXCEPT ![t.section] = Observed(queries[t.section])]
      BY <2>1 DEF Render
    <2>5. /\ Observed(queries[t.section]) \in Query
          /\ \A r \in Observed(queries[t.section]).request :
                r \in queries[t.section].request \/ r.client = client
      BY <1>1, <2>2, ObservedQuery
    <2> QED BY <1>2, <1>3, <2>2, <2>3, <2>4, <2>5 DEF BundleTypeOK
  <1>5. CASE \E s \in Section : Focus(s)
    <2>1. PICK s \in Section : Focus(s)
      BY <1>5
    <2>2. queries' = [queries EXCEPT ![s] = Observed(queries[s])] /\ trees' = trees
      BY <2>1 DEF Focus
    <2>3. /\ Observed(queries[s]) \in Query
          /\ \A r \in Observed(queries[s]).request :
                r \in queries[s].request \/ r.client = client
      BY <1>1, ObservedQuery
    <2> QED BY <1>2, <1>3, <2>2, <2>3 DEF BundleTypeOK
  <1>6. CASE \E s \in Section : Age(s)
    <2>1. PICK s \in Section : Age(s)
      BY <1>6
    <2> DEFINE q == [queries[s] EXCEPT !.fresh = FALSE]
    <2>2. queries' = [queries EXCEPT ![s] = q] /\ trees' = trees
      BY <2>1 DEF Age
    <2>3. q \in Query /\ \A r \in q.request : r \in queries[s].request
      BY <1>1 DEF Query
    <2> QED BY <1>2, <1>3, <2>2, <2>3 DEF BundleTypeOK
  <1>7. CASE \E s \in Section : Reply(s)
    <2>1. PICK s \in Section : Reply(s)
      BY <1>7
    <2>4. PICK r \in queries[s].request : \E outcome \in Outcome(r.client) :
            /\ queries' = [queries EXCEPT ![s] = Settled(queries[s], r, outcome)]
            /\ trees' = trees
      BY <2>1 DEF Reply
    <2>5. PICK outcome \in Outcome(r.client) :
            /\ queries' = [queries EXCEPT ![s] = Settled(queries[s], r, outcome)]
            /\ trees' = trees
      BY <2>4
    <2>2. /\ Settled(queries[s], r, outcome) \in Query
          /\ \A x \in Settled(queries[s], r, outcome).request : x.client = client
      BY <1>1, SettledQuery
    <2> QED BY <1>2, <1>3, <2>5, <2>2 DEF BundleTypeOK
  <1> QED BY <1>4, <1>5, <1>6, <1>7 DEF BundleStep

-----------------------------------------------------------------------------
Ask == [panel : Panel, company : Company \cup {NoCompany}]

\* _mountSpa asks for a token, if there is something to mount.
LEMMA Asking ==
    ASSUME TypeOK, NEW p \in Panel, MountSpa(p),
           life'[p] = "mounted" => tracked'[p] \in Company \cup {NoCompany}
    PROVE  /\ asks' \in Seq(Ask) /\ calls' \in SUBSET Call
           /\ life'[p] = "mounted" /\ loaded =>
                /\ Len(asks') = Len(asks) + 1
                /\ \A i \in 1..Len(asks) : asks'[i] = asks[i]
                /\ asks'[Len(asks')] = [panel |-> p, company |-> tracked'[p]]
                /\ calls' = calls \cup {[id |-> Len(asks) + 1, answer |-> {}]}
           /\ ~(life'[p] = "mounted" /\ loaded) => asks' = asks /\ calls' = calls
  <1>1. asks \in Seq(Ask) /\ calls \in SUBSET Call
    BY DEF TypeOK, Ask
  <1>2. CASE life'[p] = "mounted" /\ loaded
    <2> DEFINE ask == [panel |-> p, company |-> tracked'[p]]
    <2>1. ask \in Ask
      BY <1>2 DEF Ask
    <2>2. /\ asks' = Append(asks, ask)
          /\ calls' = calls \cup {[id |-> Len(asks) + 1, answer |-> {}]}
      BY <1>2 DEF MountSpa
    <2> HIDE DEF ask
    <2>3. /\ asks' \in Seq(Ask) /\ Len(asks) \in Nat
          /\ Len(asks') = Len(asks) + 1
          /\ \A i \in 1..Len(asks) : asks'[i] = asks[i]
          /\ asks'[Len(asks) + 1] = ask
      BY <1>1, <2>1, <2>2, Appended
    <2>4. [id |-> Len(asks) + 1, answer |-> {}] \in Call
      BY <2>3 DEF Call
    <2> QED BY <1>1, <1>2, <2>2, <2>3, <2>4 DEF ask
  <1>3. CASE ~(life'[p] = "mounted" /\ loaded)
    BY <1>1, <1>3 DEF MountSpa
  <1> QED BY <1>2, <1>3

\* What the steps of a component need to know of the state's types.
LEMMA Types ==
    ASSUME TypeOK
    PROVE  /\ active \in Company \cup {NoCompany}
           /\ life \in [Panel -> {"setup", "mounted", "unmounted"}]
           /\ tracked \in [Panel -> Company \cup {NoCompany}]
           /\ toast \in [Panel -> BOOLEAN] /\ dirty \in [Panel -> BOOLEAN]
           /\ timerId \in [Panel -> Nat]
           /\ timers \in SUBSET Timer
           /\ lastTimer \in Nat
           /\ asks \in Seq(Ask) /\ Len(asks) \in Nat
           /\ calls \in SUBSET Call
           /\ newest \in Nat
  BY PanelAssumption DEF TypeOK, Ask

\* A timer leads to a request of a component that is mounted.
LEMMA Firing ==
    ASSUME TypeOK, MountedInv, TimerInv, NEW t \in timers, TimerFires(t)
    PROVE  /\ t.panel \in Panel /\ life[t.panel] = "mounted"
           /\ t = TimerOf(t.panel)
           /\ life' = life /\ tracked' = tracked /\ MountSpa(t.panel)
           /\ tracked'[t.panel] \in Company \cup {NoCompany}
  <1>1. t \in Timer
    BY DEF TypeOK
  <1>2. /\ t.panel \in Panel /\ life[t.panel] = "mounted"
        /\ t = TimerOf(t.panel)
    BY <1>1 DEF TimerInv, TimersTracked, Timer, TimerOf
  <1>3. life' = life /\ tracked' = tracked /\ MountSpa(t.panel)
    BY DEF TimerFires
  <1> QED BY <1>2, <1>3, Types DEF MountedInv

\* An opened component asks for the company that is active.
LEMMA Opening ==
    ASSUME TypeOK, NEW p \in Panel, OnMounted(p)
    PROVE  /\ life' = [life EXCEPT ![p] = "mounted"]
           /\ tracked' = [tracked EXCEPT ![p] = active]
           /\ life'[p] = "mounted" /\ tracked'[p] = active
           /\ tracked'[p] \in Company \cup {NoCompany} /\ MountSpa(p)
  BY Types DEF OnMounted

\* A patch finds a switch of the company, or changes nothing that matters here.
LEMMA Patched ==
    ASSUME NEW p \in Panel, Effect(p)
    PROVE  /\ life[p] = "mounted" /\ life' = life /\ client' = client
           /\ UNCHANGED <<bundleVars, active, params, asks, calls, newest, moves, saves>>
           /\ \/ HandleCompanySwitch(p, active)
              \/ /\ UNCHANGED <<tracked, toast, timerId, timers, lastTimer>>
                 /\ dirty' = [dirty EXCEPT ![p] = FALSE]
  BY DEF Effect, bundleVars

-----------------------------------------------------------------------------
\* The invariant holds initially.
LEMMA Initially == Init => IInv
  <1> SUFFICES ASSUME Init PROVE IInv
    OBVIOUS
  <1>1. client \in Client
    BY BundleAssumption DEF Init, BundleInit, Client
  <1>2. NoQuery \in Query
    BY DEF NoQuery, Query
  <1>3. BundleTypeOK
    BY <1>1, <1>2 DEF Init, BundleInit, BundleTypeOK
  <1>4. asks = << >> /\ << >> \in Seq(Ask) /\ Len(<< >>) = 0
    BY DEF Init
  <1>5. TypeOK
    BY <1>3, <1>4, PanelAssumption DEF Init, TypeOK, Ask
  <1>6. MountedInv /\ LastInv
    BY DEF Init, MountedInv, LastInv
  <1>7. TimerInv
    BY DEF Init, TimerInv, TimersTracked
  <1>8. TokenInv
    <2>1. ASSUME NEW c \in {client} \cup
                    UNION {{r.client : r \in queries[x].request} : x \in Section}
          PROVE  c = client
      BY <2>1 DEF Init, BundleInit, NoQuery
    <2>2. client.token = Unset /\ calls = {}
      BY DEF Init, BundleInit
    <2> QED BY <2>1, <2>2 DEF TokenInv, TokenStaysHome
  <1>9. CallInv
    BY <1>4 DEF Init, CallInv
  <1> QED BY <1>5, <1>6, <1>7, <1>8, <1>9 DEF IInv

\* The steps keep the types.
LEMMA TypeStep == TypeOK /\ MountedInv /\ TimerInv /\ [Next]_vars => TypeOK'
  <1> SUFFICES ASSUME TypeOK, MountedInv, TimerInv, [Next]_vars PROVE TypeOK'
    OBVIOUS
  <1>1. ASSUME NEW p \in Panel, OnMounted(p) PROVE TypeOK'
    <2>1. asks' \in Seq(Ask) /\ calls' \in SUBSET Call
      BY <1>1, Opening, Asking
    <2>2. /\ life' \in [Panel -> {"setup", "mounted", "unmounted"}]
          /\ tracked' \in [Panel -> Company \cup {NoCompany}]
      BY <1>1, Opening, Types
    <2>3. moves' \in 0..MaxMoves
      BY <1>1, PanelAssumption DEF OnMounted, TypeOK
    <2>4. BundleTypeOK'
      BY <1>1 DEF OnMounted, TypeOK, BundleTypeOK, bundleVars
    <2> QED BY <1>1, <2>1, <2>2, <2>3, <2>4 DEF OnMounted, TypeOK, Ask
  <1>2. ASSUME NEW p \in Panel, OnWillUnmount(p) PROVE TypeOK'
    <2>1. BundleTypeOK'
      BY <1>2 DEF OnWillUnmount, TypeOK, BundleTypeOK, bundleVars
    <2>2. /\ life' \in [Panel -> {"setup", "mounted", "unmounted"}]
          /\ timerId' \in [Panel -> Nat]
          /\ timers' \in SUBSET Timer /\ dirty' \in [Panel -> BOOLEAN]
      BY <1>2 DEF OnWillUnmount, TypeOK, Cleared
    <2> QED BY <1>2, <2>1, <2>2 DEF OnWillUnmount, TypeOK
  <1>3. ASSUME NEW p \in Panel, Effect(p) PROVE TypeOK'
    <2>1. BundleTypeOK'
      BY <1>3 DEF Effect, TypeOK, BundleTypeOK, bundleVars
    <2>2. [panel |-> p, id |-> lastTimer + 1] \in Timer
      BY Types DEF Timer
    <2>3. /\ tracked' \in [Panel -> Company \cup {NoCompany}]
          /\ toast' \in [Panel -> BOOLEAN] /\ dirty' \in [Panel -> BOOLEAN]
          /\ timerId' \in [Panel -> Nat]
          /\ timers' \in SUBSET Timer
          /\ lastTimer' \in Nat
      <3>1. CASE HandleCompanySwitch(p, active)
        BY <2>2, <3>1, Types DEF HandleCompanySwitch, Cleared
      <3>2. CASE /\ UNCHANGED <<tracked, toast, timerId, timers, lastTimer>>
                 /\ dirty' = [dirty EXCEPT ![p] = FALSE]
        BY <3>2, Types
      <3> QED BY <1>3, <3>1, <3>2, Patched
    <2> QED BY <1>3, <2>1, <2>3 DEF Effect, TypeOK
  <1>4. ASSUME NEW t \in timers, TimerFires(t) PROVE TypeOK'
    <2>1. t.panel \in Panel /\ asks' \in Seq(Ask) /\ calls' \in SUBSET Call
      BY <1>4, Firing, Asking
    <2>2. BundleTypeOK'
      BY <1>4 DEF TimerFires, TypeOK, BundleTypeOK, bundleVars
    <2>3. /\ timers' \in SUBSET Timer
          /\ timerId' \in [Panel -> Nat]
          /\ toast' \in [Panel -> BOOLEAN] /\ dirty' \in [Panel -> BOOLEAN]
      BY <1>4, <2>1, Types DEF TimerFires
    <2> QED BY <1>4, <2>1, <2>2, <2>3 DEF TimerFires, TypeOK, Ask
  <1>5. ASSUME NEW c \in calls, Exchange(c) PROVE TypeOK'
    <2>1. PICK session \in Sessions :
            \E answer \in Endpoint!ExchangeBootstrap(session)
                            \cup {Endpoint!Refused("issue_token_rejected")} :
               calls' = (calls \ {c})
                          \cup {[c EXCEPT !.answer = {FetchOdooToken(answer)}]}
      BY <1>5 DEF Exchange
    <2>2. PICK answer \in Endpoint!ExchangeBootstrap(session)
                            \cup {Endpoint!Refused("issue_token_rejected")} :
               calls' = (calls \ {c})
                          \cup {[c EXCEPT !.answer = {FetchOdooToken(answer)}]}
      BY <2>1
    <2>3. FetchOdooToken(answer) \in Fetched
      BY <2>2, Granting DEF TypeOK
    <2>4. [c EXCEPT !.answer = {FetchOdooToken(answer)}] \in Call
      BY <2>3, Types DEF Call
    <2>5. calls' \in SUBSET Call
      BY <2>2, <2>4, Types
    <2>6. BundleTypeOK'
      BY <1>5 DEF Exchange, TypeOK, BundleTypeOK, bundleVars
    <2> QED BY <1>5, <2>5, <2>6 DEF Exchange, TypeOK, componentVars
  <1>6. ASSUME NEW c \in calls, MountAnswered(c) PROVE TypeOK'
    <2>1. c \in Call
      BY Types
    <2>2. PICK fetched \in c.answer :
            Mount([section |-> ResolveSection(asks[c.id].panel),
                   source |-> "odoo-embed",
                   locale |-> ResolveLocale,
                   token |-> fetched.token,
                   apiBase |-> fetched.apiBase], c.id)
      BY <1>6 DEF MountAnswered
    <2>3. /\ fetched.token \in Base \cup {Unset}
          /\ fetched.apiBase \in Base \cup {Unset}
          /\ c.id \in Nat
      BY <2>1, <2>2, PanelAssumption DEF Call, Fetched
    <2>4. BundleTypeOK'
      BY <2>2, <2>3, Mounted DEF TypeOK
    <2>5. newest' \in Nat /\ calls' \in SUBSET Call
      BY <1>6, <2>3, Types DEF MountAnswered
    <2> QED BY <1>6, <2>4, <2>5 DEF MountAnswered, TypeOK, componentVars
  <1>7. ASSUME NEW c \in Company, SwitchCompany(c) PROVE TypeOK'
    <2>1. BundleTypeOK'
      BY <1>7 DEF SwitchCompany, TypeOK, BundleTypeOK, bundleVars
    <2>2. moves' \in 0..MaxMoves
      BY <1>7, PanelAssumption DEF SwitchCompany, TypeOK
    <2> QED BY <1>7, <2>1, <2>2 DEF SwitchCompany, TypeOK
  <1>8. ASSUME NEW p \in Configurations, Save(p) PROVE TypeOK'
    <2>1. BundleTypeOK'
      BY <1>8 DEF Save, TypeOK, BundleTypeOK, bundleVars
    <2>2. saves' \in 0..MaxSaves /\ params' \in Endpoint!Params
      BY <1>8, PanelAssumption DEF Save, TypeOK
    <2> QED BY <1>8, <2>1, <2>2 DEF Save, TypeOK, componentVars
  <1>9. CASE Bundle
    <2>1. BundleTypeOK'
      BY <1>9, BundleSteps DEF Bundle, TypeOK
    <2> QED BY <1>9, <2>1 DEF Bundle, InBundle, TypeOK, componentVars
  <1>10. CASE UNCHANGED vars
    BY <1>10 DEF vars, bundleVars, componentVars, TypeOK, BundleTypeOK
  <1> QED BY <1>1, <1>2, <1>3, <1>4, <1>5, <1>6, <1>7, <1>8, <1>9, <1>10 DEF Next

\* What the other steps leave alone.
LEMMA Elsewhere ==
    ASSUME TypeOK,
           \/ \E c \in calls : Exchange(c) \/ MountAnswered(c)
           \/ \E c \in Company : SwitchCompany(c)
           \/ \E p \in Configurations : Save(p)
           \/ Bundle
           \/ UNCHANGED vars
    PROVE  UNCHANGED <<life, tracked, toast, timerId, timers, lastTimer, asks, loaded>>
  <1>1. Bundle => loaded' = loaded
    BY BundleSteps DEF Bundle, TypeOK
  <1>2. \A c \in calls : MountAnswered(c) => loaded' = loaded
    BY DEF MountAnswered, Mount
  <1> QED
    BY <1>1, <1>2
       DEF Exchange, MountAnswered, SwitchCompany, Save, Bundle, InBundle, vars,
           bundleVars, componentVars

\* One component at most is mounted.
LEMMA MountedStep ==
    TypeOK /\ MountedInv /\ TimerInv /\ [Next]_vars => MountedInv'
  <1> SUFFICES ASSUME TypeOK, MountedInv, TimerInv, [Next]_vars PROVE MountedInv'
    OBVIOUS
  <1>1. ASSUME NEW p \in Panel, OnMounted(p) PROVE MountedInv'
    <2>1. \A q \in Panel : life[q] # "mounted"
      BY <1>1 DEF OnMounted
    <2>2. \A q \in Panel : life'[q] = "mounted" => q = p
      BY <1>1, <2>1, Opening, Types
    <2> QED BY <1>1, <2>2, Opening, Types DEF MountedInv
  <1>2. ASSUME NEW p \in Panel, OnWillUnmount(p) PROVE MountedInv'
    BY <1>2, Types DEF OnWillUnmount, MountedInv
  <1>3. ASSUME NEW p \in Panel, Effect(p) PROVE MountedInv'
    BY <1>3, Patched DEF MountedInv
  <1>4. ASSUME NEW t \in timers, TimerFires(t) PROVE MountedInv'
    BY <1>4, Firing DEF MountedInv
  <1>5. CASE UNCHANGED life
    BY <1>5 DEF MountedInv
  <1> QED BY <1>1, <1>2, <1>3, <1>4, <1>5, Elsewhere DEF Next

\* Toast, id and timer go together.
LEMMA TimerStep ==
    TypeOK /\ MountedInv /\ TimerInv /\ [Next]_vars => TimerInv'
  <1> SUFFICES ASSUME TypeOK, MountedInv, TimerInv, [Next]_vars PROVE TimerInv'
    OBVIOUS
  <1>0. \A t \in timers : t.panel \in Panel /\ t = [panel |-> t.panel, id |-> t.id]
    BY Types DEF Timer
  <1>1. ASSUME NEW p \in Panel, OnMounted(p) PROVE TimerInv'
    <2>1. /\ life[p] = "setup" /\ timers' = timers /\ toast' = toast
          /\ timerId' = timerId
      BY <1>1 DEF OnMounted
    <2>2. \A q \in Panel : q # p => life'[q] = life[q]
      BY <1>1, Opening, Types
    <2>3. life'[p] = "mounted" /\ timerId[p] = 0 /\ ~toast[p]
      BY <1>1, <2>1, Opening DEF TimerInv
    <2>4. \A t \in timers : t.panel # p
      BY <2>1 DEF TimerInv, TimersTracked
    <2> QED
      BY <1>0, <2>1, <2>2, <2>3, <2>4 DEF TimerInv, TimersTracked, TimerOf
  <1>2. ASSUME NEW p \in Panel, OnWillUnmount(p) PROVE TimerInv'
    <2>1. /\ life' = [life EXCEPT ![p] = "unmounted"]
          /\ timerId' = [timerId EXCEPT ![p] = 0]
          /\ timers' = timers \ {TimerOf(p)} /\ toast' = toast
      BY <1>2 DEF OnWillUnmount, Cleared
    <2>2. \A t \in timers' : t \in timers /\ t.panel # p
      BY <1>0, <2>1 DEF TimerInv, TimersTracked, TimerOf
    <2>3. \A q \in Panel : q # p => life'[q] = life[q] /\ timerId'[q] = timerId[q]
      BY <2>1, Types
    <2>4. life'[p] = "unmounted"
      BY <2>1, Types
    <2>5. TimersTracked'
      <3>1. \A q \in Panel : q # p => TimerOf(q)' = TimerOf(q) /\ TimerOf(q) # TimerOf(p)
        BY <2>3 DEF TimerOf
      <3> QED
        BY <1>0, <2>1, <2>2, <2>3, <2>4, <3>1 DEF TimerInv, TimersTracked
    <2> QED BY <2>1, <2>2, <2>3, <2>4, <2>5 DEF TimerInv
  <1>3. ASSUME NEW p \in Panel, Effect(p), HandleCompanySwitch(p, active)
        PROVE  TimerInv'
    <2> DEFINE new == [panel |-> p, id |-> lastTimer + 1]
    <2>1. /\ life' = life /\ life[p] = "mounted"
          /\ timerId' = [timerId EXCEPT ![p] = lastTimer + 1]
          /\ timers' = (timers \ {TimerOf(p)}) \cup {new}
          /\ toast' = [toast EXCEPT ![p] = TRUE]
      BY <1>3, Patched DEF HandleCompanySwitch, Cleared
    <2>2. /\ \A q \in Panel : q # p => toast'[q] = toast[q] /\ timerId'[q] = timerId[q]
          /\ toast'[p] /\ timerId'[p] = lastTimer + 1 /\ lastTimer + 1 # 0
      BY <2>1, Types
    <2>3. \A t \in timers' : t = new \/ (t \in timers /\ t.panel # p)
      BY <1>0, <2>1 DEF TimerInv, TimersTracked, TimerOf
    <2>4. /\ TimerOf(p)' = new
          /\ \A q \in Panel : q # p => TimerOf(q)' = TimerOf(q) /\ TimerOf(q) # TimerOf(p)
      BY <2>2 DEF TimerOf
    <2>5. new.panel = p /\ new.id = lastTimer + 1
      OBVIOUS
    <2> HIDE DEF new
    <2>6. TimersTracked'
      BY <1>0, <2>1, <2>2, <2>3, <2>4, <2>5 DEF TimerInv, TimersTracked
    <2>7. \A t \in timers' : t.id # 0
      BY <2>2, <2>3, <2>5 DEF TimerInv
    <2> QED BY <2>1, <2>2, <2>6, <2>7 DEF TimerInv
  <1>4. ASSUME NEW t \in timers, TimerFires(t) PROVE TimerInv'
    <2> DEFINE p == t.panel
    <2>1. /\ p \in Panel /\ life' = life /\ t = TimerOf(p) /\ life[p] = "mounted"
          /\ timers' = timers \ {t}
          /\ timerId' = [timerId EXCEPT ![p] = 0]
          /\ toast' = [toast EXCEPT ![p] = FALSE]
      BY <1>4, Firing DEF TimerFires
    <2> HIDE DEF p
    <2>2. /\ \A q \in Panel : q # p => toast'[q] = toast[q] /\ timerId'[q] = timerId[q]
          /\ ~toast'[p] /\ timerId'[p] = 0
      BY <2>1, Types
    <2>3. \A u \in timers' : u \in timers /\ u.panel # p
      BY <1>0, <2>1 DEF TimerInv, TimersTracked, TimerOf
    <2>4. \A q \in Panel : q # p => TimerOf(q)' = TimerOf(q) /\ TimerOf(q) # t
      BY <2>1, <2>2 DEF TimerOf
    <2>5. TimersTracked'
      BY <1>0, <2>1, <2>2, <2>3, <2>4 DEF TimerInv, TimersTracked
    <2> QED BY <2>1, <2>2, <2>3, <2>5 DEF TimerInv
  <1>5. CASE UNCHANGED <<life, toast, timerId, timers>>
    BY <1>5 DEF TimerInv, TimersTracked, TimerOf
  <1> QED BY <1>1, <1>2, <1>3, <1>4, <1>5, Patched, Elsewhere DEF Next

\* A token stays with the base that minted it.
LEMMA TokenStep ==
    TypeOK /\ MountedInv /\ TimerInv /\ TokenInv /\ [Next]_vars => TokenInv'
  <1> SUFFICES ASSUME TypeOK, MountedInv, TimerInv, TokenInv, [Next]_vars
               PROVE  TokenInv'
    OBVIOUS
  <1> DEFINE CallsHome == \A c \in calls : \A f \in c.answer : f.token = f.apiBase
  <1>1. ASSUME UNCHANGED <<client, queries>> PROVE TokenStaysHome'
    BY <1>1 DEF TokenInv, TokenStaysHome
  <1>2. ASSUME NEW p \in Panel, MountSpa(p) PROVE CallsHome'
    BY <1>2 DEF MountSpa, TokenInv
  <1>3. CASE \E p \in Panel : OnMounted(p)
    BY <1>1, <1>2, <1>3 DEF OnMounted, TokenInv, bundleVars
  <1>4. CASE \E p \in Panel : OnWillUnmount(p) \/ Effect(p)
    BY <1>1, <1>4, Patched DEF OnWillUnmount, TokenInv, bundleVars
  <1>5. CASE \E t \in timers : TimerFires(t)
    <2>1. PICK t \in timers : TimerFires(t)
      BY <1>5
    <2>2. t.panel \in Panel /\ MountSpa(t.panel)
      BY <2>1, Firing
    <2> QED BY <1>1, <1>2, <2>1, <2>2 DEF TimerFires, TokenInv, bundleVars
  <1>6. ASSUME NEW c \in calls, Exchange(c) PROVE TokenInv'
    <2>1. PICK session \in Sessions :
            \E answer \in Endpoint!ExchangeBootstrap(session)
                            \cup {Endpoint!Refused("issue_token_rejected")} :
               calls' = (calls \ {c})
                          \cup {[c EXCEPT !.answer = {FetchOdooToken(answer)}]}
      BY <1>6 DEF Exchange
    <2>2. PICK answer \in Endpoint!ExchangeBootstrap(session)
                            \cup {Endpoint!Refused("issue_token_rejected")} :
               calls' = (calls \ {c})
                          \cup {[c EXCEPT !.answer = {FetchOdooToken(answer)}]}
      BY <2>1
    <2>3. FetchOdooToken(answer).token = FetchOdooToken(answer).apiBase
      BY <2>2, Granting DEF TypeOK
    <2>4. [c EXCEPT !.answer = {FetchOdooToken(answer)}].answer = {FetchOdooToken(answer)}
      BY Types DEF Call
    <2>5. CallsHome'
      BY <2>2, <2>3, <2>4 DEF TokenInv
    <2> QED BY <1>1, <1>6, <2>5 DEF Exchange, TokenInv, bundleVars
  <1>7. ASSUME NEW c \in calls, MountAnswered(c) PROVE TokenInv'
    <2>1. c \in Call
      BY Types
    <2> DEFINE options(f) == [section |-> ResolveSection(asks[c.id].panel),
                              source |-> "odoo-embed",
                              locale |-> ResolveLocale,
                              token |-> f.token,
                              apiBase |-> f.apiBase]
    <2>2. PICK fetched \in c.answer : Mount(options(fetched), c.id)
      BY <1>7 DEF MountAnswered
    <2>3. /\ fetched.token \in Base \cup {Unset}
          /\ fetched.apiBase \in Base \cup {Unset}
          /\ fetched.token = fetched.apiBase /\ c.id \in Nat
      BY <2>1, <2>2, PanelAssumption DEF Call, Fetched, TokenInv
    <2> DEFINE opts == options(fetched)
    <2>7. /\ opts.source = "odoo-embed" /\ opts.token = fetched.token
          /\ opts.apiBase = fetched.apiBase /\ Mount(opts, c.id)
      BY <2>2
    <2> HIDE DEF opts
    <2>4. client'.token \in {Unset, client'.base}
      BY <2>3, <2>7, Mounted DEF TypeOK
    <2>5. queries' = queries
      BY <2>2 DEF Mount
    <2>6. TokenStaysHome'
      BY <2>4, <2>5 DEF TokenInv, TokenStaysHome
    <2> QED BY <1>7, <2>6 DEF MountAnswered, TokenInv
  <1>8. CASE \E c \in Company : SwitchCompany(c)
    BY <1>1, <1>8 DEF SwitchCompany, TokenInv, bundleVars
  <1>9. CASE \E p \in Configurations : Save(p)
    BY <1>1, <1>9 DEF Save, TokenInv, bundleVars
  <1>10. CASE Bundle
    BY <1>10, BundleSteps DEF Bundle, InBundle, TypeOK, TokenInv
  <1>11. CASE UNCHANGED vars
    BY <1>1, <1>11 DEF vars, bundleVars, TokenInv
  <1> QED BY <1>3, <1>4, <1>5, <1>6, <1>7, <1>8, <1>9, <1>10, <1>11 DEF Next

\* Requests are numbered, and none is lost.
LEMMA CallStep ==
    TypeOK /\ MountedInv /\ TimerInv /\ CallInv /\ [Next]_vars => CallInv'
  <1> SUFFICES ASSUME TypeOK, MountedInv, TimerInv, CallInv, [Next]_vars
               PROVE  CallInv'
    OBVIOUS
  <1>1. ASSUME NEW p \in Panel, MountSpa(p), newest' = newest,
               life'[p] = "mounted" => tracked'[p] \in Company \cup {NoCompany}
        PROVE  CallInv'
    <2>1. CASE life'[p] = "mounted" /\ loaded
      <3> DEFINE new == [id |-> Len(asks) + 1, answer |-> {}]
      <3>1. /\ Len(asks') = Len(asks) + 1
            /\ calls' = calls \cup {new} /\ new.id = Len(asks) + 1
        BY <1>1, <2>1, Asking
      <3> HIDE DEF new
      <3>2. Len(asks) \in Nat /\ newest \in Nat
        BY Types
      <3>3. \A c \in calls' : c.id \in 1..Len(asks')
        BY <3>1, <3>2 DEF CallInv
      <3>4. \A c, d \in calls' : c.id = d.id => c = d
        <4>1. \A c \in calls : c.id # Len(asks) + 1
          BY <3>2 DEF CallInv
        <4> QED BY <3>1, <4>1 DEF CallInv
      <3>5. ASSUME NEW n \in 1..Len(asks')
            PROVE  n <= newest' \/ \E c \in calls' : c.id = n
        <4>1. n \in 1..Len(asks) \/ n = Len(asks) + 1
          BY <3>1, <3>2
        <4> QED BY <1>1, <3>1, <4>1 DEF CallInv
      <3>6. newest' <= Len(asks')
        BY <1>1, <3>1, <3>2 DEF CallInv
      <3> QED BY <3>3, <3>4, <3>5, <3>6 DEF CallInv
    <2>2. CASE ~(life'[p] = "mounted" /\ loaded)
      <3>1. asks' = asks /\ calls' = calls
        BY <1>1, <2>2 DEF MountSpa
      <3> QED BY <1>1, <3>1 DEF CallInv
    <2> QED BY <2>1, <2>2
  <1>2. ASSUME NEW p \in Panel, OnMounted(p) PROVE CallInv'
    BY <1>1, <1>2, Opening DEF OnMounted
  <1>3. ASSUME NEW t \in timers, TimerFires(t) PROVE CallInv'
    BY <1>1, <1>3, Firing DEF TimerFires
  <1>4. ASSUME NEW c \in calls, Exchange(c) PROVE CallInv'
    <2>1. PICK answer : calls' = (calls \ {c}) \cup {[c EXCEPT !.answer = answer]}
      BY <1>4 DEF Exchange
    <2> DEFINE d == [c EXCEPT !.answer = answer]
    <2>2. d.id = c.id
      BY Types DEF Call
    <2>3. calls' = (calls \ {c}) \cup {d}
      BY <2>1
    <2> HIDE DEF d
    <2>4. asks' = asks /\ newest' = newest
      BY <1>4 DEF Exchange
    <2> QED BY <2>2, <2>3, <2>4 DEF CallInv
  <1>5. ASSUME NEW c \in calls, MountAnswered(c) PROVE CallInv'
    <2>1. /\ calls' = calls \ {c} /\ asks' = asks
          /\ newest' = IF c.id > newest THEN c.id ELSE newest
      BY <1>5 DEF MountAnswered
    <2>2. c.id \in 1..Len(asks) /\ Len(asks) \in Nat /\ newest \in Nat
      BY Types DEF CallInv
    <2>3. newest' <= Len(asks') /\ newest <= newest' /\ c.id <= newest' /\ newest' \in Nat
      BY <2>1, <2>2 DEF CallInv
    <2>4. ASSUME NEW n \in 1..Len(asks)
          PROVE  n <= newest' \/ \E d \in calls' : d.id = n
      <3>1. CASE n <= newest
        BY <2>2, <2>3, <3>1
      <3>2. CASE n = c.id
        BY <2>3, <3>2
      <3>3. CASE ~(n <= newest) /\ n # c.id
        BY <2>1, <3>3 DEF CallInv
      <3> QED BY <3>1, <3>2, <3>3
    <2> QED BY <2>1, <2>3, <2>4 DEF CallInv
  <1>6. CASE UNCHANGED <<asks, calls, newest>>
    BY <1>6 DEF CallInv
  <1>7. CASE \E p \in Panel : OnWillUnmount(p) \/ Effect(p)
    BY <1>6, <1>7, Patched DEF OnWillUnmount
  <1>8. CASE (\E c \in Company : SwitchCompany(c)) \/ (\E p \in Configurations : Save(p))
             \/ Bundle \/ UNCHANGED vars
    BY <1>6, <1>8 DEF SwitchCompany, Save, Bundle, InBundle, vars
  <1> QED BY <1>2, <1>3, <1>4, <1>5, <1>7, <1>8 DEF Next

\* The last request is for the company of the mounted component.
LEMMA LastStep ==
    TypeOK /\ MountedInv /\ TimerInv /\ LastInv /\ [Next]_vars => LastInv'
  <1> SUFFICES ASSUME TypeOK, MountedInv, TimerInv, LastInv, [Next]_vars,
                      NEW q \in Panel,
                      life'[q] = "mounted", timerId'[q] = 0, loaded'
               PROVE  /\ Len(asks') > 0
                      /\ asks'[Len(asks')] = [panel |-> q, company |-> tracked'[q]]
    BY DEF LastInv
  <1>1. ASSUME NEW p \in Panel, OnMounted(p) PROVE q = p
    BY <1>1, Opening, Types DEF OnMounted
  <1>2. CASE \E p \in Panel : OnMounted(p)
    <2>1. OnMounted(q) /\ loaded
      BY <1>1, <1>2 DEF OnMounted, bundleVars
    <2> QED BY <2>1, Opening, Asking, Types
  <1>3. ASSUME NEW p \in Panel, OnWillUnmount(p) PROVE q # p
    BY <1>3, Types DEF OnWillUnmount
  <1>4. CASE \E p \in Panel : OnWillUnmount(p)
    <2>1. PICK p \in Panel : OnWillUnmount(p)
      BY <1>4
    <2>2. /\ life[q] = life'[q] /\ timerId[q] = timerId'[q]
          /\ UNCHANGED <<asks, tracked, loaded>>
      BY <1>3, <2>1, Types DEF OnWillUnmount, bundleVars
    <2> QED BY <2>2 DEF LastInv
  <1>5. CASE \E p \in Panel : Effect(p)
    <2>1. PICK p \in Panel : Effect(p)
      BY <1>5
    <2>2. HandleCompanySwitch(p, active) => q # p
      BY Types DEF HandleCompanySwitch
    <2>3. /\ life[q] = life'[q] /\ timerId[q] = timerId'[q]
          /\ tracked[q] = tracked'[q]
          /\ UNCHANGED <<asks, loaded>>
      BY <2>1, <2>2, Patched, Types DEF HandleCompanySwitch, bundleVars
    <2> QED BY <2>3 DEF LastInv
  <1>6. CASE \E t \in timers : TimerFires(t)
    <2>1. PICK t \in timers : TimerFires(t)
      BY <1>6
    <2>2. q = t.panel /\ loaded
      BY <2>1, Firing DEF MountedInv, TimerFires, bundleVars
    <2> QED BY <2>1, <2>2, Firing, Asking, Types
  <1>7. CASE UNCHANGED <<life, tracked, timerId, asks, loaded>>
    BY <1>7 DEF LastInv
  <1> QED BY <1>2, <1>4, <1>5, <1>6, <1>7, Elsewhere DEF Next

LEMMA Inductive == IInv /\ [Next]_vars => IInv'
  BY TypeStep, MountedStep, TimerStep, TokenStep, CallStep, LastStep DEF IInv

\* The invariant says what is to be shown.
LEMMA Current == IInv => InOrderIsCurrent
  <1> SUFFICES ASSUME IInv, NEW p \in Panel, Quiet(p), loaded, client.by = newest
               PROVE  /\ client.by # 0
                      /\ asks[client.by] = [panel |-> p, company |-> active]
    BY DEF InOrderIsCurrent
  <1>1. Len(asks) \in Nat /\ newest \in Nat
    BY Types DEF IInv
  <1>2. /\ Len(asks) > 0
        /\ asks[Len(asks)] = [panel |-> p, company |-> tracked[p]]
    BY DEF IInv, LastInv, Quiet
  <1>3. \A c \in calls : c.id # Len(asks)
    BY <1>2 DEF Quiet
  <1>4. newest = Len(asks)
    BY <1>1, <1>2, <1>3 DEF IInv, CallInv
  <1> QED BY <1>1, <1>2, <1>4 DEF Quiet

-----------------------------------------------------------------------------
\* The inductive invariant holds in every state.
LEMMA Invariant == Spec => []IInv
  <1>1. Init => IInv
    BY Initially
  <1>2. IInv /\ [Next]_vars => IInv'
    BY Inductive
  <1> QED BY <1>1, <1>2, PTL DEF Spec

\* The variables have their types.
THEOREM TypeCorrect == Spec => []TypeOK
  <1>1. IInv => TypeOK
    BY DEF IInv
  <1> QED BY <1>1, Invariant, PTL

\* Every timer of the browser is tracked by a mounted component that shows
\* its toast, and no toast stays without its timer (_handleCompanySwitch,
\* onWillUnmount).
THEOREM Timers == Spec => []TimersTracked
  <1>1. IInv => TimersTracked
    BY DEF IInv, TimerInv
  <1> QED BY <1>1, Invariant, PTL

\* A token is only ever sent to the base that minted it (_mountSpa passes on
\* the api_base of the token's own answer).
THEOREM TokenHome == Spec => []TokenStaysHome
  <1>1. IInv => TokenStaysHome
    BY DEF IInv, TokenInv
  <1> QED BY <1>1, Invariant, PTL

\* With answers in order, a component at rest has the SPA mounted for the
\* active company (_handleCompanySwitch, _mountSpa).
THEOREM InOrder == Spec => []InOrderIsCurrent
  BY Current, Invariant, PTL
=============================================================================
