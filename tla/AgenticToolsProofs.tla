------------------------- MODULE AgenticToolsProofs -------------------------
(***************************************************************************)
(* Proofs about AgenticTools, for all sets of tools, calls, carts and      *)
(* admins.                                                                 *)
(***************************************************************************)
EXTENDS AgenticTools, TLAPS

\* Attempts are counted, and only sent requests are under way or have paid.
CallsOK ==
    /\ \A i \in Call : /\ call[i].stage = "idle" => call[i].attempt = 0
                       /\ call[i].stage = "send" => call[i].attempt <= MaxRetries
                       /\ call[i].stage = "wait" => call[i].attempt > 0
    /\ \A r \in paid : call[r[1]].tool = "x402"

\* Before the first save, payment rails are off and nobody has got past them.
Quiet ==
    saves = 0 =>
        /\ paid = {}
        /\ \A r \in wire : call[r[1]].tool \in DefaultOn
        /\ \A t \in Tool \ DefaultOn : param[t] = "off"
        /\ \A i \in Call : call[i].stage \in {"send", "wait"}
                              => call[i].tool \in DefaultOn

\* A form that no other save has overtaken shows every tool that is on.
FormsOK ==
    \A a \in Admin : (form[a].open /\ ~form[a].overtaken) =>
        \A t \in Tool : IsEnabled(t) => t \in form[a].ticks

IInv ==
    TypeOK /\ CallsOK /\ Quiet /\ FormsOK /\ PaidOnce /\ SuccessMeansPaid

-----------------------------------------------------------------------------
\* What an attempt leads to.
LEMMA AfterAttemptType ==
    ASSUME NEW n \in 0..MaxRetries + 1,
           NEW answer \in Answer \cup {NoAnswer}
    PROVE  /\ AfterAttempt(n, answer) \in {"retry", "ok", "failed"}
           /\ AfterAttempt(n, answer) = "retry" => n <= MaxRetries
           /\ AfterAttempt(n, answer) = "ok" => answer = "ok"
  BY DEF AfterAttempt, Transient, Answer, NoAnswer

\* An attempt changes the stage of its call only, and ends in success only
\* with an ok answer.
LEMMA AttemptedCall ==
    ASSUME TypeOK, NEW i \in Call, NEW answer \in Answer \cup {NoAnswer}
    PROVE  /\ Attempted(i, answer) \in [Call -> ToolCall]
           /\ \A j \in Call :
                /\ Attempted(i, answer)[j].tool = call[j].tool
                /\ Attempted(i, answer)[j].cart = call[j].cart
                /\ Attempted(i, answer)[j].attempt = call[j].attempt
                /\ j # i => Attempted(i, answer)[j] = call[j]
           /\ Attempted(i, answer)[i].stage \in {"send", "ok", "failed"}
           /\ Attempted(i, answer)[i].stage = "send"
                => call[i].attempt <= MaxRetries
           /\ Attempted(i, answer)[i].stage = "ok" => answer = "ok"
  <1> DEFINE next == AfterAttempt(call[i].attempt, answer)
             stage == IF next = "retry" THEN "send" ELSE next
  <1>1. call \in [Call -> ToolCall] /\ call[i].attempt \in 0..MaxRetries + 1
    BY DEF TypeOK, ToolCall
  <1>2. /\ next \in {"retry", "ok", "failed"}
        /\ next = "retry" => call[i].attempt <= MaxRetries
        /\ next = "ok" => answer = "ok"
    BY <1>1, AfterAttemptType
  <1>3. Attempted(i, answer) = [call EXCEPT ![i].stage = stage]
    BY DEF Attempted
  <1>4. /\ stage \in {"send", "ok", "failed"}
        /\ stage = "send" => call[i].attempt <= MaxRetries
        /\ stage = "ok" => answer = "ok"
    BY <1>2
  <1> HIDE DEF next, stage
  <1> QED BY <1>1, <1>3, <1>4 DEF ToolCall

\* A tool whose switch is seeded is on if and only if it was.
LEMMA SeedingNeutral ==
    ASSUME TypeOK, Reinstall, NEW t \in Tool
    PROVE  IsEnabled(t)' <=> IsEnabled(t)
  BY DEF TypeOK, Reinstall, Seeded, IsEnabled, IsAvailable, Coerce, Stored

-----------------------------------------------------------------------------
\* The inductive invariant holds initially.
LEMMA Initially == Init => IInv
  <1> SUFFICES ASSUME Init PROVE IInv
    OBVIOUS
  <1>1. call \in [Call -> ToolCall] /\ \A i \in Call : call[i].stage = "idle"
    BY DEF Init, ToolCall, MaxRetries
  <1>2. \A i \in Call : call[i].attempt = 0
    BY DEF Init
  <1>3. TypeOK
    BY <1>1, ToolsAssumption
       DEF Init, TypeOK, Stored, Form, Closed, Request
  <1>4. CallsOK /\ PaidOnce /\ SuccessMeansPaid
    BY <1>1, <1>2 DEF Init, CallsOK, PaidOnce, SuccessMeansPaid
  <1>5. Quiet
    BY <1>1 DEF Init, Quiet
  <1>6. FormsOK
    BY DEF Init, FormsOK, Closed
  <1> QED BY <1>3, <1>4, <1>5, <1>6 DEF IInv

\* Every step keeps it.
LEMMA Inductive == IInv /\ [Next]_vars => IInv'
  <1> SUFFICES ASSUME IInv, [Next]_vars PROVE IInv'
    OBVIOUS
  <1> USE DEF IInv
  <1>1. CASE Reinstall
    <2>1. UNCHANGED <<form, saves, choice, call, wire, paid>>
      BY <1>1 DEF Reinstall
    <2>2. TypeOK'
      BY <1>1, <2>1 DEF TypeOK, Reinstall, Seeded, Stored
    <2>3. CallsOK' /\ PaidOnce' /\ SuccessMeansPaid'
      BY <2>1 DEF CallsOK, PaidOnce, SuccessMeansPaid, SameCart
    <2>4. Quiet'
      BY <1>1, <2>1 DEF Quiet, Reinstall, Seeded
    <2>5. FormsOK'
      BY <1>1, <2>1, SeedingNeutral DEF FormsOK
    <2> QED BY <2>2, <2>3, <2>4, <2>5
  <1>2. ASSUME NEW a \in Admin, OpenForm(a) PROVE IInv'
    <2>1. UNCHANGED <<param, saves, choice, call, wire, paid>>
      BY <1>2 DEF OpenForm
    <2>2. TypeOK'
      BY <1>2, <2>1 DEF TypeOK, OpenForm, Form
    <2>3. CallsOK' /\ PaidOnce' /\ SuccessMeansPaid' /\ Quiet'
      BY <2>1 DEF CallsOK, PaidOnce, SuccessMeansPaid, SameCart, Quiet
    <2>4. FormsOK'
      <3>1. \A t \in Tool : IsEnabled(t)' <=> IsEnabled(t)
        BY <2>1 DEF IsEnabled
      <3>2. \A t \in Tool : IsEnabled(t) => Loaded(t)
        BY DEF IsEnabled, Loaded, Coerce
      <3> QED BY <1>2, <3>1, <3>2 DEF OpenForm, FormsOK, TypeOK, Form
    <2> QED BY <2>2, <2>3, <2>4
  <1>3. ASSUME NEW a \in Admin, Save(a) PROVE IInv'
    <2>1. /\ UNCHANGED <<call, wire, paid>>
          /\ saves' = saves + 1 /\ saves < MaxSaves
          /\ form' = [b \in Admin |->
                        IF b = a THEN Closed
                        ELSE [form[b] EXCEPT !.overtaken = form[b].open]]
      BY <1>3 DEF Save
    <2>2. TypeOK'
      <3>1. /\ param' \in [Tool -> Stored]
            /\ choice' \in [Tool -> {"none", "on", "off"}]
        BY <1>3 DEF Save, TypeOK, Stored
      <3>2. form' \in [Admin -> Form]
        BY <2>1 DEF TypeOK, Form, Closed
      <3>3. saves' \in 0..MaxSaves
        BY <2>1, ToolsAssumption DEF TypeOK
      <3> QED BY <2>1, <3>1, <3>2, <3>3 DEF TypeOK
    <2>3. CallsOK' /\ PaidOnce' /\ SuccessMeansPaid'
      BY <2>1 DEF CallsOK, PaidOnce, SuccessMeansPaid, SameCart
    <2>4. Quiet'
      BY <2>1 DEF Quiet, TypeOK
    <2>5. FormsOK'
      BY <2>1 DEF FormsOK, TypeOK, Form, Closed
    <2> QED BY <2>2, <2>3, <2>4, <2>5
  <1>4. ASSUME NEW i \in Call, Invoke(i) PROVE IInv'
    <2>1. UNCHANGED <<settings, wire, paid>>
      BY <1>4 DEF Invoke
    <2>2. PICK proper \in BOOLEAN :
             call' = [call EXCEPT ![i].stage =
                         IF Refused(call[i].tool, proper) THEN "refused"
                         ELSE "send"]
      BY <1>4 DEF Invoke
    <2> DEFINE s == IF Refused(call[i].tool, proper) THEN "refused" ELSE "send"
    <2>3. s \in {"refused", "send"} /\ (s = "send" => IsEnabled(call[i].tool))
      BY DEF Refused
    <2>4. call' = [call EXCEPT ![i].stage = s] /\ call[i].stage = "idle"
      BY <1>4, <2>2 DEF Invoke
    <2> HIDE DEF s
    <2>5. TypeOK'
      BY <2>1, <2>3, <2>4 DEF TypeOK, settings, ToolCall
    <2>6. \A j \in Call : /\ call'[j].tool = call[j].tool
                          /\ call'[j].cart = call[j].cart
                          /\ call'[j].attempt = call[j].attempt
                          /\ j # i => call'[j] = call[j]
      BY <2>4 DEF TypeOK, ToolCall
    <2>7. call'[i].stage = s
      BY <2>4 DEF TypeOK, ToolCall
    <2>8. CallsOK'
      BY <2>1, <2>3, <2>4, <2>6, <2>7 DEF CallsOK, TypeOK, Request, MaxRetries
    <2>9. PaidOnce' /\ SuccessMeansPaid'
      BY <2>1, <2>3, <2>6, <2>7
         DEF PaidOnce, SuccessMeansPaid, SameCart, TypeOK, Request
    <2>10. Quiet'
      <3>1. ASSUME saves = 0, s = "send" PROVE call[i].tool \in DefaultOn
        BY <2>3, <3>1 DEF IsEnabled, Coerce, Quiet, TypeOK, ToolCall
      <3> QED BY <2>1, <2>3, <2>6, <2>7, <3>1
              DEF Quiet, settings, TypeOK, Request
    <2>11. FormsOK'
      BY <2>1 DEF FormsOK, IsEnabled, settings
    <2> QED BY <2>5, <2>8, <2>9, <2>10, <2>11
  <1>5. ASSUME NEW i \in Call, Send(i) PROVE IInv'
    <2>1. /\ UNCHANGED <<settings, paid>>
          /\ call[i].stage = "send"
          /\ call' = [call EXCEPT ![i].stage = "wait", ![i].attempt = @ + 1]
          /\ wire' = wire \cup {<<i, call[i].attempt + 1>>}
      BY <1>5 DEF Send
    <2>2. call[i].attempt \in 0..MaxRetries
      BY <2>1 DEF CallsOK, TypeOK, ToolCall
    <2>3. TypeOK'
      BY <2>1, <2>2 DEF TypeOK, settings, ToolCall, Request, MaxRetries
    <2>4. \A j \in Call : /\ call'[j].tool = call[j].tool
                          /\ call'[j].cart = call[j].cart
                          /\ j # i => call'[j] = call[j]
      BY <2>1 DEF TypeOK, ToolCall
    <2>5. call'[i].stage = "wait" /\ call'[i].attempt = call[i].attempt + 1
      BY <2>1 DEF TypeOK, ToolCall
    <2>6. CallsOK'
      BY <2>1, <2>2, <2>4, <2>5 DEF CallsOK, TypeOK, Request
    <2>7. PaidOnce' /\ SuccessMeansPaid'
      BY <2>1, <2>4, <2>5 DEF PaidOnce, SuccessMeansPaid, SameCart, TypeOK, Request
    <2>8. Quiet'
      BY <2>1, <2>4, <2>5 DEF Quiet, settings, TypeOK, Request
    <2>9. FormsOK'
      BY <2>1 DEF FormsOK, IsEnabled, settings
    <2> QED BY <2>3, <2>6, <2>7, <2>8, <2>9
  <1>6. ASSUME NEW i \in Call, TimeOut(i) PROVE IInv'
    <2>1. /\ UNCHANGED <<settings, wire, paid>>
          /\ call[i].stage = "wait"
          /\ call' = Attempted(i, NoAnswer)
      BY <1>6 DEF TimeOut
    <2>2. NoAnswer \in Answer \cup {NoAnswer} /\ NoAnswer # "ok"
      BY DEF NoAnswer
    <2>3. /\ call' \in [Call -> ToolCall]
          /\ \A j \in Call : /\ call'[j].tool = call[j].tool
                             /\ call'[j].cart = call[j].cart
                             /\ call'[j].attempt = call[j].attempt
                             /\ j # i => call'[j] = call[j]
          /\ call'[i].stage \in {"send", "failed"}
          /\ call'[i].stage = "send" => call[i].attempt <= MaxRetries
      BY <2>1, <2>2, AttemptedCall
    <2>4. TypeOK'
      BY <2>1, <2>3 DEF TypeOK, settings
    <2>5. CallsOK'
      BY <2>1, <2>3 DEF CallsOK, TypeOK, Request
    <2>6. PaidOnce' /\ SuccessMeansPaid'
      BY <2>1, <2>3 DEF PaidOnce, SuccessMeansPaid, SameCart, TypeOK, Request
    <2>7. Quiet'
      BY <2>1, <2>3 DEF Quiet, settings, TypeOK, Request
    <2>8. FormsOK'
      BY <2>1 DEF FormsOK, IsEnabled, settings
    <2> QED BY <2>4, <2>5, <2>6, <2>7, <2>8
  <1>7. ASSUME NEW r \in wire, Process(r) PROVE IInv'
    <2> DEFINE i == r[1]
    <2>1. UNCHANGED settings /\ wire' = wire \ {r}
      BY <1>7 DEF Process
    <2>2. r \in Request /\ i \in Call
      BY DEF TypeOK, Request
    <2>3. PICK answer \in Answer \cup {NoAnswer} :
             /\ \/ Pays(r, answer) /\ paid' = paid \cup {r}
                \/ ~(Pays(r, answer) /\ answer = "ok") /\ UNCHANGED paid
             /\ IF /\ answer # NoAnswer
                   /\ call[i].stage = "wait" /\ call[i].attempt = r[2]
                THEN call' = Attempted(i, answer)
                ELSE UNCHANGED call
      BY <1>7 DEF Process
    <2>4. /\ call' \in [Call -> ToolCall]
          /\ \A j \in Call : /\ call'[j].tool = call[j].tool
                             /\ call'[j].cart = call[j].cart
                             /\ call'[j].attempt = call[j].attempt
                             /\ j # i => call'[j] = call[j]
      BY <2>2, <2>3, AttemptedCall DEF TypeOK
    <2>5. \/ call'[i] = call[i]
          \/ /\ call[i].stage = "wait"
             /\ call'[i].stage \in {"send", "ok", "failed"}
             /\ call'[i].stage = "send" => call[i].attempt <= MaxRetries
             /\ call'[i].stage = "ok" => answer = "ok"
      BY <2>2, <2>3, AttemptedCall
    <2>6. /\ paid \subseteq paid' /\ paid' \subseteq paid \cup {r}
          /\ r \in paid' /\ r \notin paid => Pays(r, answer)
      BY <2>3
    <2>7. TypeOK'
      BY <2>1, <2>2, <2>4, <2>6 DEF TypeOK, settings
    <2>8. CallsOK'
      BY <2>2, <2>4, <2>5, <2>6 DEF CallsOK, TypeOK, Request, Pays
    <2>9. PaidOnce'
      <3>1. \A p, q \in paid' : SameCart(p, q)' <=> SameCart(p, q)
        BY <2>2, <2>4, <2>6 DEF SameCart, TypeOK, Request
      <3>2. CASE r \in paid' /\ r \notin paid
        <4>1. \A s \in paid : ~SameCart(r, s)
          BY <2>6, <3>2 DEF Pays, Known, Keyed
        <4>2. \A s \in paid : ~SameCart(s, r)
          BY <4>1 DEF SameCart
        <4> QED BY <2>6, <3>1, <4>1, <4>2 DEF PaidOnce
      <3>3. CASE ~(r \in paid' /\ r \notin paid)
        BY <2>6, <3>1, <3>3 DEF PaidOnce
      <3> QED BY <3>2, <3>3
    <2>10. SuccessMeansPaid'
      <3>1. ASSUME NEW j \in Call, call'[j].tool = "x402",
                   call'[j].stage = "ok"
            PROVE  \E s \in paid' : call'[s[1]].cart = call'[j].cart
        <4>1. ASSUME NEW s \in paid', call[s[1]].cart = call[j].cart
              PROVE  \E u \in paid' : call'[u[1]].cart = call'[j].cart
          BY <2>4, <2>7, <4>1 DEF TypeOK, Request
        <4>2. CASE call'[j] = call[j]
          <5>1. PICK s \in paid : call[s[1]].cart = call[j].cart
            BY <3>1, <4>2 DEF SuccessMeansPaid
          <5> QED BY <2>6, <4>1, <5>1
        <4>3. CASE call'[j] # call[j]
          <5>1. j = i /\ answer = "ok" /\ call[i].tool = "x402"
            BY <2>4, <2>5, <3>1, <4>3
          <5>2. CASE Pays(r, answer)
            <6>1. r \in paid'
              BY <2>3, <5>1, <5>2
            <6> QED BY <4>1, <5>1, <6>1
          <5>3. CASE ~Pays(r, answer)
            <6>1. Known(r)
              BY <5>1, <5>3 DEF Pays
            <6>2. PICK s \in paid : SameCart(r, s)
              BY <6>1 DEF Known
            <6> QED BY <2>6, <4>1, <5>1, <6>2 DEF SameCart
          <5> QED BY <5>2, <5>3
        <4> QED BY <4>2, <4>3
      <3> QED BY <3>1 DEF SuccessMeansPaid
    <2>11. Quiet'
      <3>1. ASSUME saves = 0 PROVE ~Pays(r, answer)
        BY <3>1 DEF Quiet, Pays, DefaultOn
      <3>2. saves = 0 => paid' = {}
        BY <2>6, <3>1 DEF Quiet
      <3> QED BY <2>1, <2>2, <2>4, <2>5, <3>2
              DEF Quiet, settings, TypeOK, Request
    <2>12. FormsOK'
      BY <2>1 DEF FormsOK, IsEnabled, settings
    <2> QED BY <2>7, <2>8, <2>9, <2>10, <2>11, <2>12
  <1>8. CASE UNCHANGED vars
    BY <1>8 DEF vars, settings, TypeOK, CallsOK, Quiet, FormsOK, PaidOnce,
                SuccessMeansPaid, SameCart, IsEnabled
  <1> QED BY <1>1, <1>2, <1>3, <1>4, <1>5, <1>6, <1>7, <1>8 DEF Next

\* The inductive invariant holds in every reachable state.
THEOREM Invariance == Spec => []IInv
  BY Initially, Inductive, PTL DEF Spec

-----------------------------------------------------------------------------
\* The state stays well-typed; above all, no call makes more than MaxRetries + 1
\* attempts.
THEOREM TypeCorrect == Spec => []TypeOK
  BY Invariance, PTL DEF IInv

\* No cart is paid for twice, however many calls and retries race for it.
THEOREM SinglePayment == Spec => []PaidOnce
  BY Invariance, PTL DEF IInv

\* A call that reports success has had its cart paid for.
THEOREM SuccessIsPayment == Spec => []SuccessMeansPaid
  BY Invariance, PTL DEF IInv

\* Before the first save of the Settings form, no payment is on its way.
THEOREM QuietInstall == Spec => []InstallEnablesNoPayment
  <1>1. IInv => InstallEnablesNoPayment
    BY DEF IInv, Quiet, InstallEnablesNoPayment
  <1> QED BY <1>1, Invariance, PTL

\* A tool is switched off by a choice or by a stale form only.
THEOREM NoAccidentalDisabling == Spec => OnlyChoiceOrStaleFormDisables
  <1> DEFINE Step ==
        \A t \in Tool :
          (IsEnabled(t) /\ ~IsEnabled(t)') =>
             \/ choice'[t] = "off"
             \/ \E a \in Admin : form[a].overtaken /\ ~form'[a].open
  <1>1. IInv /\ [Next]_vars => [Step]_vars
    <2> SUFFICES ASSUME IInv, Next, NEW t \in Tool,
                        IsEnabled(t), ~IsEnabled(t)'
                 PROVE  \/ choice'[t] = "off"
                        \/ \E a \in Admin : form[a].overtaken /\ ~form'[a].open
      OBVIOUS
    <2>1. CASE Reinstall
      BY <2>1, SeedingNeutral DEF IInv
    <2>2. ASSUME NEW a \in Admin, Save(a)
          PROVE  \/ choice'[t] = "off"
                 \/ \E b \in Admin : form[b].overtaken /\ ~form'[b].open
      <3>1. PICK edited \in SUBSET Tool :
              LET ticks == (form[a].ticks \ edited)
                              \cup (edited \ form[a].ticks) IN
              /\ param' = [u \in Tool |-> IF u \in ticks THEN "on" ELSE "absent"]
              /\ choice' = [u \in Tool |->
                              IF u \notin edited THEN choice[u]
                              ELSE IF u \in ticks THEN "on" ELSE "off"]
        BY <2>2 DEF Save
      <3>2. t \notin (form[a].ticks \ edited) \cup (edited \ form[a].ticks)
        BY <3>1 DEF IsEnabled, Coerce
      <3>3. CASE t \in edited
        BY <3>1, <3>2, <3>3
      <3>4. CASE t \notin edited
        <4>1. form[a].open /\ t \notin form[a].ticks
          BY <2>2, <3>2, <3>4 DEF Save
        <4>2. form[a].overtaken
          BY <4>1 DEF IInv, FormsOK, TypeOK, Form
        <4>3. ~form'[a].open
          BY <2>2 DEF Save, Closed
        <4> QED BY <4>2, <4>3
      <3> QED BY <3>3, <3>4
    <2>3. CASE UNCHANGED param
      BY <2>3 DEF IsEnabled
    <2> QED BY <2>1, <2>2, <2>3
            DEF Next, OpenForm, Invoke, Send, TimeOut, Process, settings
  <1>2. Spec => [][Step]_vars
    BY <1>1, Invariance, PTL DEF Spec
  <1> QED BY <1>2 DEF OnlyChoiceOrStaleFormDisables

-----------------------------------------------------------------------------
(* The tools implement Payment. *)

\* Only requests of calls that were let through are under way.
WireOK == \A r \in wire : call[r[1]].stage \notin {"idle", "refused"}

\* No step changes what a call is about, or takes a call back to where it was
\* before it was let through.
LEMMA CallSteps ==
    ASSUME IInv, [Next]_vars, NEW j \in Call
    PROVE  /\ call'[j].tool = call[j].tool
           /\ call'[j].cart = call[j].cart
           /\ call[j].stage \notin {"idle", "refused"}
                => call'[j].stage \notin {"idle", "refused"}
  <1>1. CASE UNCHANGED call
    BY <1>1
  <1>2. ASSUME NEW i \in Call, Invoke(i) \/ Send(i)
        PROVE  /\ call'[j].tool = call[j].tool
               /\ call'[j].cart = call[j].cart
               /\ call[j].stage \notin {"idle", "refused"}
                    => call'[j].stage \notin {"idle", "refused"}
    BY <1>2 DEF Invoke, Send, IInv, TypeOK, ToolCall
  <1>3. ASSUME NEW i \in Call, NEW answer \in Answer \cup {NoAnswer},
               call' = Attempted(i, answer)
        PROVE  /\ call'[j].tool = call[j].tool
               /\ call'[j].cart = call[j].cart
               /\ call[j].stage \notin {"idle", "refused"}
                    => call'[j].stage \notin {"idle", "refused"}
    BY <1>3, AttemptedCall DEF IInv
  <1>4. ASSUME NEW i \in Call, TimeOut(i)
        PROVE  call' = Attempted(i, NoAnswer)
    BY <1>4 DEF TimeOut
  <1>5. ASSUME NEW r \in wire, Process(r)
        PROVE  \/ UNCHANGED call
               \/ \E answer \in Answer \cup {NoAnswer} : call' = Attempted(r[1], answer)
    BY <1>5 DEF Process
  <1>6. \A r \in wire : r[1] \in Call
    BY DEF IInv, TypeOK, Request
  <1> QED BY <1>1, <1>2, <1>3, <1>4, <1>5, <1>6
          DEF Next, vars, settings, Reinstall, OpenForm, Save

LEMMA WireInitially == Init => WireOK
  BY DEF Init, WireOK

LEMMA WireInductive == IInv /\ WireOK /\ [Next]_vars => WireOK'
  <1> SUFFICES ASSUME IInv, WireOK, [Next]_vars, NEW r \in wire'
               PROVE  call'[r[1]].stage \notin {"idle", "refused"}
    BY DEF WireOK
  <1>1. CASE r \in wire
    BY <1>1, CallSteps DEF WireOK, IInv, TypeOK, Request
  <1>2. CASE r \notin wire
    <2>1. PICK i \in Call : Send(i)
      BY <1>2 DEF Next, vars, settings, Reinstall, OpenForm, Save, Invoke,
                  TimeOut, Process
    <2>2. r[1] = i
      BY <1>2, <2>1 DEF Send
    <2> QED BY <2>1, <2>2 DEF Send, IInv, TypeOK, ToolCall
  <1> QED BY <1>1, <1>2

\* The initial states map to initial states.
LEMMA PaymentInitially == Init => Pay!Init
  <1> SUFFICES ASSUME Init PROVE Pay!Init
    OBVIOUS
  <1>1. \A i \in Call : call[i].stage = "idle" /\ call[i].cart \in Cart
    BY DEF Init
  <1>2. Owed \in [Call -> {{}} \cup {{c} : c \in Cart}]
    BY <1>1 DEF Owed
  <1>3. Standing = [i \in Call |-> "idle"]
    BY <1>1 DEF Standing
  <1>4. Receipts = [c \in Cart |-> {}]
    BY DEF Init, Receipts
  <1> QED BY <1>2, <1>3, <1>4 DEF Pay!Init

\* What is owed is settled before any step.
LEMMA OwedConstant == IInv /\ [Next]_vars => UNCHANGED Owed
  BY CallSteps DEF Owed

\* As long as no payment is taken, the receipts stay.
LEMMA ReceiptsStay == IInv /\ [Next]_vars /\ UNCHANGED paid => UNCHANGED Receipts
  <1> SUFFICES ASSUME IInv, [Next]_vars, UNCHANGED paid
               PROVE  UNCHANGED Receipts
    OBVIOUS
  <1>1. \A r \in paid : call'[r[1]].cart = call[r[1]].cart
    BY CallSteps DEF IInv, TypeOK, Request
  <1> QED BY <1>1 DEF Receipts

\* After an attempt a call is still open or ends; with success, if the cart is
\* paid for or nothing was owed.
LEMMA AttemptRefines ==
    ASSUME IInv, [Next]_vars, NEW i \in Call, NEW answer \in Answer \cup {NoAnswer},
           call[i].stage = "wait", call' = Attempted(i, answer), UNCHANGED paid,
           (answer = "ok" /\ call[i].tool = "x402")
             => \E s \in paid : call[s[1]].cart = call[i].cart
    PROVE  [Pay!Next]_(Pay!vars)
  <1>1. UNCHANGED <<Owed, Receipts>>
    BY OwedConstant, ReceiptsStay
  <1>2. /\ call'[i].stage \in {"send", "ok", "failed"}
        /\ call'[i].stage = "ok" => answer = "ok"
        /\ \A j \in Call : j # i => call'[j] = call[j]
    BY AttemptedCall DEF IInv
  <1>3. Standing[i] = "open"
    BY DEF Standing
  <1>4. CASE call'[i].stage = "send"
    <2>1. UNCHANGED Standing
      BY <1>2, <1>4 DEF Standing
    <2> QED BY <1>1, <2>1 DEF Pay!vars
  <1>5. CASE call'[i].stage = "failed"
    <2>1. Standing' = [Standing EXCEPT ![i] = "failed"]
      BY <1>2, <1>5 DEF Standing
    <2> QED BY <1>1, <1>3, <2>1 DEF Pay!Next, Pay!End
  <1>6. CASE call'[i].stage = "ok"
    <2>1. Standing' = [Standing EXCEPT ![i] = "ok"]
      BY <1>2, <1>6 DEF Standing
    <2>2. \A c \in Owed[i] : Receipts[c] # {}
      BY <1>2, <1>6 DEF Owed, Receipts, IInv, TypeOK, ToolCall
    <2> QED BY <1>1, <1>3, <2>1, <2>2 DEF Pay!Next, Pay!End
  <1> QED BY <1>2, <1>4, <1>5, <1>6

\* A request that pays takes the first payment of its cart.
LEMMA PayingRefines ==
    ASSUME IInv, WireOK, [Next]_vars, NEW r \in wire,
           NEW answer \in Answer \cup {NoAnswer},
           Pays(r, answer), paid' = paid \cup {r},
           \/ call[r[1]].stage = "wait" /\ call' = Attempted(r[1], answer)
           \/ UNCHANGED call
    PROVE  Pay!Take(r[1])
  <1> DEFINE i == r[1]
             c == call[i].cart
  <1>1. r \in Request /\ i \in Call /\ c \in Cart
    BY DEF IInv, TypeOK, Request, ToolCall
  <1>2. call[i].tool = "x402" /\ \A s \in paid : call[s[1]].cart # c
    BY DEF Pays, Known, Keyed, SameCart
  <1>3. call[i].stage \notin {"idle", "refused", "ok"}
    BY <1>1, <1>2 DEF WireOK, IInv, SuccessMeansPaid
  <1>4. Standing[i] \in {"open", "failed"}
    BY <1>1, <1>3 DEF Standing, IInv, TypeOK, ToolCall
  <1>5. UNCHANGED Owed /\ Owed[i] = {c}
    BY <1>1, <1>2, OwedConstant DEF Owed
  <1>6. Receipts[c] = {} /\ Receipts' = [Receipts EXCEPT ![c] = {r}]
    <2>1. \A s \in paid' : call'[s[1]].cart = call[s[1]].cart
      BY <1>1, CallSteps DEF IInv, TypeOK, Request
    <2>2. Receipts[c] = {}
      BY <1>1, <1>2 DEF Receipts
    <2>3. \A d \in Cart : Receipts'[d] = {s \in paid \cup {r} : call[s[1]].cart = d}
      BY <2>1 DEF Receipts
    <2>4. \A d \in Cart : Receipts'[d] = IF d = c THEN {r} ELSE Receipts[d]
      BY <1>2, <2>3 DEF Receipts
    <2>5. Receipts' = [d \in Cart |-> IF d = c THEN {r} ELSE Receipts[d]]
      <3>1. Receipts' = [d \in Cart |-> Receipts'[d]]
        BY DEF Receipts
      <3> HIDE DEF c
      <3> QED BY <2>4, <3>1
    <2>6. Receipts = [d \in Cart |-> Receipts[d]]
      BY DEF Receipts
    <2> HIDE DEF c
    <2> QED BY <1>1, <2>2, <2>5, <2>6
  <1>7. \/ UNCHANGED Standing
        \/ /\ Standing[i] = "open"
           /\ \E s \in {"ok", "failed"} : Standing' = [Standing EXCEPT ![i] = s]
    <2>1. CASE UNCHANGED call
      BY <2>1 DEF Standing
    <2>2. CASE call[i].stage = "wait" /\ call' = Attempted(i, answer)
      <3>1. /\ call'[i].stage \in {"send", "ok", "failed"}
            /\ \A j \in Call : j # i => call'[j] = call[j]
        BY <1>1, <2>2, AttemptedCall DEF IInv
      <3>2. Standing[i] = "open"
        BY <1>1, <2>2 DEF Standing
      <3>3. CASE call'[i].stage = "send"
        BY <2>2, <3>1, <3>3 DEF Standing
      <3>4. CASE call'[i].stage \in {"ok", "failed"}
        <4>1. Standing' = [Standing EXCEPT ![i] = call'[i].stage]
          BY <1>1, <3>1, <3>4 DEF Standing
        <4> QED BY <3>2, <3>4, <4>1
      <3> QED BY <3>1, <3>3, <3>4
    <2> QED BY <2>1, <2>2
  <1> HIDE DEF c
  <1>8. \E d \in Owed[i], s \in Request :
          Receipts[d] = {} /\ Receipts' = [Receipts EXCEPT ![d] = {s}]
    BY <1>1, <1>5, <1>6
  <1> QED BY <1>4, <1>5, <1>7, <1>8 DEF Pay!Take

\* Every step maps to a step of Payment, or to a stutter.
LEMMA StepRefines == IInv /\ WireOK /\ [Next]_vars => [Pay!Next]_(Pay!vars)
  <1> SUFFICES ASSUME IInv, WireOK, [Next]_vars
               PROVE  [Pay!Next]_(Pay!vars)
    OBVIOUS
  <1>1. UNCHANGED Owed
    BY OwedConstant
  <1>2. CASE UNCHANGED <<call, paid>>
    BY <1>1, <1>2, ReceiptsStay DEF Standing, Pay!vars
  <1>3. ASSUME NEW i \in Call, Invoke(i) PROVE [Pay!Next]_(Pay!vars)
    <2>1. UNCHANGED Receipts
      BY <1>3, ReceiptsStay DEF Invoke
    <2>2. PICK s \in {"refused", "send"} : call' = [call EXCEPT ![i].stage = s]
      BY <1>3 DEF Invoke
    <2>3. Standing[i] = "idle"
      BY <1>3 DEF Invoke, Standing
    <2>4. \E t \in {"open", "refused"} : Standing' = [Standing EXCEPT ![i] = t]
      <3>1. CASE s = "refused"
        <4>1. Standing' = [Standing EXCEPT ![i] = "refused"]
          BY <2>2, <3>1 DEF Standing, IInv, TypeOK, ToolCall
        <4> QED BY <4>1
      <3>2. CASE s = "send"
        <4>1. Standing' = [Standing EXCEPT ![i] = "open"]
          BY <2>2, <3>2 DEF Standing, IInv, TypeOK, ToolCall
        <4> QED BY <4>1
      <3> QED BY <3>1, <3>2
    <2> QED BY <1>1, <2>1, <2>3, <2>4 DEF Pay!Next, Pay!Begin
  <1>4. ASSUME NEW i \in Call, Send(i) PROVE [Pay!Next]_(Pay!vars)
    <2>1. UNCHANGED Receipts
      BY <1>4, ReceiptsStay DEF Send
    <2>2. UNCHANGED Standing
      BY <1>4 DEF Send, Standing, IInv, TypeOK, ToolCall
    <2> QED BY <1>1, <2>1, <2>2 DEF Pay!vars
  <1>5. ASSUME NEW i \in Call, TimeOut(i) PROVE [Pay!Next]_(Pay!vars)
    BY <1>5, AttemptRefines DEF TimeOut, NoAnswer
  <1>6. ASSUME NEW r \in wire, Process(r) PROVE [Pay!Next]_(Pay!vars)
    <2> DEFINE i == r[1]
    <2>1. i \in Call
      BY DEF IInv, TypeOK, Request
    <2>2. PICK answer \in Answer \cup {NoAnswer} :
             /\ \/ Pays(r, answer) /\ paid' = paid \cup {r}
                \/ ~(Pays(r, answer) /\ answer = "ok") /\ UNCHANGED paid
             /\ \/ call[i].stage = "wait" /\ call' = Attempted(i, answer)
                \/ UNCHANGED call
      BY <1>6 DEF Process
    <2>3. CASE Pays(r, answer) /\ paid' = paid \cup {r}
      BY <2>1, <2>2, <2>3, PayingRefines DEF Pay!Next
    <2>4. CASE ~(Pays(r, answer) /\ answer = "ok") /\ UNCHANGED paid
      <3>1. (answer = "ok" /\ call[i].tool = "x402")
              => \E s \in paid : call[s[1]].cart = call[i].cart
        BY <2>4 DEF Pays, Known, SameCart
      <3> QED BY <1>2, <2>1, <2>2, <2>4, <3>1, AttemptRefines
    <2> QED BY <2>2, <2>3, <2>4
  <1> QED BY <1>2, <1>3, <1>4, <1>5, <1>6
          DEF Next, vars, settings, Reinstall, OpenForm, Save

\* The tools implement the abstract specification of payments.
THEOREM Implementation == Spec => PaymentRefined
  <1>1. Spec => []WireOK
    BY WireInitially, WireInductive, Invariance, PTL DEF Spec
  <1> QED BY <1>1, PaymentInitially, StepRefines, Invariance, PTL
          DEF Spec, PaymentRefined, Pay!Spec
=============================================================================
