-------------------------- MODULE LlmGatewayProofs --------------------------
(***************************************************************************)
(* Theorems about the LLM gateway, for every configuration, every set of   *)
(* routes, models and keys that may be created, and any number of requests *)
(* and of changes that come while providers are being waited for.          *)
(***************************************************************************)
EXTENDS LlmGateway, TLAPS, FiniteSetTheorems, SequenceTheorems, WellFoundedInduction

(***************************************************************************)
(* The inductive invariant                                                 *)
(***************************************************************************)

RouteIds == DOMAIN SeedLlmRoutes \cup DOMAIN NewRoutes

IsSequence(s) == \E S : s \in Seq(S)

\* What a created or seeded route keeps of itself, however it is patched.
RouteOK(least, route) ==
    /\ {"priority", "enabled"} \subseteq DOMAIN route
    /\ route.priority \in Int /\ least <= route.priority

Ranked(routes) ==
    /\ DOMAIN routes \subseteq RouteIds
    /\ \E least \in Int : \A id \in DOMAIN routes : RouteOK(least, routes[id])

CatalogOK(k) ==
    /\ k = [routes |-> k.routes, models |-> k.models, keys |-> k.keys,
            fallbackPolicies |-> k.fallbackPolicies]
    /\ Ranked(k.routes)

CallShape(call) ==
    call = [request |-> call.request, legacy |-> call.legacy, phase |-> call.phase,
            decisions |-> call.decisions, tried |-> call.tried,
            route |-> call.route, model |-> call.model]

\* The three ways the attempts of a request and its decisions can go together.
Selected(id) == [verdict |-> "selected", route |-> id]

OneAttempt(call) == \E a : call.tried = <<a>> /\ call.decisions = <<Selected(a)>>

GivenUp(call) ==
    \E a, d : /\ call.tried = <<a>> /\ call.decisions = <<Selected(a), d>>
              /\ d.verdict # "selected"

TwoAttempts(call) ==
    /\ \E a, b : a # b /\ call.tried = <<a, b>> /\ call.decisions = <<Selected(a), Selected(b)>>
    /\ ~call.legacy /\ config.fallbackEnabled /\ AttemptLimit(call.request) > 0

CallOK(call) ==
    /\ CallShape(call)
    /\ call.legacy \in BOOLEAN /\ call.request.maxFallback \in Int
    /\ \/ call.phase \in {"blocked", "routed"} /\ call.tried = <<>>
       \/ call.phase = "first" /\ OneAttempt(call)
       \/ call.phase = "fallback" /\ TwoAttempts(call) /\ call.model.status = "active"
       \/ call.phase = "succeeded" /\ (OneAttempt(call) \/ TwoAttempts(call))
       \/ call.phase = "failed" /\ (OneAttempt(call) \/ GivenUp(call) \/ TwoAttempts(call))

Answered(call) == call.phase = "succeeded" /\ ~call.legacy

\* A usage record is of the attempt that answered.
RecordOf(u, call) ==
    /\ Answered(call) /\ u.route = Last(call.tried)
    /\ u.fallback <=> (Len(call.tried) = 2)

UsageOK ==
    /\ IsSequence(usage)
    /\ \A n \in DOMAIN usage : usage[n].call \in DOMAIN calls /\ RecordOf(usage[n], calls[usage[n].call])
    /\ \A n, m \in DOMAIN usage : usage[n].call = usage[m].call => n = m
    /\ \A c \in DOMAIN calls : Answered(calls[c]) => \E n \in DOMAIN usage : usage[n].call = c

CallsOK == IsSequence(calls) /\ \A c \in DOMAIN calls : CallOK(calls[c])

GatewayInv ==
    /\ config.maxFallback \in Nat
    /\ CatalogOK(catalog)
    /\ CallsOK
    /\ UsageOK

(***************************************************************************)
(* Sequences                                                               *)
(***************************************************************************)

LEMMA Grown ==
    ASSUME NEW s, IsSequence(s), NEW e
    PROVE  /\ IsSequence(Append(s, e))
           /\ DOMAIN Append(s, e) = DOMAIN s \cup {Len(s) + 1} /\ Len(s) + 1 \notin DOMAIN s
           /\ \A n \in DOMAIN s : Append(s, e)[n] = s[n]
           /\ Append(s, e)[Len(s) + 1] = e
<1>1. PICK S : s \in Seq(S)
  BY DEF IsSequence
<1>2. s \in Seq(S \cup {e})
  BY <1>1
<1> QED
  BY <1>2 DEF IsSequence

LEMMA Changed ==
    ASSUME NEW s, IsSequence(s), NEW n \in DOMAIN s, NEW e
    PROVE  /\ IsSequence([s EXCEPT ![n] = e])
           /\ DOMAIN [s EXCEPT ![n] = e] = DOMAIN s
           /\ [s EXCEPT ![n] = e][n] = e
           /\ \A m \in DOMAIN s : m # n => [s EXCEPT ![n] = e][m] = s[m]
<1>1. PICK S : s \in Seq(S)
  BY DEF IsSequence
<1>2. s \in Seq(S \cup {e})
  BY <1>1
<1>3. [s EXCEPT ![n] = e] \in Seq(S \cup {e})
  BY <1>2
<1> QED
  BY <1>2, <1>3 DEF IsSequence

LEMMA Pairs ==
    ASSUME NEW a, NEW b
    PROVE  /\ Append(<<>>, a) = <<a>> /\ Append(<<a>>, b) = <<a, b>>
           /\ Last(<<a>>) = a /\ Last(<<a, b>>) = b
           /\ Len(<<>>) = 0 /\ Len(<<a>>) = 1 /\ Len(<<a, b>>) = 2
           /\ <<a>> # <<>> /\ <<a, b>> # <<>>
           /\ DOMAIN <<a>> = {1} /\ DOMAIN <<a, b>> = {1, 2}
           /\ <<a>>[1] = a /\ <<a, b>>[1] = a /\ <<a, b>>[2] = b
<1>1. Append(<<>>, a) = <<a>> /\ Append(<<a>>, b) = <<a, b>>
  <2>1. /\ <<>> \in Seq({a, b}) /\ <<a>> \in Seq({a, b}) /\ <<a, b>> \in Seq({a, b})
        /\ Append(<<>>, a) \in Seq({a, b}) /\ Append(<<a>>, b) \in Seq({a, b})
    OBVIOUS
  <2>2. Append(<<>>, a) = <<a>>
    BY <2>1, SeqEqual
  <2>3. Append(<<a>>, b) = <<a, b>>
    <3>1. /\ Len(Append(<<a>>, b)) = 2 /\ Len(<<a, b>>) = 2
          /\ Append(<<a>>, b)[1] = a /\ Append(<<a>>, b)[2] = b
      BY <2>1
    <3>2. \A i \in 1..2 : Append(<<a>>, b)[i] = <<a, b>>[i]
      BY <3>1
    <3> QED  BY <2>1, <3>1, <3>2, SeqEqual
  <2> QED  BY <2>2, <2>3
<1>2. Last(<<a>>) = a /\ Last(<<a, b>>) = b
  BY DEF Last
<1>3. Len(<<>>) = 0 /\ Len(<<a>>) = 1 /\ Len(<<a, b>>) = 2
  OBVIOUS
<1>4. <<a>> # <<>> /\ <<a, b>> # <<>>
  OBVIOUS
<1>5. DOMAIN <<a>> = {1} /\ DOMAIN <<a, b>> = {1, 2}
  OBVIOUS
<1>6. <<a>>[1] = a /\ <<a, b>>[1] = a /\ <<a, b>>[2] = b
  OBVIOUS
<1> QED
  BY <1>1, <1>2, <1>3, <1>4, <1>5, <1>6

LEMMA LastOfPair ==
    ASSUME NEW s, NEW a, NEW b, s = <<b>> \/ s = <<a, b>>
    PROVE  Last(s) = b
<1>1. CASE s = <<b>>
  <2>1. Last(<<b>>) = b
    BY DEF Last
  <2> QED  BY <1>1, <2>1
<1>2. CASE s = <<a, b>>
  <2>1. Last(<<a, b>>) = b
    BY DEF Last
  <2> QED  BY <1>2, <2>1
<1> QED
  BY <1>1, <1>2

(***************************************************************************)
(* The choice of a route                                                   *)
(***************************************************************************)

(* A set of integers with a lower bound has a least element. *)
LEMMA LeastInteger ==
    ASSUME NEW T \in SUBSET Int, T # {}, NEW low \in Int, \A x \in T : low <= x
    PROVE  \E m \in T : \A n \in T : m <= n
<1> DEFINE R == OpToRel(<, Nat)
           D == {d \in Nat : low + d \in T}
<1>1. PICK x0 \in T : TRUE
  OBVIOUS
<1>2. x0 - low \in Nat /\ low + (x0 - low) = x0
  BY <1>1
<1>3. D \subseteq Nat /\ D # {}
  BY <1>1, <1>2
<1>4. \E m \in D : \A n \in D : ~(<<n, m>> \in R)
  <2> HIDE DEF D
  <2> QED  BY <1>3, WFMin, NatLessThanWellFounded
<1>5. \A m, n \in Nat : n < m => <<n, m>> \in R
  BY DEF OpToRel
<1>6. PICK m \in D : \A n \in D : m <= n
  <2> HIDE DEF R, D
  <2>1. PICK m \in D : \A n \in D : ~(<<n, m>> \in R)
    BY <1>4
  <2>2. \A n \in D : ~(n < m)
    BY <1>3, <1>5, <2>1
  <2>3. \A n \in D : m <= n
    BY <1>3, <2>2
  <2> QED  BY <2>3
<1>7. low + m \in T
  BY <1>6
<1>8. ASSUME NEW y \in T PROVE low + m <= y
  <2>1. y - low \in Nat /\ low + (y - low) = y
    OBVIOUS
  <2>2. y - low \in D
    BY <2>1
  <2> QED  BY <1>6, <2>1, <2>2
<1> QED
  BY <1>7, <1>8
(* The sort of listRoutes has a first element: by priority, then id. *)
LEMMA FirstExists ==
    ASSUME NEW k, Ranked(k.routes), NEW C \in SUBSET DOMAIN k.routes, C # {}
    PROVE  \E id \in C : \A other \in C : Before(k, id, other)
<1>1. PICK least \in Int : \A id \in DOMAIN k.routes : RouteOK(least, k.routes[id])
  BY DEF Ranked
<1>2. \A id \in C : k.routes[id].priority \in Int /\ least <= k.routes[id].priority
  BY <1>1 DEF RouteOK
<1>3. \A id \in C : RouteRank[id] \in Nat
  BY LlmAssumption DEF Ranked, RouteIds
<1> DEFINE P == {k.routes[id].priority : id \in C}
<1>4. PICK p \in P : \A q \in P : p <= q
  <2>1. P \in SUBSET Int /\ P # {} /\ \A q \in P : least <= q
    BY <1>2
  <2> HIDE DEF P
  <2> QED  BY <2>1, LeastInteger
<1> DEFINE Q == {RouteRank[id] : id \in {x \in C : k.routes[x].priority = p}}
<1>5. PICK q \in Q : \A z \in Q : q <= z
  <2>1. Q \in SUBSET Int /\ Q # {} /\ \A z \in Q : 0 <= z
    BY <1>3, <1>4
  <2>2. 0 \in Int
    OBVIOUS
  <2> HIDE DEF Q
  <2> QED  BY <2>1, <2>2, LeastInteger
<1>6. PICK id \in C : k.routes[id].priority = p /\ RouteRank[id] = q
  BY <1>5
<1>7. ASSUME NEW other \in C PROVE Before(k, id, other)
  <2>1. p <= k.routes[other].priority /\ p \in Int /\ k.routes[other].priority \in Int
    BY <1>2, <1>4
  <2>2. k.routes[other].priority = p => q <= RouteRank[other]
    BY <1>5
  <2> HIDE DEF P, Q
  <2>3. CASE k.routes[other].priority = p
    BY <1>6, <2>2, <2>3 DEF Before
  <2>4. CASE k.routes[other].priority # p
    <3>1. p < k.routes[other].priority
      BY <2>1, <2>4
    <3> QED  BY <1>6, <3>1 DEF Before
  <2> QED  BY <2>3, <2>4
<1> QED
  BY <1>7

LEMMA ChosenRoute ==
    ASSUME NEW k, CatalogOK(k), NEW r, NEW excluded, NEW d,
           d = SelectRouteForRequest(k, r, excluded)
    PROVE  /\ d = [verdict |-> d.verdict, route |-> d.route]
           /\ d.verdict = "selected" =>
                 /\ d.route \in DOMAIN k.routes \ excluded
                 /\ RouteMatchesRequest(k, d.route, r)
                 /\ Verdict(k, r, d.route) = "selected"
<1> DEFINE C == {id \in DOMAIN k.routes \ excluded : RouteMatchesRequest(k, id, r)}
           first == CHOOSE id \in C : \A other \in C : Before(k, id, other)
           none == \/ r.model \in DOMAIN k.models /\ k.models[r.model].status # "active"
                   \/ C = {}
<1>1. d = IF none THEN [verdict |-> "no_route", route |-> ""]
          ELSE [verdict |-> Verdict(k, r, first), route |-> first]
  BY Zenon DEF SelectRouteForRequest
<1>2. ASSUME C # {} PROVE first \in C
  <2>1. C \in SUBSET DOMAIN k.routes /\ Ranked(k.routes)
    BY DEF CatalogOK
  <2>2. \E id \in C : \A other \in C : Before(k, id, other)
    <3> HIDE DEF C
    <3> QED  BY <1>2, <2>1, FirstExists
  <2> HIDE DEF C
  <2> QED  BY <2>2
<1>3. CASE none
  <2>1. d = [verdict |-> "no_route", route |-> ""]
    BY <1>1, <1>3
  <2> HIDE DEF first, C, none
  <2>2. PICK e, v : d = [verdict |-> v, route |-> e] /\ v = "no_route"
    BY <2>1, Zenon
  <2>3. d = [verdict |-> d.verdict, route |-> d.route] /\ d.verdict # "selected"
    BY <2>2
  <2> QED  BY <2>3, Zenon
<1>4. CASE ~none
  <2>1. d = [verdict |-> Verdict(k, r, first), route |-> first]
    BY <1>1, <1>4
  <2>2. first \in DOMAIN k.routes \ excluded /\ RouteMatchesRequest(k, first, r)
    BY <1>2, <1>4
  <2>3. d.verdict = Verdict(k, r, first) /\ d.route = first
    <3> HIDE DEF first
    <3> QED  BY <2>1
  <2>4. d = [verdict |-> d.verdict, route |-> d.route]
    BY <2>1, <2>3, Zenon
  <2>5. d.route \in DOMAIN k.routes \ excluded /\ RouteMatchesRequest(k, d.route, r)
    <3> HIDE DEF first
    <3> QED  BY <2>2, <2>3, Zenon
  <2>6. d.verdict = Verdict(k, r, d.route)
    BY <2>3, Zenon
  <2> HIDE DEF first, C, none
  <2> QED  BY <2>4, <2>5, <2>6, Zenon
<1> QED
  BY <1>3, <1>4

(* What a route has passed when it is selected. *)
LEMMA PassedGates ==
    ASSUME NEW k, NEW r, NEW id, RouteMatchesRequest(k, id, r), Verdict(k, r, id) = "selected"
    PROVE  /\ k.routes[id].enabled /\ k.models[k.routes[id].model].status = "active"
           /\ CheckBudget(k, r, k.routes[id].model)
           /\ ProviderHealthy(k.routes[id].kind)
           /\ config.mode = "mock_only" => k.routes[id].kind = "mock"
<1>1. /\ k.routes[id].enabled /\ k.models[k.routes[id].model].status = "active"
      /\ config.mode = "mock_only" => k.routes[id].kind = "mock"
  BY DEF RouteMatchesRequest
<1>2. CheckBudget(k, r, k.routes[id].model) /\ ProviderHealthy(k.routes[id].kind)
  BY Zenon DEF Verdict
<1> QED
  BY <1>1, <1>2

(* A provider that is called now is called past every gate. *)
LEMMA CalledPastGates ==
    ASSUME NEW r, NEW id, RouteMatchesRequest(catalog, id, r), Verdict(catalog, r, id) = "selected",
           NEW call, call.request = r, Last(call.tried) = id
    PROVE  CallGated(call)
<1>1. /\ catalog.routes[id].enabled /\ catalog.models[catalog.routes[id].model].status = "active"
      /\ CheckBudget(catalog, r, catalog.routes[id].model)
      /\ ProviderHealthy(catalog.routes[id].kind)
      /\ config.mode = "mock_only" => catalog.routes[id].kind = "mock"
  BY PassedGates
<1>2. (catalog.routes[id].kind # "mock") =>
         /\ catalog.routes[id].kind = "openai_compatible" /\ config.mode # "mock_only"
         /\ config.remote /\ config.completion /\ config.baseUrl /\ config.credential = "resolved"
  BY <1>1 DEF ProviderHealthy
<1> DEFINE key == IF r.key = "" THEN DefaultKey ELSE r.key
<1>3. /\ key \in DOMAIN catalog.keys /\ catalog.keys[key].status = "active"
      /\ catalog.routes[id].model \in catalog.keys[key].models
      /\ r.limit # NoLimit => catalog.models[catalog.routes[id].model].cost <= r.limit
  BY <1>1, Zenon DEF CheckBudget
<1> QED
  BY <1>1, <1>2, <1>3, Zenon DEF CallGated
(***************************************************************************)
(* Calls                                                                   *)
(***************************************************************************)

LEMMA LimitIsNatural ==
    ASSUME config.maxFallback \in Nat, NEW r, r.maxFallback \in Int
    PROVE  AttemptLimit(r) \in Nat
  BY DEF AttemptLimit, NoLimit

\* What Calling makes of a call.
IsCalling(new, call, phase, d) ==
    /\ CallShape(new)
    /\ new.request = call.request /\ new.legacy = call.legacy /\ new.phase = phase
    /\ new.decisions = Append(call.decisions, d) /\ new.tried = Append(call.tried, d.route)
    /\ new.model = catalog.models[catalog.routes[d.route].model]

LEMMA CallingFields ==
    ASSUME NEW call, CallShape(call), NEW phase, NEW d
    PROVE  IsCalling(Calling(call, phase, d), call, phase, d)
<1>1. PICK route, model, decisions, tried :
         /\ route = catalog.routes[d.route] /\ model = catalog.models[route.model]
         /\ decisions = Append(call.decisions, d) /\ tried = Append(call.tried, d.route)
  OBVIOUS
<1>2. Calling(call, phase, d)
        = [[call EXCEPT !.decisions = decisions] EXCEPT
              !.phase = phase, !.route = route, !.model = model, !.tried = Append(@, d.route)]
  BY <1>1, Zenon DEF Calling, RecordRoutingDecision
<1>3. PICK a, b, c, e, f, g, h :
         /\ call = [request |-> a, legacy |-> b, phase |-> c, decisions |-> e, tried |-> f,
                    route |-> g, model |-> h]
         /\ a = call.request /\ b = call.legacy /\ f = call.tried
  BY DEF CallShape
<1>4. Calling(call, phase, d)
        = [request |-> a, legacy |-> b, phase |-> phase, decisions |-> decisions, tried |-> tried,
           route |-> route, model |-> model]
  BY ZenonT(40), <1>1, <1>2, <1>3
<1> QED
  BY <1>1, <1>3, <1>4 DEF IsCalling, CallShape

LEMMA Shaped ==
    ASSUME NEW a, NEW b, NEW c, NEW e, NEW f, NEW g, NEW h, NEW new,
           new = [request |-> a, legacy |-> b, phase |-> c, decisions |-> e, tried |-> f,
                  route |-> g, model |-> h]
    PROVE  /\ CallShape(new) /\ new.request = a /\ new.legacy = b /\ new.phase = c
           /\ new.decisions = e /\ new.tried = f
  BY DEF CallShape

\* The call with one more decision, in its new phase.
IsDecided(new, call, phase, d) == new = [RecordRoutingDecision(call, d) EXCEPT !.phase = phase]

LEMMA RecordedFields ==
    ASSUME NEW call, CallShape(call), NEW phase, NEW d, NEW new, IsDecided(new, call, phase, d)
    PROVE  /\ CallShape(new) /\ new.phase = phase
           /\ new.request = call.request /\ new.legacy = call.legacy
           /\ new.tried = call.tried /\ new.decisions = Append(call.decisions, d)
<1>1. PICK decisions : decisions = Append(call.decisions, d)
  OBVIOUS
<1>2. new = [[call EXCEPT !.decisions = decisions] EXCEPT !.phase = phase]
  BY <1>1 DEF IsDecided, RecordRoutingDecision
<1>3. PICK a, b, c, e, f, g, h :
         /\ call = [request |-> a, legacy |-> b, phase |-> c, decisions |-> e, tried |-> f,
                    route |-> g, model |-> h]
         /\ a = call.request /\ b = call.legacy /\ f = call.tried
  BY DEF CallShape
<1>4. new = [request |-> a, legacy |-> b, phase |-> phase, decisions |-> decisions, tried |-> f,
             route |-> g, model |-> h]
  BY <1>2, <1>3
<1>5. /\ CallShape(new) /\ new.phase = phase /\ new.request = a /\ new.legacy = b
      /\ new.tried = f /\ new.decisions = decisions
  BY <1>4, Shaped
<1> QED
  BY <1>1, <1>3, <1>5, Zenon

LEMMA PhaseFields ==
    ASSUME NEW call, CallShape(call), NEW phase, NEW new, new = [call EXCEPT !.phase = phase]
    PROVE  /\ CallShape(new) /\ new.phase = phase
           /\ new.request = call.request /\ new.legacy = call.legacy
           /\ new.tried = call.tried /\ new.decisions = call.decisions
<1>1. PICK a, b, c, e, f, g, h :
         /\ call = [request |-> a, legacy |-> b, phase |-> c, decisions |-> e, tried |-> f,
                    route |-> g, model |-> h]
         /\ a = call.request /\ b = call.legacy /\ e = call.decisions /\ f = call.tried
  BY DEF CallShape
<1>2. new = [request |-> a, legacy |-> b, phase |-> phase, decisions |-> e, tried |-> f,
             route |-> g, model |-> h]
  BY <1>1
<1> QED
  BY <1>1, <1>2 DEF CallShape

LEMMA NewCallFields ==
    ASSUME NEW r, NEW legacy
    PROVE  /\ CallShape(NewCall(r, legacy))
           /\ NewCall(r, legacy).request = r /\ NewCall(r, legacy).legacy = legacy
           /\ NewCall(r, legacy).phase = "blocked"
           /\ NewCall(r, legacy).tried = <<>> /\ NewCall(r, legacy).decisions = <<>>
<1>1. PICK e : e = <<>>
  OBVIOUS
<1>p. PICK p, n : p = "blocked" /\ n = NewCall(r, legacy)
  OBVIOUS
<1>2. n = [request |-> r, legacy |-> legacy, phase |-> p, decisions |-> e, tried |-> e,
           route |-> e, model |-> e]
  BY <1>1, <1>p, Zenon DEF NewCall
<1>3. /\ CallShape(n) /\ n.request = r /\ n.legacy = legacy
      /\ n.phase = p /\ n.tried = e /\ n.decisions = e
  BY <1>2 DEF CallShape
<1> QED
  BY <1>1, <1>p, <1>3, Zenon
(* A request that a provider is called for at once, the runner's or not. *)
LEMMA FirstCallOK ==
    ASSUME NEW r, r.maxFallback \in Int, NEW legacy \in BOOLEAN, NEW d, d = Selected(d.route),
           NEW new, new = Calling(NewCall(r, legacy), "first", d)
    PROVE  /\ CallOK(new) /\ new.phase = "first" /\ new.request = r
           /\ new.tried = <<d.route>>
<1>1. PICK call : call = NewCall(r, legacy)
  OBVIOUS
<1>2. /\ CallShape(call) /\ call.request = r /\ call.legacy = legacy
      /\ call.tried = <<>> /\ call.decisions = <<>>
  BY <1>1, NewCallFields
<1>3. IsCalling(new, call, "first", d)
  BY <1>1, <1>2, CallingFields
<1>4. new.tried = <<d.route>> /\ new.decisions = <<d>>
  BY <1>2, <1>3, Pairs DEF IsCalling
<1>5. OneAttempt(new)
  BY <1>4 DEF OneAttempt
<1>6. CallShape(new) /\ new.legacy \in BOOLEAN /\ new.request = r /\ new.phase = "first"
  BY <1>2, <1>3 DEF IsCalling
<1> QED
  BY <1>4, <1>5, <1>6 DEF CallOK

(* A request that goes no further than its routing decision. *)
LEMMA DecidedCallOK ==
    ASSUME NEW r, r.maxFallback \in Int, NEW legacy \in BOOLEAN, NEW d,
           NEW phase \in {"blocked", "routed"},
           NEW new, IsDecided(new, NewCall(r, legacy), phase, d)
    PROVE  CallOK(new) /\ new.phase = phase
<1>1. PICK call : call = NewCall(r, legacy)
  OBVIOUS
<1>2. CallShape(call) /\ call.request = r /\ call.legacy = legacy /\ call.tried = <<>>
  BY <1>1, NewCallFields
<1>3. /\ CallShape(new) /\ new.phase = phase /\ new.request = r
      /\ new.legacy = legacy /\ new.tried = <<>>
  BY <1>1, <1>2, RecordedFields
<1> QED
  BY <1>3 DEF CallOK

LEMMA BlockedCallOK ==
    ASSUME NEW r, r.maxFallback \in Int, NEW legacy \in BOOLEAN, NEW d,
           NEW new, new = RecordRoutingDecision(NewCall(r, legacy), d)
    PROVE  CallOK(new) /\ new.phase = "blocked"
<1>1. PICK call, decisions : call = NewCall(r, legacy) /\ decisions = Append(call.decisions, d)
  OBVIOUS
<1>2. /\ CallShape(call) /\ call.request = r /\ call.legacy = legacy /\ call.tried = <<>>
      /\ call.phase = "blocked"
  BY <1>1, NewCallFields
<1>3. new = [call EXCEPT !.decisions = decisions]
  BY <1>1, Zenon DEF RecordRoutingDecision
<1>4. new = [new EXCEPT !.phase = "blocked"]
  <2>1. PICK a, b, c, e, f, g, h :
           /\ call = [request |-> a, legacy |-> b, phase |-> c, decisions |-> e, tried |-> f,
                      route |-> g, model |-> h]
           /\ c = "blocked"
    BY <1>2 DEF CallShape
  <2> QED  BY ZenonT(40), <1>3, <2>1
<1>5. IsDecided(new, NewCall(r, legacy), "blocked", d)
  BY <1>4 DEF IsDecided
<1> QED
  BY <1>5, DecidedCallOK

(* A call that has ended in success or failure after one attempt or two. *)
LEMMA EndedCallOK ==
    ASSUME NEW call, CallOK(call), call.phase \in {"first", "fallback"},
           NEW phase \in {"succeeded", "failed"}, NEW new, new = [call EXCEPT !.phase = phase]
    PROVE  /\ CallOK(new) /\ new.phase = phase /\ new.legacy = call.legacy
           /\ new.tried = call.tried
<1>1. CallShape(call)
  BY DEF CallOK
<1>2. /\ CallShape(new) /\ new.phase = phase
      /\ new.request = call.request /\ new.legacy = call.legacy
      /\ new.tried = call.tried /\ new.decisions = call.decisions
  BY <1>1, PhaseFields
<1>3. OneAttempt(call) \/ TwoAttempts(call)
  BY DEF CallOK
<1>4. OneAttempt(new) \/ TwoAttempts(new)
  BY <1>2, <1>3, Zenon DEF OneAttempt, TwoAttempts
<1>5. new.legacy \in BOOLEAN /\ new.request.maxFallback \in Int
  BY <1>2 DEF CallOK
<1> QED
  BY <1>2, <1>4, <1>5 DEF CallOK
\* A new call: nothing is called, or the first provider past every gate.
BeginsWell(new) ==
    /\ CallOK(new) /\ new.phase \in {"blocked", "routed", "first"}
    /\ new.phase = "first" => CallGated(new)

(* What routing a request leads to, when a selected route is called. *)
LEMMA RoutedBeginsWell ==
    ASSUME CatalogOK(catalog), NEW r, r.maxFallback \in Int, NEW legacy \in BOOLEAN,
           NEW d, d = SelectRouteForRequest(catalog, r, {}), NEW new,
           \/ new = RecordRoutingDecision(NewCall(r, legacy), d)
           \/ d.verdict = "selected" /\ new = Calling(NewCall(r, legacy), "first", d)
    PROVE  BeginsWell(new)
<1>1. CASE new = RecordRoutingDecision(NewCall(r, legacy), d)
  BY <1>1, BlockedCallOK DEF BeginsWell
<1>2. CASE d.verdict = "selected" /\ new = Calling(NewCall(r, legacy), "first", d)
  <2>1. /\ d = [verdict |-> d.verdict, route |-> d.route]
        /\ RouteMatchesRequest(catalog, d.route, r) /\ Verdict(catalog, r, d.route) = "selected"
    BY <1>2, ChosenRoute
  <2>2. d = Selected(d.route)
    BY <1>2, <2>1, Zenon DEF Selected
  <2>3. /\ CallOK(new) /\ new.phase = "first" /\ new.request = r
        /\ new.tried = <<d.route>>
    BY <1>2, <2>2, FirstCallOK
  <2>4. Last(new.tried) = d.route
    BY <2>3, LastOfPair
  <2>5. CallGated(new)
    BY <2>1, <2>3, <2>4, CalledPastGates
  <2> QED  BY <2>3, <2>5 DEF BeginsWell
<1> QED
  BY <1>1, <1>2

LEMMA CompleteRouteBeginsWell ==
    ASSUME GatewayInv, NEW r \in Requests
    PROVE  BeginsWell(CompleteRoute(r))
<1>1. PICK d, new : d = SelectRouteForRequest(catalog, r, {}) /\ new = CompleteRoute(r)
  OBVIOUS
<1>2. \/ new = RecordRoutingDecision(NewCall(r, FALSE), d)
      \/ d.verdict = "selected" /\ new = Calling(NewCall(r, FALSE), "first", d)
  BY <1>1, Zenon DEF CompleteRoute
<1>3. r.maxFallback \in Int /\ CatalogOK(catalog) /\ FALSE \in BOOLEAN
  BY LlmAssumption DEF GatewayInv
<1>4. BeginsWell(new)
  BY <1>1, <1>2, <1>3, RoutedBeginsWell
<1> QED
  BY <1>1, <1>4

LEMMA CompleteBeginsWell ==
    ASSUME GatewayInv, NEW r \in Requests
    PROVE  BeginsWell(Complete(r))
<1>1. PICK own : own = [r EXCEPT !.kind = "", !.key = "", !.limit = NoLimit, !.actor = ""]
  OBVIOUS
<1>2. PICK d, new : d = SelectRouteForRequest(catalog, own, {}) /\ new = Complete(r)
  OBVIOUS
<1>3. \/ new = RecordRoutingDecision(NewCall(own, TRUE), d)
      \/ d.verdict = "selected" /\ new = Calling(NewCall(own, TRUE), "first", d)
  BY <1>1, <1>2, Zenon DEF Complete
<1>4. own.maxFallback \in Int
  <2>1. PICK a, b, c, e : own = [r EXCEPT !.kind = a, !.key = b, !.limit = c, !.actor = e]
    BY <1>1, Zenon
  <2>2. "maxFallback" \in DOMAIN r /\ r.maxFallback \in Int
    BY LlmAssumption
  <2>3. own.maxFallback = r.maxFallback
    BY <2>1, <2>2
  <2> QED  BY <2>2, <2>3
<1>5. CatalogOK(catalog) /\ TRUE \in BOOLEAN
  BY DEF GatewayInv
<1>6. BeginsWell(new)
  BY <1>2, <1>3, <1>4, <1>5, RoutedBeginsWell
<1> QED
  BY <1>2, <1>6

LEMMA RouteRequestBeginsWell ==
    ASSUME GatewayInv, NEW r \in Requests, NEW d
    PROVE  BeginsWell([RecordRoutingDecision(NewCall(r, FALSE), d) EXCEPT !.phase = "routed"])
<1>1. PICK new : IsDecided(new, NewCall(r, FALSE), "routed", d)
  BY DEF IsDecided
<1>2. r.maxFallback \in Int
  BY LlmAssumption
<1>3. CallOK(new) /\ new.phase = "routed"
  BY <1>1, <1>2, DecidedCallOK
<1> QED
  BY <1>1, <1>3 DEF IsDecided, BeginsWell

(* What a failed provider leads to: the call fails, or one other route is  *)
(* called, past every gate.                                                *)
LEMMA FallbackEndsWell ==
    ASSUME GatewayInv, NEW call, CallOK(call), call.phase \in {"first", "fallback"},
           NEW new, new = TryFallback(call)
    PROVE  /\ CallOK(new) /\ new.phase \in {"fallback", "failed"}
           /\ new.phase = "fallback" => CallGated(new) /\ call.phase = "first"
<1>1. PICK d : d = SelectRouteForRequest(catalog, call.request, Excluded(call))
  OBVIOUS
<1>2. PICK refused : refused = [verdict |-> "policy_blocked", route |-> Last(call.tried)]
  OBVIOUS
<1>3. \/ new = [call EXCEPT !.phase = "failed"]
      \/ MayFallBack(call) /\ IsDecided(new, call, "failed", refused)
      \/ MayFallBack(call) /\ d.verdict = "selected" /\ new = Calling(call, "fallback", d)
      \/ MayFallBack(call) /\ d.verdict # "selected" /\ IsDecided(new, call, "failed", d)
  BY <1>1, <1>2, Zenon DEF TryFallback, IsDecided
<1>4. CASE new = [call EXCEPT !.phase = "failed"]
  BY <1>4, EndedCallOK
<1>5. ASSUME MayFallBack(call)
      PROVE  /\ CallShape(call) /\ call.phase = "first" /\ ~call.legacy /\ config.fallbackEnabled
             /\ AttemptLimit(call.request) > 0 /\ call.request.maxFallback \in Int
             /\ \E a : call.tried = <<a>> /\ call.decisions = <<Selected(a)>>
  BY <1>5 DEF MayFallBack, CallOK, OneAttempt
<1>6. ASSUME MayFallBack(call), NEW e, e.verdict # "selected", IsDecided(new, call, "failed", e)
      PROVE  CallOK(new) /\ new.phase = "failed"
  <2>1. PICK a : call.tried = <<a>> /\ call.decisions = <<Selected(a)>>
    BY <1>5, <1>6
  <2>2. /\ CallShape(new) /\ new.phase = "failed"
        /\ new.request = call.request /\ new.legacy = call.legacy
        /\ new.tried = call.tried /\ new.decisions = Append(call.decisions, e)
    BY <1>5, <1>6, RecordedFields
  <2>3. new.decisions = <<Selected(a), e>>
    BY <2>1, <2>2, Pairs
  <2>4. GivenUp(new)
    BY <1>6, <2>1, <2>2, <2>3 DEF GivenUp
  <2>5. new.legacy \in BOOLEAN /\ new.request.maxFallback \in Int
    BY <2>2 DEF CallOK
  <2> QED  BY <2>2, <2>4, <2>5 DEF CallOK
<1>7. CASE MayFallBack(call) /\ IsDecided(new, call, "failed", refused)
  <2>1. refused.verdict # "selected"
    BY <1>2
  <2> QED  BY <1>6, <1>7, <2>1
<1>8. CASE MayFallBack(call) /\ d.verdict # "selected" /\ IsDecided(new, call, "failed", d)
  BY <1>6, <1>8
<1>9. CASE MayFallBack(call) /\ d.verdict = "selected" /\ new = Calling(call, "fallback", d)
  <2>1. PICK a : call.tried = <<a>> /\ call.decisions = <<Selected(a)>>
    BY <1>5, <1>9
  <2>2. /\ d = [verdict |-> d.verdict, route |-> d.route]
        /\ d.route \in DOMAIN catalog.routes \ Excluded(call)
        /\ RouteMatchesRequest(catalog, d.route, call.request)
        /\ Verdict(catalog, call.request, d.route) = "selected"
    BY <1>1, <1>9, ChosenRoute DEF GatewayInv
  <2>3. d = Selected(d.route)
    BY <1>9, <2>2, Zenon DEF Selected
  <2>4. d.route # a
    <3>1. Last(call.tried) = a
      BY <2>1, Pairs
    <3> QED  BY <2>2, <3>1 DEF Excluded
  <2>5. IsCalling(new, call, "fallback", d)
    BY <1>5, <1>9, CallingFields
  <2>6. /\ CallShape(new) /\ new.request = call.request /\ new.legacy = call.legacy
        /\ new.phase = "fallback" /\ new.model = catalog.models[catalog.routes[d.route].model]
    BY <2>5 DEF IsCalling
  <2>7. new.tried = <<a, d.route>> /\ new.decisions = <<Selected(a), d>>
    BY <2>1, <2>5, Pairs DEF IsCalling
  <2>8. \E x, y : x # y /\ new.tried = <<x, y>> /\ new.decisions = <<Selected(x), Selected(y)>>
    BY <2>3, <2>4, <2>7, Zenon
  <2>9. TwoAttempts(new)
    BY <1>5, <1>9, <2>6, <2>8, Zenon DEF TwoAttempts
  <2>10. new.model.status = "active"
    BY <2>2, <2>6, PassedGates
  <2>11. CallGated(new)
    <3>1. Last(new.tried) = d.route
      BY <2>7, LastOfPair
    <3> QED  BY <2>2, <2>6, <3>1, CalledPastGates
  <2>12. CallOK(new)
    BY <1>5, <1>9, <2>6, <2>9, <2>10 DEF CallOK
  <2> QED  BY <1>5, <1>9, <2>6, <2>11, <2>12
<1> QED
  BY <1>3, <1>4, <1>7, <1>8, <1>9
(***************************************************************************)
(* Every step keeps the invariant                                          *)
(***************************************************************************)

LEMMA CallOKNext ==
    ASSUME config' = config, NEW c, CallOK(calls'[c])
    PROVE  CallOK(calls[c])'
<1>1. PICK new : new = calls'[c]
  OBVIOUS
<1>2. AttemptLimit(new.request) = AttemptLimit(calls[c].request)'
  BY <1>1, Zenon DEF AttemptLimit
<1>3. TwoAttempts(new) <=> TwoAttempts(calls[c])'
  BY <1>1, <1>2 DEF TwoAttempts, Selected
<1> QED
  BY <1>1, <1>3, Zenon DEF CallOK, CallShape, OneAttempt, GivenUp, Selected

LEMMA CallAdded ==
    ASSUME GatewayInv, NEW new, BeginsWell(new), calls' = Append(calls, new),
           config' = config, catalog' = catalog, usage' = usage
    PROVE  GatewayInv' /\ CallsStartGated
<1>1. IsSequence(calls) /\ \A c \in DOMAIN calls : CallOK(calls[c])
  BY DEF GatewayInv, CallsOK
<1>2. PICK n : n = Len(calls) + 1
  OBVIOUS
<1>3. /\ IsSequence(calls') /\ DOMAIN calls' = DOMAIN calls \cup {n} /\ n \notin DOMAIN calls
      /\ \A c \in DOMAIN calls : calls'[c] = calls[c]
      /\ calls'[n] = new
  BY <1>1, <1>2, Grown
<1>4. CallOK(new) /\ new.phase \in {"blocked", "routed", "first"} /\ (new.phase = "first" => CallGated(new))
  BY DEF BeginsWell
<1>5. CallsOK'
  <2>1. ASSUME NEW c \in DOMAIN calls' PROVE CallOK(calls[c])'
    <3>1. CallOK(calls'[c])
      BY <1>1, <1>3, <1>4
    <3> QED  BY <3>1, CallOKNext
  <2> QED  BY <1>3, <2>1 DEF CallsOK, IsSequence
<1>6. UsageOK'
  <2>1. ~Answered(new)
    BY <1>4 DEF Answered
  <2>2. UsageOK
    BY DEF GatewayInv
  <2>3. IsSequence(usage) /\ IsSequence(usage)'
    BY <2>2 DEF UsageOK, IsSequence
  <2>4. \A m \in DOMAIN usage : usage[m].call \in DOMAIN calls' /\ RecordOf(usage[m], calls'[usage[m].call])
    BY <1>3, <2>2 DEF UsageOK
  <2>5. \A c \in DOMAIN calls' : Answered(calls'[c]) => \E m \in DOMAIN usage : usage[m].call = c
    BY <1>3, <2>1, <2>2 DEF UsageOK
  <2> QED  BY <2>2, <2>3, <2>4, <2>5, Zenon DEF UsageOK, Answered, RecordOf
<1>7. CallsStartGated
  BY <1>3, <1>4 DEF CallsStartGated
<1> QED
  BY <1>5, <1>6, <1>7 DEF GatewayInv, CatalogOK, Ranked, RouteIds

LEMMA ProviderReturnsKeeps ==
    ASSUME GatewayInv, NEW c \in DOMAIN calls, NEW ok \in BOOLEAN, ProviderReturns(c, ok)
    PROVE  GatewayInv' /\ CallsStartGated
<1>1. IsSequence(calls) /\ \A x \in DOMAIN calls : CallOK(calls[x])
  BY DEF GatewayInv, CallsOK
<1>2. PICK call : call = calls[c]
  OBVIOUS
<1>3. CallOK(call) /\ call.phase \in {"first", "fallback"} /\ config' = config /\ catalog' = catalog
  BY <1>1, <1>2 DEF ProviderReturns, InFlight
<1>4. PICK new : new = IF ok THEN [call EXCEPT !.phase = "succeeded"] ELSE TryFallback(call)
  OBVIOUS
<1>5. calls' = [calls EXCEPT ![c] = new]
  BY <1>2, <1>4, Zenon DEF ProviderReturns
<1>6. /\ IsSequence(calls') /\ DOMAIN calls' = DOMAIN calls /\ calls'[c] = new
      /\ \A x \in DOMAIN calls : x # c => calls'[x] = calls[x]
  BY <1>1, <1>5, Changed
<1>7. ASSUME ok
      PROVE  /\ CallOK(new) /\ new.phase = "succeeded"
             /\ new.legacy = call.legacy /\ new.tried = call.tried
  BY <1>3, <1>4, <1>7, EndedCallOK
<1>8. ASSUME ~ok
      PROVE  /\ CallOK(new) /\ new.phase \in {"fallback", "failed"}
             /\ new.phase = "fallback" => CallGated(new)
  BY <1>3, <1>4, <1>8, FallbackEndsWell
<1>9. CallOK(new)
  BY <1>7, <1>8
<1>10. CallsOK'
  <2>1. ASSUME NEW x \in DOMAIN calls' PROVE CallOK(calls[x])'
    <3>1. CallOK(calls'[x])
      BY <1>1, <1>6, <1>9
    <3> QED  BY <1>3, <3>1, CallOKNext
  <2> QED  BY <1>6, <2>1 DEF CallsOK, IsSequence
<1>11. CallsStartGated
  <2>1. new.phase \in {"first", "fallback"} => CallGated(new)
    BY <1>7, <1>8
  <2> QED  BY <1>6, <2>1 DEF CallsStartGated
<1>12. UsageOK /\ ~Answered(call)
  BY <1>3 DEF GatewayInv, Answered
<1>13. \A m \in DOMAIN usage : usage[m].call \in DOMAIN calls /\ usage[m].call # c
                              /\ RecordOf(usage[m], calls'[usage[m].call])
  BY <1>2, <1>6, <1>12 DEF UsageOK, RecordOf
<1>14. CASE ~ok \/ call.legacy
  <2>1. usage' = usage
    BY <1>2, <1>14 DEF ProviderReturns, RecordUsage
  <2>2. ~Answered(new)
    BY <1>7, <1>8, <1>14 DEF Answered
  <2>3. \A x \in DOMAIN calls' : Answered(calls'[x]) => \E m \in DOMAIN usage : usage[m].call = x
    BY <1>6, <1>12, <2>2 DEF UsageOK
  <2>4. \A m \in DOMAIN usage : usage[m].call \in DOMAIN calls' /\ RecordOf(usage[m], calls'[usage[m].call])
    BY <1>6, <1>13
  <2>5. IsSequence(usage)'
    BY <1>12, <2>1 DEF UsageOK, IsSequence
  <2>6. UsageOK'
    BY <1>12, <2>1, <2>3, <2>4, <2>5, Zenon DEF UsageOK, Answered, RecordOf
  <2> QED  BY <1>3, <1>10, <1>11, <2>6 DEF GatewayInv, CatalogOK, Ranked, RouteIds
<1>15. CASE ok /\ ~call.legacy
  <2>1. PICK u : u = [call |-> c, route |-> Last(call.tried), model |-> call.route.model,
                      fallback |-> call.phase = "fallback"]
    OBVIOUS
  <2>2. usage' = Append(usage, u)
    BY <1>2, <1>15, <2>1, Zenon DEF ProviderReturns, RecordUsage
  <2>3. PICK n : n = Len(usage) + 1
    OBVIOUS
  <2>4. /\ IsSequence(usage') /\ DOMAIN usage' = DOMAIN usage \cup {n} /\ n \notin DOMAIN usage
        /\ \A m \in DOMAIN usage : usage'[m] = usage[m]
        /\ usage'[n] = u
    BY <1>12, <2>2, <2>3, Grown DEF UsageOK
  <2>5. Answered(new)
    BY <1>7, <1>15 DEF Answered
  <2>6. u.call = c /\ u.route = Last(new.tried) /\ (u.fallback <=> call.phase = "fallback")
    BY <1>7, <1>15, <2>1
  <2>7. call.phase = "fallback" <=> Len(new.tried) = 2
    <3>1. CASE call.phase = "first"
      <4>1. PICK a : call.tried = <<a>>
        BY <1>3, <3>1 DEF CallOK, OneAttempt
      <4>2. Len(<<a>>) = 1
        OBVIOUS
      <4> QED  BY <1>7, <1>15, <3>1, <4>1, <4>2
    <3>2. CASE call.phase = "fallback"
      <4>1. PICK a, b : call.tried = <<a, b>>
        BY <1>3, <3>2 DEF CallOK, TwoAttempts
      <4>2. Len(<<a, b>>) = 2
        OBVIOUS
      <4> QED  BY <1>7, <1>15, <3>2, <4>1, <4>2
    <3> QED  BY <1>3, <3>1, <3>2
  <2>8. RecordOf(u, new)
    BY <2>5, <2>6, <2>7, Zenon DEF RecordOf
  <2>9. \A m \in DOMAIN usage' : usage'[m].call \in DOMAIN calls' /\ RecordOf(usage'[m], calls'[usage'[m].call])
    BY <1>6, <1>13, <2>4, <2>6, <2>8
  <2>10. \A m, k \in DOMAIN usage' : usage'[m].call = usage'[k].call => m = k
    BY <1>12, <1>13, <2>4, <2>6 DEF UsageOK
  <2>11. \A x \in DOMAIN calls' : Answered(calls'[x]) => \E m \in DOMAIN usage' : usage'[m].call = x
    <3>1. ASSUME NEW x \in DOMAIN calls, x # c, Answered(calls'[x])
          PROVE  \E m \in DOMAIN usage' : usage'[m].call = x
      <4>1. PICK m \in DOMAIN usage : usage[m].call = x
        BY <1>6, <1>12, <3>1 DEF UsageOK
      <4> QED  BY <2>4, <4>1
    <3>2. \E m \in DOMAIN usage' : usage'[m].call = c
      BY <2>4, <2>6
    <3> QED  BY <1>6, <3>1, <3>2
  <2>12. UsageOK'
    BY <2>4, <2>9, <2>10, <2>11, Zenon DEF UsageOK, Answered, RecordOf, IsSequence
  <2> QED  BY <1>3, <1>10, <1>11, <2>12 DEF GatewayInv, CatalogOK, Ranked, RouteIds
<1> QED
  BY <1>14, <1>15
LEMMA ChangeKeeps ==
    ASSUME GatewayInv, NEW next, CatalogOK(next), Change(next)
    PROVE  GatewayInv' /\ CallsStartGated
<1>1. catalog' = next /\ config' = config /\ calls' = calls /\ usage' = usage
  BY DEF Change
<1>2. CallsOK'
  <2>1. ASSUME NEW c \in DOMAIN calls' PROVE CallOK(calls[c])'
    <3>1. CallOK(calls'[c])
      BY <1>1 DEF GatewayInv, CallsOK
    <3> QED  BY <1>1, <3>1, CallOKNext
  <2> QED  BY <1>1, <2>1 DEF GatewayInv, CallsOK, IsSequence
<1>3. UsageOK'
  BY <1>1, Zenon DEF GatewayInv, UsageOK, Answered, RecordOf, IsSequence
<1>4. CatalogOK(catalog)'
  BY <1>1, Zenon DEF CatalogOK, Ranked, RouteIds
<1>5. CallsStartGated
  BY <1>1 DEF CallsStartGated
<1> QED
  BY <1>1, <1>2, <1>3, <1>4, <1>5 DEF GatewayInv

\* The fields of the catalog other than the routes are not looked into.
LEMMA CatalogShape ==
    ASSUME NEW routes, NEW models, NEW keys, NEW policies, Ranked(routes),
           NEW k, k = [routes |-> routes, models |-> models, keys |-> keys, fallbackPolicies |-> policies]
    PROVE  CatalogOK(k)
<1>1. k = [routes |-> k.routes, models |-> k.models, keys |-> k.keys,
           fallbackPolicies |-> k.fallbackPolicies]
  OBVIOUS
<1>2. k.routes = routes
  OBVIOUS
<1> QED
  BY <1>1, <1>2, Zenon DEF CatalogOK

LEMMA CreatedRoutesRanked ==
    ASSUME NEW routes, Ranked(routes), NEW id \in DOMAIN NewRoutes
    PROVE  Ranked(With(routes, id, NewRoutes[id]))
<1>1. PICK low \in Int : \A x \in DOMAIN routes : RouteOK(low, routes[x])
  BY DEF Ranked
<1>2. PICK all : all = With(routes, id, NewRoutes[id])
  OBVIOUS
<1>3. /\ DOMAIN all = DOMAIN routes \cup {id} /\ all[id] = NewRoutes[id]
      /\ \A x \in DOMAIN routes : x # id => all[x] = routes[x]
  BY <1>2 DEF With
<1>4. /\ {"priority", "enabled"} \subseteq DOMAIN NewRoutes[id]
      /\ NewRoutes[id].priority \in Int
  BY LlmAssumption
<1>5. PICK p \in Int : p = NewRoutes[id].priority
  BY <1>4
<1>6. PICK least \in Int : least <= p /\ least <= low
  OBVIOUS
<1>7. ASSUME NEW x \in DOMAIN all PROVE RouteOK(least, all[x])
  <2>1. CASE x = id
    BY <1>3, <1>4, <1>5, <1>6, <2>1 DEF RouteOK
  <2>2. CASE x # id
    <3>1. RouteOK(low, all[x])
      BY <1>1, <1>3, <2>2
    <3> QED  BY <1>6, <3>1 DEF RouteOK
  <2> QED  BY <2>1, <2>2
<1>8. DOMAIN all \subseteq RouteIds
  BY <1>3 DEF RouteIds, Ranked
<1>9. Ranked(all)
  BY <1>7, <1>8, Zenon DEF Ranked
<1> QED
  BY <1>2, <1>9

LEMMA PatchedRoutesRanked ==
    ASSUME NEW routes, Ranked(routes), NEW id \in DOMAIN routes, NEW enabled
    PROVE  Ranked([routes EXCEPT ![id].enabled = enabled])
<1>1. PICK least \in Int : \A x \in DOMAIN routes : RouteOK(least, routes[x])
  BY DEF Ranked
<1>2. PICK route : route = [routes[id] EXCEPT !.enabled = enabled]
  OBVIOUS
<1>3. PICK all : all = [routes EXCEPT ![id] = route]
  OBVIOUS
<1>4. all = [routes EXCEPT ![id].enabled = enabled]
  BY <1>2, <1>3
<1>5. RouteOK(least, routes[id])
  BY <1>1
<1>6. RouteOK(least, route)
  BY <1>2, <1>5 DEF RouteOK
<1>7. \A x \in DOMAIN all : RouteOK(least, all[x])
  BY <1>1, <1>3, <1>6
<1>8. DOMAIN all \subseteq RouteIds
  BY <1>3 DEF Ranked
<1>9. Ranked(all)
  BY <1>7, <1>8, Zenon DEF Ranked
<1> QED
  BY <1>4, <1>9

LEMMA ChangesOK ==
    ASSUME CatalogOK(catalog)
    PROVE  /\ \A id \in DOMAIN NewRoutes : CatalogOK(CreateRoute(id))
           /\ \A id \in DOMAIN catalog.routes, enabled \in BOOLEAN : CatalogOK(UpdateRouteStatus(id, enabled))
           /\ \A id : CatalogOK(RegisterModel(id))
           /\ \A id, status : CatalogOK(UpdateModelStatus(id, status))
           /\ \A id : CatalogOK(CreateVirtualKey(id))
           /\ \A id, status : CatalogOK(UpdateVirtualKeyStatus(id, status))
           /\ \A id : CatalogOK(CreatePolicy(id))
<1>1. PICK routes, models, keys, policies :
         /\ catalog = [routes |-> routes, models |-> models, keys |-> keys, fallbackPolicies |-> policies]
         /\ routes = catalog.routes
  BY DEF CatalogOK
<1>2. Ranked(routes)
  BY <1>1 DEF CatalogOK
<1>3. ASSUME NEW r, Ranked(r) PROVE CatalogOK([catalog EXCEPT !.routes = r])
  <2>1. PICK k : k = [catalog EXCEPT !.routes = r]
    OBVIOUS
  <2>2. k = [routes |-> r, models |-> models, keys |-> keys, fallbackPolicies |-> policies]
    BY <1>1, <2>1
  <2> QED  BY <1>3, <2>1, <2>2, CatalogShape
<1>4. ASSUME NEW m PROVE CatalogOK([catalog EXCEPT !.models = m])
  <2>1. PICK k : k = [catalog EXCEPT !.models = m]
    OBVIOUS
  <2>2. k = [routes |-> routes, models |-> m, keys |-> keys, fallbackPolicies |-> policies]
    BY <1>1, <2>1
  <2> QED  BY <1>2, <2>1, <2>2, CatalogShape
<1>5. ASSUME NEW m PROVE CatalogOK([catalog EXCEPT !.keys = m])
  <2>1. PICK k : k = [catalog EXCEPT !.keys = m]
    OBVIOUS
  <2>2. k = [routes |-> routes, models |-> models, keys |-> m, fallbackPolicies |-> policies]
    BY <1>1, <2>1
  <2> QED  BY <1>2, <2>1, <2>2, CatalogShape
<1>6. ASSUME NEW m PROVE CatalogOK([catalog EXCEPT !.fallbackPolicies = m])
  <2>1. PICK k : k = [catalog EXCEPT !.fallbackPolicies = m]
    OBVIOUS
  <2>2. k = [routes |-> routes, models |-> models, keys |-> keys, fallbackPolicies |-> m]
    BY <1>1, <2>1
  <2> QED  BY <1>2, <2>1, <2>2, CatalogShape
<1>7. ASSUME NEW id \in DOMAIN NewRoutes PROVE CatalogOK(CreateRoute(id))
  <2>1. PICK r : r = With(routes, id, NewRoutes[id])
    OBVIOUS
  <2>2. Ranked(r)
    BY <1>2, <2>1, CreatedRoutesRanked
  <2>3. CreateRoute(id) = [catalog EXCEPT !.routes = r]
    BY <1>1, <2>1, Zenon DEF CreateRoute
  <2> QED  BY <1>3, <2>2, <2>3
<1>8. ASSUME NEW id \in DOMAIN catalog.routes, NEW enabled \in BOOLEAN
      PROVE  CatalogOK(UpdateRouteStatus(id, enabled))
  <2>1. PICK r : r = [routes EXCEPT ![id].enabled = enabled]
    OBVIOUS
  <2>2. Ranked(r)
    BY <1>1, <1>2, <1>8, <2>1, PatchedRoutesRanked
  <2>3. UpdateRouteStatus(id, enabled) = [catalog EXCEPT !.routes = r]
    BY <1>1, <2>1 DEF UpdateRouteStatus
  <2> QED  BY <1>3, <2>2, <2>3
<1>9. ASSUME NEW id PROVE CatalogOK(RegisterModel(id))
  <2>1. RegisterModel(id) = [catalog EXCEPT !.models = With(catalog.models, id, NewModels[id])]
    BY Zenon DEF RegisterModel
  <2> QED  BY <1>4, <2>1
<1>10. ASSUME NEW id, NEW status PROVE CatalogOK(UpdateModelStatus(id, status))
  <2>1. UpdateModelStatus(id, status) = [catalog EXCEPT !.models = [catalog.models EXCEPT ![id].status = status]]
    BY DEF UpdateModelStatus
  <2> QED  BY <1>4, <2>1
<1>11. ASSUME NEW id PROVE CatalogOK(CreateVirtualKey(id))
  <2>1. CreateVirtualKey(id) = [catalog EXCEPT !.keys = With(catalog.keys, id, NewKeys[id])]
    BY Zenon DEF CreateVirtualKey
  <2> QED  BY <1>5, <2>1
<1>12. ASSUME NEW id, NEW status PROVE CatalogOK(UpdateVirtualKeyStatus(id, status))
  <2>1. UpdateVirtualKeyStatus(id, status) = [catalog EXCEPT !.keys = [catalog.keys EXCEPT ![id].status = status]]
    BY DEF UpdateVirtualKeyStatus
  <2> QED  BY <1>5, <2>1
<1>13. ASSUME NEW id PROVE CatalogOK(CreatePolicy(id))
  <2>1. CreatePolicy(id) = [catalog EXCEPT
            !.fallbackPolicies = With(catalog.fallbackPolicies, id, [enabled |-> TRUE, max |-> 1])]
    BY Zenon DEF CreatePolicy
  <2> QED  BY <1>6, <2>1
<1> QED
  BY <1>7, <1>8, <1>9, <1>10, <1>11, <1>12, <1>13, Zenon
LEMMA MockRouteOK ==
    ASSUME NEW model, NEW priority \in Nat, NEW caps, NEW classes
    PROVE  RouteOK(0, MockRoute(model, priority, caps, classes))
  BY DEF MockRoute, RouteOK

LEMMA SkeletonRouteOK ==
    ASSUME NEW kind, NEW provider, NEW model, NEW priority \in Nat
    PROVE  RouteOK(0, SkeletonRoute(kind, provider, model, priority))
  BY DEF SkeletonRoute, RouteOK

LEMMA PatchedCapsOK ==
    ASSUME NEW route, RouteOK(0, route), NEW caps, NEW ref
    PROVE  /\ RouteOK(0, [route EXCEPT !.caps = caps])
           /\ RouteOK(0, [route EXCEPT !.caps = caps, !.secretRef = ref])
  BY DEF RouteOK

LEMMA SeedsRanked == Ranked(SeedLlmRoutes)
<1>1. PICK a, b, c :
         /\ a = MockRoute("mock_model", 100, {"general"}, {"general", "unknown"})
         /\ b = MockRoute("mock_coder", 110, {"code_review"}, {"code_review", "general", "unknown"})
         /\ c = MockRoute("mock_conflict", 105, {"conflict_resolution", "code_review"}, {"conflict_resolution"})
  OBVIOUS
<1>2. RouteOK(0, a) /\ RouteOK(0, b) /\ RouteOK(0, c)
  BY <1>1, MockRouteOK
<1>3. PICK d0, e, f0 :
         /\ d0 = SkeletonRoute("openai_compatible", "openai_api_key", "openai_default", 300)
         /\ e = SkeletonRoute("anthropic_compatible", "anthropic_api_key", "anthropic_skeleton", 500)
         /\ f0 = SkeletonRoute("local_cli", "claude_code_local", "claude_local", 900)
  OBVIOUS
<1>4. RouteOK(0, d0) /\ RouteOK(0, e) /\ RouteOK(0, f0)
  BY <1>3, SkeletonRouteOK
<1>d. PICK d : d = [d0 EXCEPT !.caps = {"completion", "code_review"}]
  OBVIOUS
<1>f. PICK f : f = [f0 EXCEPT !.caps = {"code_review"}, !.secretRef = FALSE]
  OBVIOUS
<1>5. RouteOK(0, d) /\ RouteOK(0, f)
  BY <1>4, <1>d, <1>f, PatchedCapsOK, Zenon
<1>s. SeedLlmRoutes = [general |-> a, coder |-> b, conflict |-> c,
                       openai |-> d, anthropic |-> e, claude |-> f]
  BY <1>1, <1>3, <1>d, <1>f, ZenonT(40) DEF SeedLlmRoutes
<1>6. PICK routes : routes = [general |-> a, coder |-> b, conflict |-> c,
                              openai |-> d, anthropic |-> e, claude |-> f]
                    /\ routes = SeedLlmRoutes
  BY <1>s
<1>7. \A id \in DOMAIN routes : routes[id] \in {a, b, c, d, e, f}
  BY <1>6
<1>8. \A id \in DOMAIN routes : RouteOK(0, routes[id])
  BY <1>2, <1>4, <1>5, <1>7
<1>9. 0 \in Int
  OBVIOUS
<1> QED
  BY <1>6, <1>8, <1>9 DEF Ranked, RouteIds

LEMMA InitOK ==
    ASSUME Init
    PROVE  GatewayInv
<1>1. calls = <<>> /\ usage = <<>> /\ config \in Configs
  BY DEF Init
<1>2. IsSequence(<<>>) /\ DOMAIN <<>> = {}
  BY DEF IsSequence
<1>3. IsSequence(calls) /\ IsSequence(usage) /\ DOMAIN calls = {} /\ DOMAIN usage = {}
  BY <1>1, <1>2, Zenon
<1>4. CatalogOK(catalog)
  <2>1. PICK models, keys, policies :
           catalog = [routes |-> SeedLlmRoutes, models |-> models, keys |-> keys,
                      fallbackPolicies |-> policies]
    BY Zenon DEF Init
  <2> QED  BY <2>1, SeedsRanked, CatalogShape
<1>5. config.maxFallback \in Nat
  <2>1. PICK env \in Envs : config = CreateLlmProviderFromEnv(env)
    BY <1>1 DEF Configs
  <2>2. config.maxFallback = env.maxFallback
    BY <2>1 DEF CreateLlmProviderFromEnv
  <2>3. env.maxFallback \in Nat
    BY LlmAssumption
  <2> QED  BY <2>2, <2>3
<1>6. CallsOK /\ UsageOK
  BY <1>3, Zenon DEF CallsOK, UsageOK
<1> QED
  BY <1>4, <1>5, <1>6 DEF GatewayInv

LEMMA NextKeeps ==
    ASSUME GatewayInv, Next
    PROVE  GatewayInv' /\ CallsStartGated
<1> USE DEF GatewayInv
<1>1. CASE \E r \in Requests : PostCompletion(r)
  <2>1. PICK r \in Requests : PostCompletion(r)
    BY <1>1
  <2>2. BeginsWell(CompleteRoute(r))
    BY CompleteRouteBeginsWell
  <2> QED  BY <2>1, <2>2, CallAdded DEF PostCompletion
<1>2. CASE \E r \in Requests : PostRouteRequest(r)
  <2>1. PICK r \in Requests : PostRouteRequest(r)
    BY <1>2
  <2>2. PICK d, new : /\ d = SelectRouteForRequest(catalog, r, {})
                      /\ new = [RecordRoutingDecision(NewCall(r, FALSE), d) EXCEPT !.phase = "routed"]
    OBVIOUS
  <2>3. BeginsWell(new)
    BY <2>2, RouteRequestBeginsWell
  <2>4. /\ calls' = Append(calls, new) /\ config' = config
        /\ catalog' = catalog /\ usage' = usage
    BY <2>1, <2>2, Zenon DEF PostRouteRequest
  <2> HIDE DEF GatewayInv
  <2> QED  BY <2>3, <2>4, CallAdded
<1>3. CASE \E r \in Requests : RunnerCompletes(r)
  <2>1. PICK r \in Requests : RunnerCompletes(r)
    BY <1>3
  <2>2. BeginsWell(Complete(r))
    BY CompleteBeginsWell
  <2> QED  BY <2>1, <2>2, CallAdded DEF RunnerCompletes
<1>4. CASE \E c \in DOMAIN calls, ok \in BOOLEAN : ProviderReturns(c, ok)
  BY <1>4, ProviderReturnsKeeps
<1>5. CASE \E id \in DOMAIN NewRoutes : PostRoute(id)
  BY <1>5, ChangesOK, ChangeKeeps DEF PostRoute
<1>6. CASE \E id \in Patchable, enabled \in BOOLEAN : PatchRoute(id, enabled)
  BY <1>6, ChangesOK, ChangeKeeps DEF PatchRoute
<1>7. CASE \E id \in DOMAIN NewModels : PostModel(id)
  BY <1>7, ChangesOK, ChangeKeeps DEF PostModel
<1>8. CASE \E id \in Patchable, status \in {"active", "disabled"} : PatchModel(id, status)
  BY <1>8, ChangesOK, ChangeKeeps DEF PatchModel
<1>9. CASE \E id \in DOMAIN NewKeys : PostVirtualKey(id)
  BY <1>9, ChangesOK, ChangeKeeps DEF PostVirtualKey
<1>10. CASE \E id \in {DefaultKey} \cup DOMAIN NewKeys, status \in {"active", "disabled"} : PatchVirtualKey(id, status)
  BY <1>10, ChangesOK, ChangeKeeps DEF PatchVirtualKey
<1>11. CASE PostFallbackPolicy("custom")
  BY <1>11, ChangesOK, ChangeKeeps DEF PostFallbackPolicy
<1> QED
  BY <1>1, <1>2, <1>3, <1>4, <1>5, <1>6, <1>7, <1>8, <1>9, <1>10, <1>11 DEF Next

LEMMA StutterKeeps ==
    ASSUME GatewayInv, UNCHANGED gatewayVars
    PROVE  GatewayInv'
<1>1. config' = config /\ catalog' = catalog /\ calls' = calls /\ usage' = usage
  BY DEF gatewayVars
<1>2. CallsOK'
  <2>1. ASSUME NEW c \in DOMAIN calls' PROVE CallOK(calls[c])'
    <3>1. CallOK(calls'[c])
      BY <1>1 DEF GatewayInv, CallsOK
    <3> QED  BY <1>1, <3>1, CallOKNext
  <2> QED  BY <1>1, <2>1 DEF GatewayInv, CallsOK, IsSequence
<1>3. UsageOK'
  BY <1>1, Zenon DEF GatewayInv, UsageOK, Answered, RecordOf, IsSequence
<1> QED
  BY <1>1, <1>2, <1>3, Zenon DEF GatewayInv, CatalogOK, Ranked, RouteIds
(***************************************************************************)
(* Theorems                                                                *)
(***************************************************************************)

(* The invariant holds of every state the gateway reaches. *)
LEMMA Invariance == Spec => []GatewayInv
<1>1. Init => GatewayInv
  BY InitOK
<1>2. GatewayInv /\ [Next]_gatewayVars => GatewayInv'
  BY NextKeeps, StutterKeeps
<1> QED
  BY <1>1, <1>2, PTL DEF Spec

LEMMA OneUsageRecord ==
    ASSUME UsageOK
    PROVE  UsageExact
<1>1. ASSUME NEW c \in DOMAIN calls
      PROVE  Cardinality({n \in DOMAIN usage : usage[n].call = c})
                = IF calls[c].phase = "succeeded" /\ ~calls[c].legacy THEN 1 ELSE 0
  <2> DEFINE N == {n \in DOMAIN usage : usage[n].call = c}
  <2>1. CASE Answered(calls[c])
    <3>1. PICK n \in DOMAIN usage : usage[n].call = c
      BY <2>1 DEF UsageOK
    <3>2. N = {n}
      BY <3>1 DEF UsageOK
    <3>3. Cardinality(N) = 1
      BY <3>2, FS_Singleton
    <3> QED  BY <2>1, <3>3 DEF Answered
  <2>2. CASE ~Answered(calls[c])
    <3>1. N = {}
      BY <2>2 DEF UsageOK, RecordOf
    <3>2. Cardinality(N) = 0
      BY <3>1, FS_EmptySet
    <3> QED  BY <2>2, <3>2 DEF Answered
  <2> QED  BY <2>1, <2>2
<1>2. \A n \in DOMAIN usage : RecordOf(usage[n], calls[usage[n].call])
  BY DEF UsageOK
<1> QED
  BY <1>1, <1>2 DEF UsageExact, RecordOf

(* Every completion that the API answers has exactly one usage record, of  *)
(* the route that answered, and no other request has any (recordUsage),    *)
(* however requests, failures and changes of the catalog interleave.       *)
THEOREM UsageAlwaysExact == Spec => []UsageExact
<1>1. GatewayInv => UsageExact
  BY OneUsageRecord DEF GatewayInv
<1> QED
  BY <1>1, Invariance, PTL

(* A provider is called, first or as a fallback, only past the gates as    *)
(* they are at that moment (selectRouteForRequest): route enabled, model   *)
(* and key active, budget kept, and the remote provider fully configured.  *)
THEOREM CallsAlwaysGated == Spec => CallsGated
<1>1. GatewayInv /\ [Next]_gatewayVars => [CallsStartGated]_gatewayVars
  BY NextKeeps
<1> QED
  BY <1>1, Invariance, PTL DEF Spec, CallsGated

LEMMA AttemptsBounded ==
    ASSUME config.maxFallback \in Nat, CallsOK
    PROVE  FallbackBounded
<1> SUFFICES ASSUME NEW c \in DOMAIN calls
             PROVE  LET call   == calls[c]
                        chosen == {n \in DOMAIN call.decisions : call.decisions[n].verdict = "selected"}
                    IN  /\ Len(call.tried) <= 1 + (IF config.fallbackEnabled THEN AttemptLimit(call.request) ELSE 0)
                        /\ Len(call.tried) <= 2 /\ (call.legacy => Len(call.tried) <= 1)
                        /\ IsInjective(call.tried)
                        /\ call.tried # <<>> =>
                             /\ chosen = DOMAIN call.tried
                             /\ \A n \in chosen : call.decisions[n].route = call.tried[n]
                        /\ (call.phase = "fallback") => (call.model.status = "active")
  BY Zenon DEF FallbackBounded
<1>1. PICK call : call = calls[c]
  OBVIOUS
<1>2. CallOK(call)
  BY <1>1 DEF CallsOK
<1>3. PICK limit \in Nat : limit = AttemptLimit(call.request)
  BY <1>2, LimitIsNatural DEF CallOK
<1>4. (call.phase = "fallback") => (call.model.status = "active")
  BY <1>2 DEF CallOK
<1>5. call.tried = <<>> \/ OneAttempt(call) \/ GivenUp(call) \/ TwoAttempts(call)
  BY <1>2 DEF CallOK
<1> DEFINE chosen == {n \in DOMAIN call.decisions : call.decisions[n].verdict = "selected"}
           Goal == /\ Len(call.tried) <= 1 + (IF config.fallbackEnabled THEN limit ELSE 0)
                   /\ Len(call.tried) <= 2 /\ (call.legacy => Len(call.tried) <= 1)
                   /\ IsInjective(call.tried)
                   /\ call.tried # <<>> =>
                        /\ chosen = DOMAIN call.tried
                        /\ \A n \in chosen : call.decisions[n].route = call.tried[n]
<1>6. \A id : Selected(id).verdict = "selected" /\ Selected(id).route = id
  BY DEF Selected
<1>7. 1 <= 1 + (IF config.fallbackEnabled THEN limit ELSE 0)
  OBVIOUS
<1>8. ASSUME call.tried = <<>> PROVE Goal
  <2>1. Len(call.tried) = 0 /\ DOMAIN call.tried = {}
    BY <1>8
  <2>2. IsInjective(call.tried)
    BY <2>1 DEF IsInjective
  <2> QED  BY <1>8, <2>1, <2>2
<1>9. ASSUME NEW a, call.tried = <<a>>
      PROVE  Len(call.tried) = 1 /\ IsInjective(call.tried) /\ DOMAIN call.tried = {1} /\ call.tried[1] = a
  <2>1. Len(call.tried) = 1 /\ DOMAIN call.tried = {1} /\ call.tried[1] = a
    BY <1>9
  <2> QED  BY <2>1 DEF IsInjective
<1>10. ASSUME OneAttempt(call) PROVE Goal
  <2>1. PICK a : call.tried = <<a>> /\ call.decisions = <<Selected(a)>>
    BY <1>10 DEF OneAttempt
  <2>2. DOMAIN call.decisions = {1} /\ call.decisions[1] = Selected(a)
    BY <2>1
  <2>3. chosen = {1} /\ call.decisions[1].route = a
    BY <1>6, <2>2
  <2> HIDE DEF chosen
  <2> QED  BY <1>7, <1>9, <2>1, <2>3
<1>11. ASSUME GivenUp(call) PROVE Goal
  <2>1. PICK a, d : call.tried = <<a>> /\ call.decisions = <<Selected(a), d>> /\ d.verdict # "selected"
    BY <1>11 DEF GivenUp
  <2>2. DOMAIN call.decisions = {1, 2} /\ call.decisions[1] = Selected(a) /\ call.decisions[2] = d
    BY <2>1
  <2>3. chosen = {1} /\ call.decisions[1].route = a
    BY <1>6, <2>1, <2>2
  <2> HIDE DEF chosen
  <2> QED  BY <1>7, <1>9, <2>1, <2>3
<1>12. ASSUME TwoAttempts(call) PROVE Goal
  <2>1. PICK a, b : a # b /\ call.tried = <<a, b>> /\ call.decisions = <<Selected(a), Selected(b)>>
    BY <1>12 DEF TwoAttempts
  <2>2. ~call.legacy /\ config.fallbackEnabled /\ limit > 0
    BY <1>3, <1>12 DEF TwoAttempts
  <2>3. /\ DOMAIN call.decisions = {1, 2} /\ call.decisions[1] = Selected(a)
        /\ call.decisions[2] = Selected(b)
    BY <2>1
  <2>4. /\ Len(call.tried) = 2 /\ DOMAIN call.tried = {1, 2}
        /\ call.tried[1] = a /\ call.tried[2] = b
    BY <2>1
  <2>5. IsInjective(call.tried)
    BY <2>1, <2>4 DEF IsInjective
  <2>6. chosen = {1, 2} /\ call.decisions[1].route = a /\ call.decisions[2].route = b
    BY <1>6, <2>3
  <2>7. 2 <= 1 + (IF config.fallbackEnabled THEN limit ELSE 0)
    BY <2>2
  <2> HIDE DEF chosen
  <2> QED  BY <2>2, <2>4, <2>5, <2>6, <2>7
<1>13. Goal
  <2> HIDE DEF Goal
  <2> QED  BY <1>5, <1>8, <1>10, <1>11, <1>12
<1> QED
  BY <1>1, <1>3, <1>4, <1>13, Zenon

(* No request calls more than two routes, or one twice, or more than its   *)
(* limit and the configured one admit (tryFallback); each attempt has its  *)
(* own routing decision, in order.                                         *)
THEOREM FallbackAlwaysBounded == Spec => []FallbackBounded
<1>1. GatewayInv => FallbackBounded
  BY AttemptsBounded DEF GatewayInv
<1> QED
  BY <1>1, Invariance, PTL

=============================================================================
