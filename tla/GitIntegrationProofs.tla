------------------------ MODULE GitIntegrationProofs ------------------------
(***************************************************************************)
(* Theorems about the synchronisation with the git host, for every         *)
(* environment, every set of repositories, branches, tasks and files, any  *)
(* number of deliveries in any order, and any number of calls in flight.   *)
(***************************************************************************)
EXTENDS GitIntegration, TLAPS, SequenceTheorems, WellFoundedInduction, FiniteSetTheorems

(***************************************************************************)
(* The inductive invariant                                                 *)
(***************************************************************************)

Types    == {"push", "pull_request", "ping", "issues"}
Actions  == {None, "opened", "synchronize", "closed", "labeled"}
Statuses == {"verified", "rejected", "ignored", "processed", "failed"}

States == {None, "unknown", "open", "closed", "merged"}
Heads  == Branches \cup {None, "tag", "unknown"}

Delivery == [type : Types, action : Actions, repo : Repos, number : Nat, head : Heads,
             sha : Nat, state : States, exists : BOOLEAN]
HostPull == [head : Branches, sha : Nat, state : States, files : SUBSET Files]

EventType == [delivery : Delivery \cup {NoDelivery}, signed : BOOLEAN, status : Statuses]
LeaseType == [repo : Repos, branch : Branches, task : Tasks, files : SUBSET Files]
PullType  == [repo : Repos, number : Nat, task : Tasks]
EntryType == [repo : Repos, pr : Nat, lease : Nat]
SyncType  == [state : States, head : Heads, sha : Nat, files : SUBSET Files, pr : Nat,
              task : Tasks \cup {None}, lease : Nat, entry : Nat, source : Nat]

\* Pull requests are numbered from one in every repository of the host.
Numbered(h) == \A r \in Repos : \E n \in Nat : NumbersOf(h, r) = 1..n

HubOK(h) ==
    /\ h = [heads |-> h.heads, pulls |-> h.pulls, sent |-> h.sent, pushes |-> h.pushes]
    /\ \A k \in DOMAIN h.heads : h.heads[k] \in Nat
    /\ DOMAIN h.pulls \subseteq Repos \X Nat
    /\ \A k \in DOMAIN h.pulls : h.pulls[k] \in HostPull
    /\ h.pushes \in Nat
    /\ Numbered(h)

\* What the host sends, and nothing else, can be signed; a pull request it
\* sends something about has a number.
SentOK(sent) ==
    \A d \in sent :
        /\ d \in Delivery
        /\ \/ d.type = "push"
           \/ /\ d.type = "pull_request" /\ d.number >= 1
              /\ d.action \in {"opened", "synchronize", "closed"}

StoreShape(s) ==
    /\ s = [repos |-> s.repos, leases |-> s.leases, pulls |-> s.pulls, queue |-> s.queue,
            prSync |-> s.prSync, branchSync |-> s.branchSync, events |-> s.events]
    /\ s.leases \in Seq(LeaseType) /\ s.pulls \in Seq(PullType) /\ s.queue \in Seq(EntryType)
    /\ s.events \in Seq(EventType)

SyncShape(s) ==
    /\ DOMAIN s.prSync \subseteq Repos \X Nat
    /\ \A k \in DOMAIN s.prSync : s.prSync[k] \in SyncType

CallType ==
    [op : {"branch"}, repo : Repos, branch : Branches, task : Tasks, id : Nat]
    \cup [op : {"pull"}, repo : Repos, branch : Branches, task : Tasks, lease : Nat,
          number : Nat, id : Nat]
    \cup [op : {"files"}, repo : Repos, number : Nat, files : SUBSET Files, seen : SyncType,
          id : Nat]

TypeOK ==
    /\ HubOK(hub) /\ SentOK(hub.sent)
    /\ StoreShape(store) /\ SyncShape(store)
    /\ calls \subseteq CallType /\ called \in Nat

\* The events that synchronise a pull request.
Syncing(events, k) ==
    {i \in DOMAIN events :
        LET e == events[i]
        IN  /\ e.status = "processed" /\ e.delivery.type = "pull_request"
            /\ e.delivery.action # "labeled" /\ <<e.delivery.repo, e.delivery.number>> = k}

KeyOf(r) == <<r.repo, r.number>>

\* An event that may have had an effect.
Genuine(sent, events, i) ==
    /\ i \in DOMAIN events
    /\ events[i].status = "processed" /\ events[i].signed
    /\ events[i].delivery \in sent
    /\ WebhookRepoAllowed(Webhook, events[i].delivery.repo)

\* What is known of a pull request is what the last event about it said.
LatestOK(s, k) ==
    LET x == s.prSync[k]
    IN  IF Syncing(s.events, k) = {} THEN x.source = 0
        ELSE /\ x.source \in Syncing(s.events, k)
             /\ \A j \in Syncing(s.events, k) : j <= x.source
             /\ LET d == s.events[x.source].delivery
                IN  x.state = d.state /\ x.head = d.head /\ x.sha = d.sha

\* A pull request that an event has synchronised is known.
SyncedOK(s) ==
    /\ \A i \in DOMAIN s.events :
          s.events[i].status = "processed" =>
            LET d == s.events[i].delivery
            IN  /\ d \in Delivery
                /\ (d.type = "pull_request" /\ d.action # "labeled") => KeyOf(d) \in DOMAIN s.prSync
    /\ \A k \in DOMAIN s.prSync : LatestOK(s, k)

SourcesOK(sent, s) ==
    /\ \A k \in DOMAIN s.prSync :
          s.prSync[k].source # 0 => Genuine(sent, s.events, s.prSync[k].source)
    /\ \A k \in DOMAIN s.branchSync : Genuine(sent, s.events, s.branchSync[k].source)

\* A synchronised pull request is mapped to the record made for it.
MappedOK(s) ==
    \A k \in DOMAIN s.prSync :
        LET x == s.prSync[k]
        IN  (x.pr # 0) => /\ x.pr \in DOMAIN s.pulls
                          /\ KeyOf(s.pulls[x.pr]) = k /\ s.pulls[x.pr].task = x.task

\* A pull request of the host has one record, or one call that will make it.
RecordedOnce(h, s, cs) ==
    /\ \A i \in DOMAIN s.pulls : KeyOf(s.pulls[i]) \in DOMAIN h.pulls
    /\ \A i, j \in DOMAIN s.pulls : i # j => KeyOf(s.pulls[i]) # KeyOf(s.pulls[j])
    /\ \A c \in cs : c.op = "pull" =>
          /\ KeyOf(c) \in DOMAIN h.pulls
          /\ \A i \in DOMAIN s.pulls : KeyOf(s.pulls[i]) # KeyOf(c)
          /\ \A b \in cs : (b.op = "pull" /\ b # c) => KeyOf(b) # KeyOf(c)

QueuedOK(s) ==
    \A i \in DOMAIN s.queue : /\ s.queue[i].pr \in DOMAIN s.pulls
                              /\ s.pulls[s.queue[i].pr].repo = s.queue[i].repo

GitInv ==
    /\ TypeOK
    /\ \A c \in calls : c.repo \in store.repos
    /\ SyncedOK(store)
    /\ SourcesOK(hub.sent, store)
    /\ MappedOK(store)
    /\ RecordedOnce(hub, store, calls)
    /\ QueuedOK(store)

(***************************************************************************)
(* The policy on synchronisation                                           *)
(***************************************************************************)

LEMMA RuleFields ==
    ASSUME NEW effect, NEW action, NEW kind, NEW priority, NEW conditions
    PROVE  LET rule == Rule(effect, action, kind, priority, conditions) IN
           /\ rule.effect = effect /\ rule.action = action /\ rule.kind = kind
           /\ rule.priority = priority /\ rule.conditions = conditions
  BY DEF Rule

\* Every rule but those of the synchronisation is about another action.
Elsewhere(rules) == \A rule \in rules : rule.action # "git.branch.sync"

LEMMA RulesOnBranchSync ==
    ASSUME NEW rule \in Rules, rule.action = "git.branch.sync"
    PROVE  rule \in GitSyncRules
<1>1. Elsewhere(GitRemoteRules)
  BY RuleFields DEF Elsewhere, GitRemoteRules
<1>2. Elsewhere(WebhookRules)
  BY RuleFields DEF Elsewhere, WebhookRules
<1>3. Elsewhere(GitCreateRules)
  BY RuleFields DEF Elsewhere, GitCreateRules
<1>4. Elsewhere(LlmRules)
  BY RuleFields DEF Elsewhere, LlmRules
<1>5. Elsewhere(LlmRoutingRules)
  BY RuleFields DEF Elsewhere, LlmRoutingRules
<1>6. Elsewhere(RunnerRules)
  BY RuleFields DEF Elsewhere, RunnerRules
<1>7. Elsewhere(RegistryRules)
  BY RuleFields DEF Elsewhere, RegistryRules
<1>8. Elsewhere(ImprovementRules)
  BY RuleFields DEF Elsewhere, ImprovementRules
<1>9. Elsewhere(ProviderRules)
  BY RuleFields DEF Elsewhere, ProviderRules
<1>10. Elsewhere(CredentialCacheRules)
  BY RuleFields DEF Elsewhere, CredentialCacheRules
<1>11. Elsewhere(LocalAgentRules)
  BY RuleFields DEF Elsewhere, LocalAgentRules
<1>12. Elsewhere(ConsentRules)
  BY RuleFields DEF Elsewhere, ConsentRules
<1>13. Elsewhere(ProviderInvokeRules)
  BY RuleFields DEF Elsewhere, ProviderInvokeRules
<1>14. Elsewhere(SecretRules)
  BY RuleFields DEF Elsewhere, SecretRules
<1>15. Elsewhere(SandboxRules)
  BY RuleFields DEF Elsewhere, SandboxRules
<1>16. Elsewhere(McpRules)
  BY RuleFields DEF Elsewhere, McpRules
<1>17. Elsewhere(McpCallRules)
  BY RuleFields DEF Elsewhere, McpCallRules
<1>18. Elsewhere(PlatformRules)
  BY RuleFields DEF Elsewhere, PlatformRules
<1> QED
  BY <1>1, <1>2, <1>3, <1>4, <1>5, <1>6, <1>7, <1>8, <1>9,
     <1>10, <1>11, <1>12, <1>13, <1>14, <1>15, <1>16, <1>17, <1>18
     DEF Elsewhere, Rules

\* A branch of a repository that is allowed is synchronised: the one rule
\* about it asks for no more. A delivery that is processed thus never fails
\* after the state of its pull request is written.
LEMMA AllowedBranchesSync ==
    ASSUME NEW r \in Repos, WebhookRepoAllowed(Webhook, r)
    PROVE  MayBranchSync[r]
<1> DEFINE q == [Request("git.branch.sync", "branch") EXCEPT
                    !.roles = {"system"}, !.provider = Remote,
                    !.env = [repoAllowlisted |-> TRUE, destructiveOperation |-> FALSE]]
           c == [providers |-> {"github"}, env |-> Facts({"repoAllowlisted"}, {"destructiveOperation"})]
           a == Rule("allow", "git.branch.sync", "branch", 250, c)
<1>1. MayBranchSync[r] = Allowed(q)
  BY DEF MayBranchSync, SyncPolicy
<1>2. a \in Rules
  BY DEF Rules, GitSyncRules
<1>3. /\ q.action = "git.branch.sync" /\ q.kind = "branch" /\ q.provider = "github"
      /\ q.env = [repoAllowlisted |-> TRUE, destructiveOperation |-> FALSE]
  BY DEF Request, Remote
<1>4. ConditionMatches(c, q)
  <2>1. MapMatches(c.env, q.env)
    <3>1. PICK e : e = Facts({"repoAllowlisted"}, {"destructiveOperation"})
      OBVIOUS
    <3>2. PICK f : f = [repoAllowlisted |-> TRUE, destructiveOperation |-> FALSE]
      OBVIOUS
    <3>3. /\ DOMAIN e = {"repoAllowlisted", "destructiveOperation"}
          /\ e["repoAllowlisted"] = TRUE /\ e["destructiveOperation"] = FALSE
      <4>1. DOMAIN e = {"repoAllowlisted", "destructiveOperation"}
        BY <3>1 DEF Facts
      <4>2. e["repoAllowlisted"] = ("repoAllowlisted" \in {"repoAllowlisted"})
        BY Zenon, <3>1 DEF Facts
      <4>3. e["destructiveOperation"] = ("destructiveOperation" \in {"repoAllowlisted"})
        BY Zenon, <3>1 DEF Facts
      <4>4. ("repoAllowlisted" \in {"repoAllowlisted"}) = TRUE
        OBVIOUS
      <4>5. ("destructiveOperation" \in {"repoAllowlisted"}) = FALSE
        OBVIOUS
      <4> QED
        BY Zenon, <4>1, <4>2, <4>3, <4>4, <4>5
    <3>4. /\ DOMAIN f = {"repoAllowlisted", "destructiveOperation"}
          /\ f["repoAllowlisted"] = TRUE /\ f["destructiveOperation"] = FALSE
      BY <3>2
    <3>5. MapMatches(e, f)
      BY <3>3, <3>4 DEF MapMatches
    <3> QED
      BY <1>3, <3>1, <3>2, <3>5
  <2> QED
    BY <1>3, <2>1 DEF ConditionMatches
<1>5. /\ a.action = "git.branch.sync" /\ a.kind = "branch" /\ a.conditions = c
      /\ a.effect = "allow" /\ a.priority = 250
  BY RuleFields
<1> HIDE DEF q, c
<1>6. a \in Candidates(q)
  BY <1>2, <1>3, <1>4, <1>5 DEF Candidates
<1>7. ASSUME NEW b \in Candidates(q) PROVE b = a
  <2>1. b \in GitSyncRules /\ b.action = "git.branch.sync"
    BY <1>3, RulesOnBranchSync DEF Candidates
  <2> QED
    BY <2>1, RuleFields DEF GitSyncRules, c
<1> HIDE DEF a
<1>8. Deciding(q) = {a}
  BY <1>5, <1>6, <1>7 DEF Deciding
<1>9. (CHOOSE b \in Deciding(q) : TRUE) = a
  BY <1>8
<1> QED
  BY <1>1, <1>5, <1>8, <1>9 DEF Allowed, Decision

(***************************************************************************)
(* Operators                                                               *)
(***************************************************************************)

\* A non-empty set of positions has a first one.
LEMMA FirstPosition ==
    ASSUME NEW I \in SUBSET Nat, I # {}
    PROVE  Min(I) \in I
<1> DEFINE R == OpToRel(<, Nat)
<1>1. \E m \in I : \A n \in I : ~(<<n, m>> \in R)
  BY WFMin, NatLessThanWellFounded
<1>2. \A m, n \in Nat : n < m => <<n, m>> \in R
  BY DEF OpToRel
<1> HIDE DEF R
<1>3. PICK m \in I : \A n \in I : ~(<<n, m>> \in R)
  BY <1>1
<1>4. \A n \in I : ~(n < m)
  BY <1>2, <1>3
<1>5. \A n \in I : m <= n
  BY <1>4
<1> QED
  BY <1>5 DEF Min

LEMMA WithMap ==
    ASSUME NEW map, NEW key, NEW value
    PROVE  LET new == With(map, key, value) IN
           /\ DOMAIN new = DOMAIN map \cup {key}
           /\ new[key] = value
           /\ \A k \in DOMAIN map : k # key => new[k] = map[k]
  BY DEF With

\* The record found is the one of the pull request.
LEMMA FoundPull ==
    ASSUME NEW s, StoreShape(s), NEW repo, NEW n
    PROVE  LET i == FindPullRequest(s, repo, n) IN
           /\ i \in Nat
           /\ (i # 0) => /\ i \in DOMAIN s.pulls
                         /\ s.pulls[i].repo = repo /\ s.pulls[i].number = n
           /\ (i = 0 /\ repo \in s.repos) =>
                \A j \in DOMAIN s.pulls : ~(s.pulls[j].repo = repo /\ s.pulls[j].number = n)
<1> DEFINE I == {i \in 1..Len(s.pulls) : s.pulls[i].repo = repo /\ s.pulls[i].number = n}
<1>1. FindPullRequest(s, repo, n) = IF repo \notin s.repos THEN 0 ELSE IF I # {} THEN Min(I) ELSE 0
  BY DEF FindPullRequest, SelectInSeq
<1>2. DOMAIN s.pulls = 1..Len(s.pulls) /\ I \in SUBSET Nat /\ 0 \notin I
  BY DEF StoreShape
<1>3. I # {} => Min(I) \in I
  BY <1>2, FirstPosition
<1> DEFINE i == FindPullRequest(s, repo, n)
<1>4. CASE I = {}
  BY <1>1, <1>2, <1>4
<1>5. CASE I # {}
  <2>1. CASE repo \notin s.repos
    BY <1>1, <2>1
  <2>2. CASE repo \in s.repos
    <3>1. i = Min(I)
      BY <1>1, <1>5, <2>2
    <3>2. i \in I
      BY <1>3, <1>5, <3>1
    <3> QED
      BY <1>2, <3>2
  <2> QED
    BY <2>1, <2>2
<1> QED
  BY <1>4, <1>5

LEMMA FoundLease ==
    ASSUME NEW s, StoreShape(s), NEW repo, NEW head, NEW pr
    PROVE  LET i == FindBranchLease(s, repo, head, pr) IN
           i \in Nat /\ ((i # 0) => i \in DOMAIN s.leases)
<1> DEFINE I == {i \in 1..Len(s.leases) :
                    /\ s.leases[i].repo = repo /\ s.leases[i].branch = head
                    /\ (pr = 0 \/ s.leases[i].task = s.pulls[pr].task)}
<1>1. FindBranchLease(s, repo, head, pr) =
        IF repo \notin s.repos THEN 0 ELSE IF I # {} THEN Min(I) ELSE 0
  BY DEF FindBranchLease, SelectInSeq
<1>2. DOMAIN s.leases = 1..Len(s.leases) /\ I \in SUBSET Nat /\ I \subseteq DOMAIN s.leases
  BY DEF StoreShape
<1>3. I # {} => Min(I) \in I
  BY <1>2, FirstPosition
<1> QED
  BY <1>1, <1>2, <1>3

LEMMA FoundEntry ==
    ASSUME NEW s, StoreShape(s), NEW repo, NEW pr, NEW lease
    PROVE  FindMergeQueueEntry(s, repo, pr, lease) \in Nat
<1> DEFINE I == {i \in 1..Len(s.queue) :
                    /\ s.queue[i].repo = repo
                    /\ \/ pr # 0 /\ s.queue[i].pr = pr
                       \/ lease # 0 /\ s.queue[i].lease = lease}
<1>1. FindMergeQueueEntry(s, repo, pr, lease) =
        IF repo \notin s.repos THEN 0 ELSE IF I # {} THEN Min(I) ELSE 0
  BY DEF FindMergeQueueEntry, SelectInSeq
<1>2. I \in SUBSET Nat
  OBVIOUS
<1>3. I # {} => Min(I) \in I
  BY <1>2, FirstPosition
<1> QED
  BY <1>1, <1>2, <1>3

LEMMA FoundTask ==
    ASSUME NEW s, StoreShape(s), NEW pr, NEW lease, NEW default \in Tasks \cup {None},
           (pr # 0) => pr \in DOMAIN s.pulls, (lease # 0) => lease \in DOMAIN s.leases
    PROVE  /\ TaskOf(s, pr, lease, default) \in Tasks \cup {None}
           /\ (pr # 0) => TaskOf(s, pr, lease, default) = s.pulls[pr].task
<1>1. (pr # 0) => s.pulls[pr].task \in Tasks
  <2>1. (pr # 0) => s.pulls[pr] \in PullType
    BY DEF StoreShape
  <2> QED
    BY <2>1 DEF PullType
<1>2. (lease # 0) => s.leases[lease].task \in Tasks
  <2>1. (lease # 0) => s.leases[lease] \in LeaseType
    BY DEF StoreShape
  <2> QED
    BY <2>1 DEF LeaseType
<1> QED
  BY <1>1, <1>2 DEF TaskOf

LEMMA LeaseExtended ==
    ASSUME NEW s, StoreShape(s), NEW lease, (lease # 0) => lease \in DOMAIN s.leases,
           NEW files \in SUBSET Files
    PROVE  LET t == ExtendLease(s, lease, files) IN
           /\ StoreShape(t)
           /\ t.repos = s.repos /\ t.pulls = s.pulls /\ t.queue = s.queue
           /\ t.prSync = s.prSync /\ t.branchSync = s.branchSync /\ t.events = s.events
<1> DEFINE leases == [s.leases EXCEPT ![lease].files = @ \cup files]
<1>1. CASE lease = 0
  BY <1>1 DEF ExtendLease
<1>2. CASE lease # 0
  <2>1. leases \in Seq(LeaseType)
    <3>1. s.leases \in Seq(LeaseType) /\ s.leases[lease] \in LeaseType
      BY <1>2 DEF StoreShape
    <3>2. [s.leases[lease] EXCEPT !.files = @ \cup files] \in LeaseType
      BY <3>1 DEF LeaseType
    <3> QED
      BY <1>2, <3>1, <3>2
  <2>2. ExtendLease(s, lease, files) = [s EXCEPT !.leases = leases]
    BY <1>2 DEF ExtendLease, StoreShape
  <2> QED
    BY <2>1, <2>2 DEF StoreShape
<1> QED
  BY <1>1, <1>2

(***************************************************************************)
(* The host                                                                *)
(***************************************************************************)

LEMMA PullDeliveryType ==
    ASSUME NEW action \in Actions, NEW repo \in Repos, NEW n \in Nat, NEW p \in HostPull
    PROVE  LET d == PullDelivery(action, repo, n, p) IN
           /\ d \in Delivery
           /\ d.type = "pull_request" /\ d.action = action /\ d.number = n /\ d.repo = repo
<1>1. p.head \in Heads /\ p.sha \in Nat /\ p.state \in States
  BY DEF HostPull, Heads
<1> QED
  BY <1>1 DEF PullDelivery, Delivery, Types

LEMMA PushDeliveryType ==
    ASSUME NEW repo \in Repos, NEW branch \in Heads, NEW sha \in Nat, NEW exists \in BOOLEAN
    PROVE  LET d == PushDelivery(repo, branch, sha, exists) IN
           d \in Delivery /\ d.type = "push" /\ d.repo = repo
<1>1. None \in States /\ None \in Actions /\ "push" \in Types
  BY DEF States, Actions, Types
<1> QED
  BY <1>1 DEF PushDelivery, Delivery

\* What a step of the host, or a call that reaches it, may do to it.
HubGrows(h, g) ==
    /\ HubOK(g) /\ SentOK(g.sent)
    /\ h.sent \subseteq g.sent /\ DOMAIN h.pulls \subseteq DOMAIN g.pulls

LEMMA NextNumber ==
    ASSUME NEW h, HubOK(h), NEW r \in Repos
    PROVE  LET n == Cardinality(NumbersOf(h, r)) + 1 IN
           /\ n \in Nat /\ n >= 1
           /\ NumbersOf(h, r) = 1..(n - 1)
           /\ <<r, n>> \notin DOMAIN h.pulls
<1>1. PICK m \in Nat : NumbersOf(h, r) = 1..m
  BY DEF HubOK, Numbered
<1>2. Cardinality(1..m) = m
  BY FS_Interval
<1>3. m + 1 \notin NumbersOf(h, r)
  BY <1>1
<1>4. <<r, m + 1>> \notin DOMAIN h.pulls
  BY <1>3 DEF NumbersOf
<1> QED
  BY <1>1, <1>2, <1>4

LEMMA PullOpened ==
    ASSUME NEW h, HubOK(h), SentOK(h.sent), NEW repo \in Repos, NEW branch \in Branches,
           <<repo, branch>> \in DOMAIN h.heads
    PROVE  LET g == HubOpenPull(h, repo, branch)
               n == Cardinality(NumbersOf(h, repo)) + 1
           IN  /\ HubGrows(h, g)
               /\ DOMAIN g.pulls = DOMAIN h.pulls \cup {<<repo, n>>}
<1> DEFINE g == HubOpenPull(h, repo, branch)
           n == Cardinality(NumbersOf(h, repo)) + 1
           k == <<repo, n>>
           p == [head |-> branch, sha |-> h.heads[<<repo, branch>>], state |-> "open", files |-> {}]
           d == PullDelivery("opened", repo, n, p)
<1>1. /\ n \in Nat /\ n >= 1 /\ NumbersOf(h, repo) = 1..(n - 1) /\ k \notin DOMAIN h.pulls
  BY NextNumber
<1>2. g = [h EXCEPT !.pulls = With(h.pulls, k, p), !.sent = h.sent \cup {d}]
  BY Zenon DEF HubOpenPull
<1>3. /\ g = [heads |-> g.heads, pulls |-> g.pulls, sent |-> g.sent, pushes |-> g.pushes]
      /\ g.heads = h.heads /\ g.pushes = h.pushes
      /\ g.pulls = With(h.pulls, k, p) /\ g.sent = h.sent \cup {d}
  BY <1>2 DEF HubOK
<1>4. p \in HostPull
  BY DEF HubOK, HostPull, States
<1> HIDE DEF g, p, n
<1>10. "opened" \in Actions
  BY DEF Actions
<1>5. d \in Delivery /\ d.type = "pull_request" /\ d.action = "opened" /\ d.number = n
  BY <1>1, <1>4, <1>10, PullDeliveryType
<1> HIDE DEF d
<1>6. /\ DOMAIN g.pulls = DOMAIN h.pulls \cup {k} /\ g.pulls[k] = p
      /\ \A q \in DOMAIN h.pulls : q # k => g.pulls[q] = h.pulls[q]
  BY <1>3 DEF With
<1>7. Numbered(g)
  <2> SUFFICES ASSUME NEW r \in Repos PROVE \E m \in Nat : NumbersOf(g, r) = 1..m
    BY DEF Numbered
  <2>1. CASE r = repo
    <3>1. NumbersOf(g, r) = NumbersOf(h, r) \cup {n}
      BY <1>6, <2>1 DEF NumbersOf
    <3>2. NumbersOf(g, r) = 1..n
      BY <1>1, <2>1, <3>1
    <3> QED
      BY <1>1, <3>2
  <2>2. CASE r # repo
    <3>1. NumbersOf(g, r) = NumbersOf(h, r)
      BY <1>6, <2>2 DEF NumbersOf
    <3> QED
      BY <3>1 DEF HubOK, Numbered
  <2> QED
    BY <2>1, <2>2
<1>8. HubOK(g)
  <2>1. DOMAIN g.pulls \subseteq Repos \X Nat
    BY <1>1, <1>6 DEF HubOK
  <2>2. \A q \in DOMAIN g.pulls : g.pulls[q] \in HostPull
    BY <1>4, <1>6 DEF HubOK
  <2> QED
    BY <1>3, <1>7, <2>1, <2>2 DEF HubOK
<1>9. SentOK(g.sent)
  BY <1>1, <1>3, <1>5 DEF SentOK
<1> QED
  BY <1>3, <1>6, <1>8, <1>9 DEF HubGrows, g, n

\* Only the sha and the files of an open pull request, or its state, change.
LEMMA PullsChange ==
    ASSUME NEW h, HubOK(h), NEW g, g.heads = h.heads, g.pushes = h.pushes,
           g = [heads |-> g.heads, pulls |-> g.pulls, sent |-> g.sent, pushes |-> g.pushes],
           DOMAIN g.pulls = DOMAIN h.pulls, \A k \in DOMAIN g.pulls : g.pulls[k] \in HostPull
    PROVE  HubOK(g)
<1>1. \A r \in Repos : NumbersOf(g, r) = NumbersOf(h, r)
  BY DEF NumbersOf
<1> QED
  BY <1>1 DEF HubOK, Numbered

LEMMA PushGrows ==
    ASSUME HubOK(hub), SentOK(hub.sent), NEW repo \in Repos, NEW branch \in Branches,
           HubPush(repo, branch)
    PROVE  HubGrows(hub, hub')
<1> DEFINE sha  == hub.pushes + 1
           open == OpenPulls(hub, repo, branch)
<1> DEFINE Pushed(f) == [k \in DOMAIN hub.pulls |->
                           IF k \in open
                           THEN [hub.pulls[k] EXCEPT !.sha = sha, !.files = @ \cup {f}]
                           ELSE hub.pulls[k]]
<1>1. PICK f \in Files :
        hub' = [hub EXCEPT !.pushes = sha, !.pulls = Pushed(f),
                   !.heads = With(@, <<repo, branch>>, sha),
                   !.sent = @ \cup {PushDelivery(repo, branch, sha, TRUE)}
                            \cup {PullDelivery("synchronize", repo, k[2], Pushed(f)[k]) : k \in open}]
  BY Zenon DEF HubPush
<1> DEFINE pulls == Pushed(f)
<1> DEFINE sync == {PullDelivery("synchronize", repo, k[2], pulls[k]) : k \in open}
           push == PushDelivery(repo, branch, sha, TRUE)
<1>2. /\ hub' = [heads |-> hub'.heads, pulls |-> hub'.pulls, sent |-> hub'.sent, pushes |-> hub'.pushes]
      /\ hub'.heads = With(hub.heads, <<repo, branch>>, sha) /\ hub'.pushes = sha
      /\ hub'.pulls = pulls /\ hub'.sent = hub.sent \cup {push} \cup sync
  BY <1>1 DEF HubOK
<1>3. sha \in Nat
  BY DEF HubOK
<1>4. DOMAIN pulls = DOMAIN hub.pulls /\ \A k \in DOMAIN pulls : pulls[k] \in HostPull
  <2> SUFFICES ASSUME NEW k \in DOMAIN hub.pulls PROVE pulls[k] \in HostPull
    BY <1>1
  <2>1. hub.pulls[k] \in HostPull
    BY DEF HubOK
  <2>2. [hub.pulls[k] EXCEPT !.sha = sha, !.files = @ \cup {f}] \in HostPull
    BY <1>3, <2>1 DEF HostPull
  <2> QED
    BY <1>1, <2>1, <2>2
<1>5. push \in Delivery /\ push.type = "push"
  BY <1>3, PushDeliveryType DEF Heads
<1> HIDE DEF Pushed, pulls
<1>6. ASSUME NEW k \in open
      PROVE  LET d == PullDelivery("synchronize", repo, k[2], pulls[k])
             IN  d \in Delivery /\ d.type = "pull_request" /\ d.number >= 1 /\ d.action = "synchronize"
  <2>1. k \in DOMAIN hub.pulls /\ k[1] = repo
    BY DEF OpenPulls
  <2>2. k[2] \in NumbersOf(hub, repo)
    BY <2>1 DEF NumbersOf
  <2>3. k[2] \in Nat /\ k[2] >= 1
    BY <2>2 DEF HubOK, Numbered
  <2>4. pulls[k] \in HostPull
    BY <1>4, <2>1
  <2>5. "synchronize" \in Actions
    BY DEF Actions
  <2> QED
    BY <2>3, <2>4, <2>5, PullDeliveryType
<1> HIDE DEF sha, open, push
<1>7. SentOK(hub'.sent)
  BY <1>2, <1>5, <1>6 DEF SentOK
<1>8. HubOK(hub')
  <2>1. \A k \in DOMAIN hub'.heads : hub'.heads[k] \in Nat
    BY <1>2, <1>3 DEF HubOK, With
  <2>2. \A r \in Repos : NumbersOf(hub', r) = NumbersOf(hub, r)
    BY <1>2, <1>4 DEF NumbersOf
  <2> QED
    BY <1>2, <1>3, <1>4, <2>1, <2>2 DEF HubOK, Numbered
<1> QED
  BY <1>2, <1>4, <1>7, <1>8 DEF HubGrows

LEMMA CloseGrows ==
    ASSUME HubOK(hub), SentOK(hub.sent), NEW k, NEW state \in Endings, HubClose(k, state)
    PROVE  HubGrows(hub, hub')
<1> DEFINE p == [hub.pulls[k] EXCEPT !.state = state]
           d == PullDelivery("closed", k[1], k[2], p)
<1>1. /\ k \in DOMAIN hub.pulls
      /\ hub' = [hub EXCEPT !.pulls = [hub.pulls EXCEPT ![k] = p], !.sent = hub.sent \cup {d}]
  BY DEF HubClose
<1>2. /\ hub' = [heads |-> hub'.heads, pulls |-> hub'.pulls, sent |-> hub'.sent, pushes |-> hub'.pushes]
      /\ hub'.heads = hub.heads /\ hub'.pushes = hub.pushes
      /\ hub'.pulls = [hub.pulls EXCEPT ![k] = p] /\ hub'.sent = hub.sent \cup {d}
  BY <1>1 DEF HubOK
<1>3. p \in HostPull
  BY <1>1, GitAssumption DEF HubOK, HostPull, States
<1>4. k[1] \in Repos /\ k[2] \in Nat /\ k[2] >= 1
  <2>1. k[1] \in Repos /\ k[2] \in NumbersOf(hub, k[1])
    BY <1>1 DEF HubOK, NumbersOf
  <2> QED
    BY <2>1 DEF HubOK, Numbered
<1> HIDE DEF p
<1>9. "closed" \in Actions
  BY DEF Actions
<1>5. d \in Delivery /\ d.type = "pull_request" /\ d.number >= 1 /\ d.action = "closed"
  BY <1>3, <1>4, <1>9, PullDeliveryType
<1> HIDE DEF d
<1>6. DOMAIN hub'.pulls = DOMAIN hub.pulls /\ \A q \in DOMAIN hub'.pulls : hub'.pulls[q] \in HostPull
  BY <1>1, <1>2, <1>3 DEF HubOK
<1>7. HubOK(hub')
  BY <1>2, <1>6, PullsChange
<1>8. SentOK(hub'.sent)
  BY <1>2, <1>5 DEF SentOK
<1> QED
  BY <1>2, <1>6, <1>7, <1>8 DEF HubGrows

LEMMA OpenGrows ==
    ASSUME HubOK(hub), SentOK(hub.sent), NEW repo \in Repos, NEW branch \in Branches,
           HubOpen(repo, branch)
    PROVE  HubGrows(hub, hub')
  BY PullOpened DEF HubOpen

(***************************************************************************)
(* What a delivery does                                                    *)
(***************************************************************************)

EventOf(d, signed, status) ==
    [delivery |-> IF status \in {"rejected", "ignored", "failed"} THEN NoDelivery ELSE d,
     signed |-> signed, status |-> status]

\* The records that only requests change.
SameRecords(s, t) ==
    t.repos = s.repos /\ t.pulls = s.pulls /\ t.queue = s.queue

Received(s, t, e) ==
    /\ StoreShape(t) /\ SyncShape(t) /\ SameRecords(s, t)
    /\ e \in EventType /\ t.events = Append(s.events, e)

SyncsPull(d) == d.type = "pull_request" /\ d.action # "labeled"

\* The event is only kept.
Kept(s, t, e) ==
    /\ t.prSync = s.prSync /\ t.branchSync = s.branchSync
    /\ (e.status = "processed") => (e.delivery \in Delivery /\ ~SyncsPull(e.delivery))

BranchSynced(s, t, d, i) ==
    \E x : t.branchSync = With(s.branchSync, <<d.repo, d.head>>, x) /\ x.source = i

PullSynced(s, t, d, i) ==
    \E x : /\ t.prSync = With(s.prSync, KeyOf(d), x)
           /\ x.state = d.state /\ x.head = d.head /\ x.sha = d.sha
           /\ x.source = i
           /\ (x.pr # 0) => /\ x.pr \in DOMAIN s.pulls
                            /\ KeyOf(s.pulls[x.pr]) = KeyOf(d) /\ s.pulls[x.pr].task = x.task

\* The event has an effect.
Applied(s, t, d, e) ==
    /\ e = EventOf(d, TRUE, "processed")
    /\ WebhookRepoAllowed(Webhook, d.repo)
    /\ BranchSynced(s, t, d, Len(t.events))
    /\ \/ d.type = "push" /\ d.head # "tag" /\ t.prSync = s.prSync
       \/ SyncsPull(d) /\ d.type # "push" /\ d.number >= 1 /\ PullSynced(s, t, d, Len(t.events))

LEMMA EventTyped ==
    ASSUME NEW d \in Delivery \cup {NoDelivery}, NEW signed \in BOOLEAN, NEW status \in Statuses
    PROVE  EventOf(d, signed, status) \in EventType
  BY DEF EventOf, EventType

LEMMA EventRecorded ==
    ASSUME NEW s, StoreShape(s), NEW d \in Delivery \cup {NoDelivery}, NEW signed \in BOOLEAN,
           NEW status \in {"verified", "rejected"}
    PROVE  LET t == RecordEvent(s, d, signed, status) IN
           /\ StoreShape(t) /\ SameRecords(s, t) /\ t.leases = s.leases
           /\ t.prSync = s.prSync /\ t.branchSync = s.branchSync
           /\ t.events = Append(s.events, EventOf(d, signed, status))
<1> DEFINE e == EventOf(d, signed, status)
           t == RecordEvent(s, d, signed, status)
<1>1. t = [s EXCEPT !.events = Append(s.events, e)]
  BY DEF RecordEvent, EventOf
<1>2. e \in EventType
  BY EventTyped DEF Statuses
<1>3. Append(s.events, e) \in Seq(EventType)
  BY <1>2, AppendProperties DEF StoreShape
<1> HIDE DEF t, e
<1>4. /\ t = [repos |-> s.repos, leases |-> s.leases, pulls |-> s.pulls, queue |-> s.queue,
              prSync |-> s.prSync, branchSync |-> s.branchSync, events |-> Append(s.events, e)]
  BY <1>1 DEF StoreShape
<1> QED
  BY <1>3, <1>4 DEF StoreShape, SameRecords, t, e

LEMMA LastReplaced ==
    ASSUME NEW S, NEW past \in Seq(S), NEW v \in S, NEW e \in S
    PROVE  /\ Len(Append(past, v)) = Len(past) + 1
           /\ Append(past, v)[Len(past) + 1] = v
           /\ [Append(past, v) EXCEPT ![Len(past) + 1] = e] = Append(past, e)
<1> DEFINE f == Append(past, v)
           g == Append(past, e)
           h == [f EXCEPT ![Len(past) + 1] = e]
<1>1. /\ f \in Seq(S) /\ g \in Seq(S) /\ Len(past) \in Nat
      /\ Len(f) = Len(past) + 1 /\ Len(g) = Len(past) + 1
      /\ f[Len(past) + 1] = v /\ g[Len(past) + 1] = e
      /\ \A i \in 1..Len(past) : f[i] = past[i] /\ g[i] = past[i]
  BY AppendProperties, LenProperties
<1> HIDE DEF f, g
<1>2. /\ h \in Seq(S) /\ Len(h) = Len(f)
      /\ \A j \in 1..Len(f) : h[j] = IF j = Len(past) + 1 THEN e ELSE f[j]
  BY <1>1, ExceptSeq
<1> HIDE DEF h
<1>3. h = g
  <2>1. \A i \in 1..Len(h) : h[i] = g[i]
    BY <1>1, <1>2
  <2> QED
    BY <1>1, <1>2, <2>1, SeqEqual
<1> QED
  BY <1>1, <1>3 DEF f, g, h

\* The status of the event of a delivery that was verified is settled.
LEMMA StatusSet ==
    ASSUME NEW s, StoreShape(s), NEW past \in Seq(EventType), NEW d \in Delivery,
           s.events = Append(past, EventOf(d, TRUE, "verified")),
           NEW status \in {"rejected", "ignored", "processed", "failed"}
    PROVE  LET t == SetStatus(s, status) IN
           /\ StoreShape(t) /\ SameRecords(s, t) /\ t.leases = s.leases
           /\ t.prSync = s.prSync /\ t.branchSync = s.branchSync
           /\ t.events = Append(past, EventOf(d, TRUE, status))
<1> DEFINE v == EventOf(d, TRUE, "verified")
           e == EventOf(d, TRUE, status)
           t == SetStatus(s, status)
<1>1. v \in EventType /\ e \in EventType
  BY EventTyped DEF Statuses
<1>2. s.events = Append(past, v)
  OBVIOUS
<1>3. /\ v = [delivery |-> d, signed |-> TRUE, status |-> "verified"]
      /\ e = [delivery |-> IF status = "processed" THEN d ELSE NoDelivery,
              signed |-> TRUE, status |-> status]
  BY DEF EventOf
<1> HIDE DEF v, e
<1>4. Settled(v, status) = e
  BY <1>3 DEF Settled
<1>5. t = [s EXCEPT !.events = Append(past, e)]
  <2>1. /\ Len(Append(past, v)) = Len(past) + 1
        /\ Append(past, v)[Len(past) + 1] = v
        /\ [Append(past, v) EXCEPT ![Len(past) + 1] = e] = Append(past, e)
    BY <1>1, LastReplaced
  <2>2. Len(s.events) = Len(past) + 1 /\ s.events[Len(s.events)] = v
    BY <1>2, <2>1
  <2>3. [s.events EXCEPT ![Len(s.events)] = e] = Append(past, e)
    BY <1>2, <2>1, <2>2
  <2>4. t = [s EXCEPT !.events[Len(s.events)] = e]
    BY <1>4, <2>2 DEF SetStatus
  <2> HIDE DEF t
  <2>5. t = [s EXCEPT !.events = [s.events EXCEPT ![Len(s.events)] = e]]
    BY <2>4 DEF StoreShape
  <2> QED
    BY <2>3, <2>5
<1> HIDE DEF t
<1>6. Append(past, e) \in Seq(EventType)
  BY <1>1, AppendProperties
<1>7. t = [repos |-> s.repos, leases |-> s.leases, pulls |-> s.pulls, queue |-> s.queue,
           prSync |-> s.prSync, branchSync |-> s.branchSync, events |-> Append(past, e)]
  BY <1>5 DEF StoreShape
<1>8. StoreShape(t)
  BY <1>6, <1>7 DEF StoreShape
<1>9. /\ SameRecords(s, t) /\ t.leases = s.leases
      /\ t.prSync = s.prSync /\ t.branchSync = s.branchSync /\ t.events = Append(past, e)
  BY <1>7 DEF SameRecords
<1> QED
  BY <1>8, <1>9 DEF t, e

\* The store holds a delivery that was verified and is being processed.
Processing(s, past, d) ==
    /\ StoreShape(s) /\ SyncShape(s)
    /\ past \in Seq(EventType) /\ d \in Delivery
    /\ s.events = Append(past, EventOf(d, TRUE, "verified"))

LEMMA ProcessingLength ==
    ASSUME NEW s, NEW past, NEW d, Processing(s, past, d)
    PROVE  Len(s.events) = Len(past) + 1 /\ Len(past) \in Nat
<1>1. EventOf(d, TRUE, "verified") \in EventType
  BY EventTyped DEF Processing, Statuses
<1> QED
  BY <1>1, AppendProperties, LenProperties DEF Processing

LEMMA BranchSyncs ==
    ASSUME NEW s, NEW past, NEW d, NEW source,
           Processing(s, past, d), WebhookRepoAllowed(Webhook, d.repo)
    PROVE  LET t == SyncBranchState(s, d, source) IN
           /\ StoreShape(t) /\ SameRecords(s, t) /\ t.prSync = s.prSync
           /\ t.events = Append(past, EventOf(d, TRUE, "processed"))
           /\ BranchSynced(s, t, d, source)
<1> DEFINE x == [sha |-> d.sha, exists |-> d.exists, source |-> source]
           u == UpsertBranchSync(s, d.repo, d.head, d.sha, d.exists, source)
<1>1. SyncBranchState(s, d, source) = SetStatus(u, "processed")
  <2>1. d.repo \in Repos
    BY DEF Processing, Delivery
  <2>2. MayBranchSync[d.repo]
    BY <2>1, AllowedBranchesSync
  <2> QED
    BY <2>2 DEF SyncBranchState, BranchSyncAllowed
<1>2. u = [s EXCEPT !.branchSync = With(s.branchSync, <<d.repo, d.head>>, x)]
  BY DEF UpsertBranchSync
<1>3. x.source = source
  OBVIOUS
<1> HIDE DEF u, x
<1>4. u = [repos |-> s.repos, leases |-> s.leases, pulls |-> s.pulls, queue |-> s.queue,
           prSync |-> s.prSync, branchSync |-> With(s.branchSync, <<d.repo, d.head>>, x),
           events |-> s.events]
  BY <1>2 DEF Processing, StoreShape
<1>5. /\ StoreShape(u) /\ SameRecords(s, u) /\ u.prSync = s.prSync
      /\ u.branchSync = With(s.branchSync, <<d.repo, d.head>>, x)
      /\ u.events = Append(past, EventOf(d, TRUE, "verified"))
  BY <1>4 DEF Processing, StoreShape, SameRecords
<1>6. /\ StoreShape(SetStatus(u, "processed")) /\ SameRecords(u, SetStatus(u, "processed"))
      /\ SetStatus(u, "processed").prSync = u.prSync
      /\ SetStatus(u, "processed").branchSync = u.branchSync
      /\ SetStatus(u, "processed").events = Append(past, EventOf(d, TRUE, "processed"))
  BY <1>5, StatusSet DEF Processing
<1> QED
  BY <1>1, <1>3, <1>5, <1>6 DEF SameRecords, BranchSynced

\* The files known of a pull request are kept, and its lease has them.
LEMMA SyncKnown ==
    ASSUME NEW s, StoreShape(s), SyncShape(s), NEW k
    PROVE  SyncOf(s, k) \in SyncType
<1>1. NoSync \in SyncType
  BY DEF NoSync, SyncType, States, Heads
<1> QED
  BY <1>1 DEF SyncOf, SyncShape

LEMMA SyncWritten ==
    ASSUME NEW s, StoreShape(s), SyncShape(s), NEW k \in Repos \X Nat, NEW x \in SyncType
    PROVE  LET t == UpsertPullRequestSync(s, k, x) IN
           /\ StoreShape(t) /\ SyncShape(t) /\ SameRecords(s, t)
           /\ t.prSync = With(s.prSync, k, x)
           /\ t.branchSync = s.branchSync /\ t.events = s.events
<1> DEFINE t == UpsertPullRequestSync(s, k, x)
<1>1. t = [s EXCEPT !.prSync = With(s.prSync, k, x)]
  BY DEF UpsertPullRequestSync
<1> HIDE DEF t
<1>2. t = [repos |-> s.repos, leases |-> s.leases, pulls |-> s.pulls, queue |-> s.queue,
           prSync |-> With(s.prSync, k, x), branchSync |-> s.branchSync, events |-> s.events]
  BY <1>1 DEF StoreShape
<1>3. StoreShape(t)
  BY <1>2 DEF StoreShape
<1>4. SyncShape(t)
  BY <1>2 DEF SyncShape, With
<1> QED
  BY <1>2, <1>3, <1>4 DEF SameRecords, t

LEMMA PullSyncs ==
    ASSUME NEW s, NEW past, NEW d, Processing(s, past, d), WebhookRepoAllowed(Webhook, d.repo),
           d.number >= 1
    PROVE  LET t == SyncPullRequestFromWebhook(s, d) IN
           /\ StoreShape(t) /\ SyncShape(t) /\ SameRecords(s, t)
           /\ t.events = Append(past, EventOf(d, TRUE, "processed"))
           /\ BranchSynced(s, t, d, Len(s.events)) /\ PullSynced(s, t, d, Len(s.events))
<1> DEFINE k      == <<d.repo, d.number>>
           pr     == FindPullRequest(s, d.repo, d.number)
           lease  == FindBranchLease(s, d.repo, d.head, pr)
           files  == SyncOf(s, k).files
           source == Len(s.events)
           task   == TaskOf(s, pr, lease, None)
           entry  == FindMergeQueueEntry(s, d.repo, pr, lease)
           x      == [state |-> d.state, head |-> d.head, sha |-> d.sha, files |-> files,
                      pr |-> pr, task |-> task, lease |-> lease, entry |-> entry, source |-> source]
           u      == ExtendLease(s, lease, files)
           w      == UpsertPullRequestSync(u, k, x)
<1>1. SyncPullRequestFromWebhook(s, d) = SyncBranchState(w, d, source)
  <2>1. d.number \in Nat
    BY DEF Processing, Delivery
  <2> QED
    BY <2>1 DEF SyncPullRequestFromWebhook
<1>2. /\ pr \in Nat
      /\ (pr # 0) => /\ pr \in DOMAIN s.pulls
                     /\ s.pulls[pr].repo = d.repo /\ s.pulls[pr].number = d.number
  BY FoundPull DEF Processing
<1> HIDE DEF pr
<1>3. lease \in Nat /\ ((lease # 0) => lease \in DOMAIN s.leases)
  BY FoundLease DEF Processing
<1> HIDE DEF lease
<1>4. task \in Tasks \cup {None} /\ ((pr # 0) => task = s.pulls[pr].task)
  BY <1>2, <1>3, FoundTask DEF Processing
<1>5. entry \in Nat
  BY FoundEntry DEF Processing
<1>6. files \in SUBSET Files
  BY SyncKnown DEF Processing, SyncType
<1>7. source = Len(past) + 1 /\ source \in Nat
  BY ProcessingLength
<1>8. k \in Repos \X Nat /\ d.head \in Heads /\ d.sha \in Nat /\ d.state \in States
  BY DEF Processing, Delivery
<1> HIDE DEF task, entry, files, source
<1>9. x \in SyncType
  BY <1>2, <1>3, <1>4, <1>5, <1>6, <1>7, <1>8 DEF SyncType
<1>10. /\ StoreShape(u) /\ SyncShape(u) /\ SameRecords(s, u)
       /\ u.prSync = s.prSync /\ u.branchSync = s.branchSync /\ u.events = s.events
  <2>1. /\ StoreShape(u) /\ u.repos = s.repos /\ u.pulls = s.pulls /\ u.queue = s.queue
        /\ u.prSync = s.prSync /\ u.branchSync = s.branchSync /\ u.events = s.events
    BY <1>3, <1>6, LeaseExtended DEF Processing
  <2> HIDE DEF u
  <2> QED
    BY <2>1 DEF Processing, SyncShape, SameRecords
<1> HIDE DEF u
<1>11. /\ x.state = d.state /\ x.head = d.head /\ x.sha = d.sha /\ x.source = source
       /\ x.pr = pr /\ x.task = task
  OBVIOUS
<1> HIDE DEF x
<1>12. /\ StoreShape(w) /\ SyncShape(w) /\ SameRecords(u, w)
       /\ w.prSync = With(u.prSync, k, x) /\ w.branchSync = u.branchSync /\ w.events = u.events
  BY <1>8, <1>9, <1>10, SyncWritten
<1> HIDE DEF w
<1>13. Processing(w, past, d)
  BY <1>10, <1>12 DEF Processing
<1> DEFINE t == SyncBranchState(w, d, source)
<1>14. /\ StoreShape(t) /\ SameRecords(w, t) /\ t.prSync = w.prSync
       /\ t.events = Append(past, EventOf(d, TRUE, "processed"))
       /\ BranchSynced(w, t, d, source)
  BY <1>13, BranchSyncs
<1> HIDE DEF t
<1>15. SyncShape(t) /\ SameRecords(s, t)
  BY <1>10, <1>12, <1>14 DEF SyncShape, SameRecords
<1>16. PullSynced(s, t, d, source)
  <2>1. t.prSync = With(s.prSync, KeyOf(d), x)
    BY <1>10, <1>12, <1>14 DEF KeyOf
  <2>2. (x.pr # 0) => /\ x.pr \in DOMAIN s.pulls
                      /\ KeyOf(s.pulls[x.pr]) = KeyOf(d) /\ s.pulls[x.pr].task = x.task
    BY <1>2, <1>4, <1>11 DEF KeyOf
  <2> QED
    BY <1>11, <2>1, <2>2 DEF PullSynced
<1>17. BranchSynced(s, t, d, source)
  BY <1>10, <1>12, <1>14 DEF BranchSynced
<1> QED
  BY <1>1, <1>14, <1>15, <1>16, <1>17 DEF t, source

\* An event without effect.
LEMMA StatusKept ==
    ASSUME NEW s, NEW past, NEW d, Processing(s, past, d),
           NEW status \in {"rejected", "ignored", "processed", "failed"},
           (status = "processed") => ~SyncsPull(d)
    PROVE  LET t == SetStatus(s, status)
               e == EventOf(d, TRUE, status)
           IN  /\ StoreShape(t) /\ SyncShape(t) /\ SameRecords(s, t)
               /\ e \in EventType /\ t.events = Append(past, e) /\ Kept(s, t, e)
<1> DEFINE t == SetStatus(s, status)
           e == EventOf(d, TRUE, status)
<1>1. /\ StoreShape(t) /\ SameRecords(s, t)
      /\ t.prSync = s.prSync /\ t.branchSync = s.branchSync /\ t.events = Append(past, e)
  BY StatusSet DEF Processing
<1>2. e \in EventType
  BY EventTyped DEF Processing, Statuses
<1>3. (e.status = "processed") => (e.delivery \in Delivery /\ ~SyncsPull(e.delivery))
  BY DEF EventOf, Processing
<1> HIDE DEF t, e
<1>4. SyncShape(t)
  BY <1>1 DEF SyncShape, Processing
<1> QED
  BY <1>1, <1>2, <1>3, <1>4 DEF Kept, t, e

HasAction(d) == (d.type = "pull_request") => d.action # None

Handled(s, past, d, t) ==
    \E e \in EventType :
        /\ StoreShape(t) /\ SyncShape(t) /\ SameRecords(s, t)
        /\ t.events = Append(past, e)
        /\ Kept(s, t, e) \/ Applied(s, t, d, e)

LEMMA DeliveryProcessed ==
    ASSUME NEW s, NEW past, NEW d, Processing(s, past, d), WebhookRepoAllowed(Webhook, d.repo),
           HasAction(d)
    PROVE  Handled(s, past, d, ProcessDelivery(s, d))
<1>1. ASSUME NEW status \in {"rejected", "ignored", "processed", "failed"},
             (status = "processed") => ~SyncsPull(d)
      PROVE  Handled(s, past, d, SetStatus(s, status))
  BY <1>1, StatusKept DEF Handled
<1>2. d.type \in Types /\ d.action \in Actions /\ d.number \in Nat
  BY DEF Processing, Delivery
<1>3. EventOf(d, TRUE, "processed") \in EventType
  BY EventTyped DEF Processing, Statuses
<1>4. Len(Append(past, EventOf(d, TRUE, "processed"))) = Len(s.events)
  <2>1. Len(s.events) = Len(past) + 1 /\ past \in Seq(EventType)
    BY ProcessingLength DEF Processing
  <2> QED
    BY <1>3, <2>1, AppendProperties
<1>5. ASSUME d.type = "pull_request", d.action # "labeled"
      PROVE  Handled(s, past, d, SyncPullRequestFromWebhook(s, d))
  <2>1. CASE d.number < 1
    BY <1>1, <2>1 DEF SyncPullRequestFromWebhook
  <2>2. CASE ~(d.number < 1)
    <3>4. d.number >= 1
      BY <1>2, <2>2
    <3> DEFINE t == SyncPullRequestFromWebhook(s, d)
               e == EventOf(d, TRUE, "processed")
    <3>1. /\ StoreShape(t) /\ SyncShape(t) /\ SameRecords(s, t) /\ t.events = Append(past, e)
          /\ BranchSynced(s, t, d, Len(s.events)) /\ PullSynced(s, t, d, Len(s.events))
      BY <3>4, PullSyncs
    <3> HIDE DEF t, e
    <3>2. Applied(s, t, d, e)
      BY <1>4, <1>5, <3>1, <3>4 DEF Applied, SyncsPull, e
    <3> QED
      BY <1>3, <3>1, <3>2 DEF Handled, t, e
  <2> QED
    BY <2>1, <2>2
<1>6. ASSUME d.type = "push"
      PROVE  Handled(s, past, d, SyncBranchFromPushWebhook(s, d))
  <2>1. CASE d.head = "tag"
    BY <1>1, <2>1 DEF SyncBranchFromPushWebhook
  <2>2. CASE d.head # "tag"
    <3>5. PICK i : i = Len(s.events)
      OBVIOUS
    <3>6. \A j : LET t == SyncBranchState(s, d, j) IN
                  /\ StoreShape(t) /\ SameRecords(s, t) /\ t.prSync = s.prSync
                  /\ t.events = Append(past, EventOf(d, TRUE, "processed"))
                  /\ BranchSynced(s, t, d, j)
      BY BranchSyncs
    <3> DEFINE t == SyncBranchState(s, d, i)
               e == EventOf(d, TRUE, "processed")
    <3>1. /\ StoreShape(t) /\ SameRecords(s, t) /\ t.prSync = s.prSync /\ t.events = Append(past, e)
          /\ BranchSynced(s, t, d, i)
      BY <3>6
    <3>2. SyncBranchFromPushWebhook(s, d) = t
      BY <2>2, <3>5 DEF SyncBranchFromPushWebhook
    <3> HIDE DEF t, e
    <3>3. SyncShape(t)
      BY <3>1 DEF SyncShape, Processing
    <3>4. Applied(s, t, d, e)
      BY <1>4, <1>6, <2>2, <3>1, <3>5 DEF Applied, e
    <3> QED
      BY <1>3, <3>1, <3>2, <3>3, <3>4 DEF Handled, e
  <2> QED
    BY <2>1, <2>2
<1>7. Handled(s, past, d, DispatchEvent(s, d))
  <2>1. CASE d.type = "pull_request" /\ d.action \in {"opened", "synchronize", "reopened", "closed"}
    BY <1>5, <2>1 DEF DispatchEvent
  <2>2. CASE d.type = "push"
    BY <1>6, <2>2 DEF DispatchEvent
  <2>3. CASE /\ ~(d.type = "pull_request" /\ d.action \in {"opened", "synchronize", "reopened", "closed"})
             /\ d.type # "push"
    <3>1. DispatchEvent(s, d) = SetStatus(s, "processed")
      BY <2>3 DEF DispatchEvent
    <3>2. ~SyncsPull(d)
      BY <1>2, <2>3, Zenon DEF SyncsPull, Actions, HasAction
    <3> QED
      BY <1>1, <3>1, <3>2
  <2> QED
    BY <2>1, <2>2, <2>3
<1> QED
  BY <1>1, <1>7 DEF ProcessDelivery

\* A delivery has an effect only if it is signed.
LEMMA DeliveryAdmitted ==
    ASSUME NEW s, StoreShape(s), SyncShape(s), NEW d \in Delivery, NEW signature,
           HasAction(d)
    PROVE  LET t == AdmitDelivery(s, d, signature) IN
           \E e : /\ Received(s, t, e)
                  /\ Kept(s, t, e) \/ (Applied(s, t, d, e) /\ signature = <<d>>)
<1> DEFINE u == RecordEvent(s, d, TRUE, "verified")
<1>1. ASSUME NEW signed \in BOOLEAN
      PROVE  LET t == RecordEvent(s, d, signed, "rejected") IN
             \E e : Received(s, t, e) /\ Kept(s, t, e)
  <2> DEFINE t == RecordEvent(s, d, signed, "rejected")
             e == EventOf(d, signed, "rejected")
  <2>1. /\ StoreShape(t) /\ SameRecords(s, t)
        /\ t.prSync = s.prSync /\ t.branchSync = s.branchSync /\ t.events = Append(s.events, e)
    BY EventRecorded
  <2>2. e \in EventType
    BY EventTyped DEF Statuses
  <2>3. e.status = "rejected"
    BY DEF EventOf
  <2> HIDE DEF t, e
  <2>4. SyncShape(t)
    BY <2>1 DEF SyncShape
  <2> QED
    BY <2>1, <2>2, <2>3, <2>4 DEF Received, Kept, t
<1>2. ASSUME WebhookRepoAllowed(Webhook, d.repo)
      PROVE  LET t == ProcessDelivery(u, d) IN
             \E e : Received(s, t, e) /\ (Kept(s, t, e) \/ Applied(s, t, d, e))
  <2> DEFINE t == ProcessDelivery(u, d)
  <2>1. /\ StoreShape(u) /\ SameRecords(s, u)
        /\ u.prSync = s.prSync /\ u.branchSync = s.branchSync
        /\ u.events = Append(s.events, EventOf(d, TRUE, "verified"))
    BY EventRecorded
  <2> HIDE DEF u
  <2>2. SyncShape(u)
    BY <2>1 DEF SyncShape
  <2>3. Processing(u, s.events, d)
    BY <2>1, <2>2 DEF Processing, StoreShape
  <2>4. Handled(u, s.events, d, t)
    BY <1>2, <2>3, DeliveryProcessed
  <2>5. PICK e \in EventType : /\ StoreShape(t) /\ SyncShape(t) /\ SameRecords(u, t)
                               /\ t.events = Append(s.events, e)
                               /\ Kept(u, t, e) \/ Applied(u, t, d, e)
    BY <2>4 DEF Handled
  <2> HIDE DEF t
  <2>6. Received(s, t, e)
    BY <2>1, <2>5 DEF Received, SameRecords
  <2>7. Kept(u, t, e) => Kept(s, t, e)
    BY <2>1 DEF Kept
  <2>8. Applied(u, t, d, e) => Applied(s, t, d, e)
    BY <2>1 DEF Applied, BranchSynced, PullSynced, SameRecords
  <2> QED
    BY <2>5, <2>6, <2>7, <2>8 DEF t
<1> DEFINE verified == Verify(Webhook, d, signature)
           admitted == /\ verified
                       /\ WebhookVerdict["git.webhook.verify"][verified][d.repo]
                       /\ WebhookVerdict["git.webhook.receive"][verified][d.repo]
<1>3. CASE ~WebhookRepoAllowed(Webhook, d.repo)
  BY <1>1, <1>3 DEF AdmitDelivery
<1>4. CASE WebhookRepoAllowed(Webhook, d.repo) /\ admitted
  <2>1. AdmitDelivery(s, d, signature) = ProcessDelivery(u, d)
    BY <1>4 DEF AdmitDelivery
  <2>2. signature = <<d>>
    BY <1>4 DEF Verify
  <2> QED
    BY <1>2, <1>4, <2>1, <2>2
<1>5. CASE WebhookRepoAllowed(Webhook, d.repo) /\ ~admitted
  <2>1. AdmitDelivery(s, d, signature) = RecordEvent(s, d, verified, "rejected")
    BY <1>5 DEF AdmitDelivery
  <2>2. verified \in BOOLEAN
    BY DEF Verify
  <2> QED
    BY <1>1, <2>1, <2>2
<1> QED
  BY <1>3, <1>4, <1>5

(***************************************************************************)
(* What the events say stays true                                          *)
(***************************************************************************)

LEMMA EventsAppended ==
    ASSUME NEW events \in Seq(EventType), NEW e \in EventType
    PROVE  LET new == Append(events, e) IN
           /\ Len(events) \in Nat /\ DOMAIN events = 1..Len(events)
           /\ Len(new) = Len(events) + 1 /\ DOMAIN new = 1..(Len(events) + 1)
           /\ new[Len(events) + 1] = e
           /\ \A i \in DOMAIN events : i \in DOMAIN new /\ new[i] = events[i]
<1> DEFINE new == Append(events, e)
<1>1. /\ new \in Seq(EventType) /\ Len(new) = Len(events) + 1
      /\ \A i \in 1..Len(events) : new[i] = events[i]
      /\ new[Len(events) + 1] = e
  BY AppendProperties
<1>2. Len(events) \in Nat /\ DOMAIN events = 1..Len(events)
  BY LenProperties
<1> HIDE DEF new
<1>3. DOMAIN new = 1..Len(new)
  BY <1>1, LenProperties
<1> QED
  BY <1>1, <1>2, <1>3 DEF new

LEMMA SyncingAppended ==
    ASSUME NEW events \in Seq(EventType), NEW e \in EventType, NEW k
    PROVE  Syncing(Append(events, e), k) =
             IF e.status = "processed" /\ SyncsPull(e.delivery) /\ KeyOf(e.delivery) = k
             THEN Syncing(events, k) \cup {Len(events) + 1} ELSE Syncing(events, k)
<1> DEFINE new == Append(events, e)
<1>1. /\ DOMAIN events = 1..Len(events) /\ Len(events) \in Nat
      /\ DOMAIN new = 1..(Len(events) + 1) /\ new[Len(events) + 1] = e
      /\ \A i \in DOMAIN events : new[i] = events[i]
  BY EventsAppended
<1> HIDE DEF new
<1>2. \A i : i \in Syncing(events, k) <=>
             /\ i \in DOMAIN events /\ events[i].status = "processed"
             /\ SyncsPull(events[i].delivery) /\ KeyOf(events[i].delivery) = k
  BY DEF Syncing, SyncsPull, KeyOf
<1>3. \A i : i \in Syncing(new, k) <=>
             /\ i \in DOMAIN new /\ new[i].status = "processed"
             /\ SyncsPull(new[i].delivery) /\ KeyOf(new[i].delivery) = k
  BY DEF Syncing, SyncsPull, KeyOf
<1>4. \A i : i \in DOMAIN new <=> (i \in DOMAIN events \/ i = Len(events) + 1)
  BY <1>1
<1>5. \A i : i \in DOMAIN events => new[i] = events[i]
  BY <1>1
<1>6. ~(Len(events) + 1 \in DOMAIN events)
  BY <1>1
<1>7. CASE e.status = "processed" /\ SyncsPull(e.delivery) /\ KeyOf(e.delivery) = k
  <2>1. \A i : i \in Syncing(new, k) <=> (i \in Syncing(events, k) \/ i = Len(events) + 1)
    BY <1>1, <1>2, <1>3, <1>4, <1>5, <1>7
  <2>2. Syncing(new, k) = Syncing(events, k) \cup {Len(events) + 1}
    BY <2>1
  <2> QED
    BY <1>7, <2>2 DEF new
<1>8. CASE ~(e.status = "processed" /\ SyncsPull(e.delivery) /\ KeyOf(e.delivery) = k)
  <2>1. \A i : i \in Syncing(new, k) <=> i \in Syncing(events, k)
    BY <1>1, <1>2, <1>3, <1>4, <1>5, <1>6, <1>8
  <2>2. Syncing(new, k) = Syncing(events, k)
    BY <2>1
  <2> QED
    BY <1>8, <2>2 DEF new
<1> QED
  BY <1>7, <1>8

LEMMA GenuineStays ==
    ASSUME NEW events \in Seq(EventType), NEW e \in EventType, NEW sent, NEW i,
           Genuine(sent, events, i)
    PROVE  Genuine(sent, Append(events, e), i)
  BY EventsAppended DEF Genuine

\* A state that the new event does not change still says what its event said.
LEMMA LatestStays ==
    ASSUME NEW s, NEW t, NEW e \in EventType, s.events \in Seq(EventType),
           t.events = Append(s.events, e),
           NEW k, t.prSync[k] = s.prSync[k], LatestOK(s, k),
           ~(e.status = "processed" /\ SyncsPull(e.delivery) /\ KeyOf(e.delivery) = k)
    PROVE  LatestOK(t, k)
<1>1. Syncing(t.events, k) = Syncing(s.events, k)
  BY SyncingAppended
<1>2. \A i \in Syncing(s.events, k) : t.events[i] = s.events[i]
  BY EventsAppended DEF Syncing
<1> QED
  BY <1>1, <1>2 DEF LatestOK

LEMMA KeptSafe ==
    ASSUME NEW s, NEW t, NEW e, NEW sent, s.events \in Seq(EventType), Received(s, t, e),
           Kept(s, t, e), SyncedOK(s), SourcesOK(sent, s), MappedOK(s)
    PROVE  SyncedOK(t) /\ SourcesOK(sent, t) /\ MappedOK(t)
<1>1. /\ e \in EventType /\ t.events = Append(s.events, e)
      /\ t.prSync = s.prSync /\ t.branchSync = s.branchSync /\ t.pulls = s.pulls
  BY DEF Received, Kept, SameRecords
<1>2. SourcesOK(sent, t)
  BY <1>1, GenuineStays DEF SourcesOK
<1>3. MappedOK(t)
  BY <1>1 DEF MappedOK
<1>4. ~(e.status = "processed" /\ SyncsPull(e.delivery))
  BY DEF Kept
<1>5. \A k \in DOMAIN t.prSync : LatestOK(t, k)
  BY <1>1, <1>4, LatestStays DEF SyncedOK
<1>6. ASSUME NEW i \in DOMAIN t.events, t.events[i].status = "processed"
      PROVE  LET d == t.events[i].delivery
             IN  /\ d \in Delivery
                 /\ (d.type = "pull_request" /\ d.action # "labeled") => KeyOf(d) \in DOMAIN t.prSync
  <2>1. CASE i \in DOMAIN s.events
    <3>1. t.events[i] = s.events[i]
      BY <1>1, <2>1, EventsAppended
    <3> QED
      BY <1>1, <1>6, <2>1, <3>1 DEF SyncedOK
  <2>2. CASE i = Len(s.events) + 1
    <3>1. t.events[i] = e
      BY <1>1, <2>2, EventsAppended
    <3> QED
      BY <1>4, <1>6, <3>1 DEF Kept, SyncsPull
  <2> QED
    BY <1>1, <2>1, <2>2, EventsAppended
<1> QED
  BY <1>2, <1>3, <1>5, <1>6 DEF SyncedOK

LEMMA AppliedSafe ==
    ASSUME NEW s, NEW t, NEW e, NEW sent, NEW d \in Delivery, s.events \in Seq(EventType),
           Received(s, t, e), Applied(s, t, d, e), d \in sent,
           SyncedOK(s), SourcesOK(sent, s), MappedOK(s)
    PROVE  SyncedOK(t) /\ SourcesOK(sent, t) /\ MappedOK(t)
<1> DEFINE n == Len(s.events) + 1
<1>1. e \in EventType /\ t.events = Append(s.events, e) /\ t.pulls = s.pulls
  BY DEF Received, SameRecords
<1>2. /\ e.delivery = d /\ e.signed /\ e.status = "processed"
      /\ WebhookRepoAllowed(Webhook, d.repo)
  BY DEF Applied, EventOf
<1>10. /\ Len(s.events) \in Nat /\ DOMAIN s.events = 1..Len(s.events)
       /\ Len(Append(s.events, e)) = Len(s.events) + 1
       /\ DOMAIN Append(s.events, e) = 1..(Len(s.events) + 1)
       /\ Append(s.events, e)[Len(s.events) + 1] = e
       /\ \A i \in DOMAIN s.events : Append(s.events, e)[i] = s.events[i]
  BY <1>1, EventsAppended
<1>3. /\ Len(s.events) \in Nat /\ DOMAIN s.events = 1..Len(s.events)
      /\ n = Len(s.events) + 1 /\ n \in Nat /\ n \in DOMAIN t.events
      /\ Len(t.events) = n /\ DOMAIN t.events = 1..n /\ t.events[n] = e
      /\ \A i \in DOMAIN s.events : t.events[i] = s.events[i]
  BY <1>1, <1>10
<1> HIDE DEF n
<1>4. Genuine(sent, t.events, n)
  BY <1>1, <1>2, <1>3 DEF Genuine
<1>5. \A i : Genuine(sent, s.events, i) => Genuine(sent, t.events, i)
  BY <1>1, GenuineStays
<1>6. \A k \in DOMAIN t.branchSync : Genuine(sent, t.events, t.branchSync[k].source)
  <2>1. PICK x : t.branchSync = With(s.branchSync, <<d.repo, d.head>>, x) /\ x.source = n
    BY <1>3 DEF Applied, BranchSynced
  <2>2. \A k \in DOMAIN t.branchSync :
          \/ t.branchSync[k] = x
          \/ k \in DOMAIN s.branchSync /\ t.branchSync[k] = s.branchSync[k]
    BY <2>1 DEF With
  <2> QED
    BY <1>4, <1>5, <2>1, <2>2 DEF SourcesOK
<1>7. \A i \in DOMAIN t.events : i = n \/ (i \in DOMAIN s.events /\ t.events[i] = s.events[i])
  BY <1>3
<1>8. CASE d.type = "push" /\ t.prSync = s.prSync
  <2>1. ~SyncsPull(d)
    BY <1>8 DEF SyncsPull
  <2>2. SourcesOK(sent, t)
    BY <1>5, <1>6, <1>8 DEF SourcesOK
  <2>3. MappedOK(t)
    BY <1>1, <1>8 DEF MappedOK
  <2>4. \A k \in DOMAIN t.prSync : LatestOK(t, k)
    BY <1>1, <1>2, <1>8, <2>1, LatestStays DEF SyncedOK
  <2>5. SyncedOK(t)
    BY <1>2, <1>3, <1>7, <1>8, <2>1, <2>4 DEF SyncedOK, SyncsPull
  <2> QED
    BY <2>2, <2>3, <2>5
<1>9. CASE SyncsPull(d) /\ PullSynced(s, t, d, n)
  <2>0. e.status = "processed" /\ SyncsPull(e.delivery) /\ KeyOf(e.delivery) = KeyOf(d)
    BY <1>2, <1>9
  <2>1. PICK x : /\ t.prSync = With(s.prSync, KeyOf(d), x)
                 /\ x.state = d.state /\ x.head = d.head /\ x.sha = d.sha
                 /\ x.source = n
                 /\ (x.pr # 0) => /\ x.pr \in DOMAIN s.pulls
                                  /\ KeyOf(s.pulls[x.pr]) = KeyOf(d)
                                  /\ s.pulls[x.pr].task = x.task
    BY <1>9 DEF PullSynced
  <2>2. /\ DOMAIN t.prSync = DOMAIN s.prSync \cup {KeyOf(d)} /\ t.prSync[KeyOf(d)] = x
        /\ \A k \in DOMAIN s.prSync : k # KeyOf(d) => t.prSync[k] = s.prSync[k]
    BY <2>1 DEF With
  <2>3. SourcesOK(sent, t)
    BY <1>4, <1>5, <1>6, <2>1, <2>2 DEF SourcesOK
  <2>4. MappedOK(t)
    BY <1>1, <2>1, <2>2 DEF MappedOK
  <2>5. LatestOK(t, KeyOf(d))
    <3>1. Syncing(t.events, KeyOf(d)) = Syncing(s.events, KeyOf(d)) \cup {n}
      <4>1. Syncing(Append(s.events, e), KeyOf(d)) = Syncing(s.events, KeyOf(d)) \cup {Len(s.events) + 1}
        BY <1>1, <2>0, SyncingAppended
      <4> QED
        BY <1>1, <1>3, <4>1
    <3>2. \A j \in Syncing(s.events, KeyOf(d)) : j \in 1..Len(s.events)
      BY <1>3 DEF Syncing
    <3>3. \A j \in Syncing(t.events, KeyOf(d)) : j <= n
      BY <1>3, <3>1, <3>2
    <3> QED
      BY <1>2, <1>3, <2>1, <2>2, <3>1, <3>3 DEF LatestOK
  <2>6. ASSUME NEW k \in DOMAIN t.prSync, k # KeyOf(d) PROVE LatestOK(t, k)
    <3>1. k \in DOMAIN s.prSync /\ t.prSync[k] = s.prSync[k]
      BY <2>2, <2>6
    <3>2. LatestOK(s, k)
      BY <3>1 DEF SyncedOK
    <3>3. ~(e.status = "processed" /\ SyncsPull(e.delivery) /\ KeyOf(e.delivery) = k)
      BY <1>2, <2>6
    <3> QED
      BY <1>1, <3>1, <3>2, <3>3, LatestStays
  <2>7. SyncedOK(t)
    BY <1>2, <1>3, <1>7, <2>2, <2>5, <2>6 DEF SyncedOK
  <2> QED
    BY <2>3, <2>4, <2>7
<1> QED
  BY <1>3, <1>8, <1>9 DEF Applied

\* Another look at a pull request keeps what its last event said.
LEMMA Resynced ==
    ASSUME NEW s, NEW t, NEW sent, NEW k, NEW x,
           SyncedOK(s), SourcesOK(sent, s), MappedOK(s),
           t.events = s.events, t.branchSync = s.branchSync, t.pulls = s.pulls,
           t.prSync = With(s.prSync, k, x),
           x.source = SyncOf(s, k).source, x.head = SyncOf(s, k).head, x.sha = SyncOf(s, k).sha,
           (k \in DOMAIN s.prSync) => x.state = SyncOf(s, k).state,
           (x.pr # 0) => /\ x.pr \in DOMAIN s.pulls
                         /\ KeyOf(s.pulls[x.pr]) = k /\ s.pulls[x.pr].task = x.task
    PROVE  SyncedOK(t) /\ SourcesOK(sent, t) /\ MappedOK(t)
<1>1. /\ DOMAIN t.prSync = DOMAIN s.prSync \cup {k} /\ t.prSync[k] = x
      /\ \A q \in DOMAIN s.prSync : q # k => t.prSync[q] = s.prSync[q]
  BY DEF With
<1>2. (k \notin DOMAIN s.prSync) => x.source = 0
  BY DEF SyncOf, NoSync
<1>3. (k \in DOMAIN s.prSync) => /\ x.source = s.prSync[k].source /\ x.head = s.prSync[k].head
                                 /\ x.sha = s.prSync[k].sha /\ x.state = s.prSync[k].state
  BY DEF SyncOf
<1>4. SourcesOK(sent, t)
  BY <1>1, <1>2, <1>3 DEF SourcesOK
<1>5. MappedOK(t)
  BY <1>1 DEF MappedOK
<1>6. (k \notin DOMAIN s.prSync) => Syncing(s.events, k) = {}
  BY DEF SyncedOK, Syncing, KeyOf
<1>7. LatestOK(t, k)
  BY <1>1, <1>2, <1>3, <1>6 DEF LatestOK, SyncedOK
<1>8. \A q \in DOMAIN t.prSync : q # k => LatestOK(t, q)
  BY <1>1 DEF LatestOK, SyncedOK
<1> QED
  BY <1>1, <1>4, <1>5, <1>7, <1>8 DEF SyncedOK

(***************************************************************************)
(* The invariant is preserved                                              *)
(***************************************************************************)

LEMMA HubGrown ==
    ASSUME NEW h, NEW g, HubGrows(h, g), NEW s, NEW cs,
           RecordedOnce(h, s, cs), SourcesOK(h.sent, s)
    PROVE  RecordedOnce(g, s, cs) /\ SourcesOK(g.sent, s)
<1>1. RecordedOnce(g, s, cs)
  BY DEF HubGrows, RecordedOnce
<1>2. SourcesOK(g.sent, s)
  BY DEF HubGrows, SourcesOK, Genuine
<1> QED
  BY <1>1, <1>2

LEMMA HostSafe ==
    ASSUME GitInv, HostStep
    PROVE  GitInv'
<1>1. HubGrows(hub, hub')
  <2>1. HubOK(hub) /\ SentOK(hub.sent)
    BY DEF GitInv, TypeOK
  <2> QED
    BY <2>1, PushGrows, OpenGrows, CloseGrows DEF HostStep
<1>2. UNCHANGED <<store, calls, called>>
  BY DEF HostStep, HubPush, HubOpen, HubClose
<1>3. RecordedOnce(hub', store, calls) /\ SourcesOK(hub'.sent, store)
  BY <1>1, HubGrown DEF GitInv
<1>4. HubOK(hub') /\ SentOK(hub'.sent)
  BY <1>1 DEF HubGrows
<1> QED
  BY <1>2, <1>3, <1>4 DEF GitInv, TypeOK

\* A call begins: the host has done what it was asked.
LEMMA CallBegins ==
    ASSUME GitInv, HubGrows(hub, hub'), UNCHANGED store,
           NEW c \in CallType, calls' = calls \cup {c}, called' \in Nat, c.repo \in store.repos,
           (c.op = "pull") => KeyOf(c) \in DOMAIN hub'.pulls /\ KeyOf(c) \notin DOMAIN hub.pulls
    PROVE  GitInv'
<1>1. HubOK(hub') /\ SentOK(hub'.sent)
  BY DEF HubGrows
<1>2. RecordedOnce(hub', store, calls) /\ SourcesOK(hub'.sent, store)
  BY HubGrown DEF GitInv
<1>3. RecordedOnce(hub', store, calls')
  <2>1. \A i \in DOMAIN store.pulls : KeyOf(store.pulls[i]) \in DOMAIN hub.pulls
    BY DEF GitInv, RecordedOnce
  <2>2. \A b \in calls : (b.op = "pull") => KeyOf(b) \in DOMAIN hub.pulls
    BY DEF GitInv, RecordedOnce
  <2> QED
    BY <1>2, <2>1, <2>2 DEF RecordedOnce
<1>4. /\ StoreShape(store) /\ SyncShape(store) /\ calls' \subseteq CallType
      /\ \A b \in calls' : b.repo \in store.repos
      /\ SyncedOK(store) /\ MappedOK(store) /\ QueuedOK(store)
  BY DEF GitInv, TypeOK
<1> QED
  BY <1>1, <1>2, <1>3, <1>4 DEF GitInv, TypeOK

LEMMA CreateBranchSafe ==
    ASSUME GitInv, NEW repo \in Repos, NEW branch \in Branches, NEW task \in Tasks,
           CreateBranch(repo, branch, task)
    PROVE  GitInv'
<1> DEFINE d == PushDelivery(repo, branch, 0, TRUE)
           c == [op |-> "branch", repo |-> repo, branch |-> branch, task |-> task, id |-> called]
<1>1. /\ repo \in store.repos /\ UNCHANGED store
      /\ hub' = [hub EXCEPT !.heads = With(hub.heads, <<repo, branch>>, 0), !.sent = hub.sent \cup {d}]
      /\ calls' = calls \cup {c} /\ called' = called + 1
  BY DEF CreateBranch, BeginCall
<1>2. called \in Nat /\ HubOK(hub) /\ SentOK(hub.sent)
  BY DEF GitInv, TypeOK
<1>3. c \in CallType /\ c.op = "branch" /\ c.repo = repo
  BY <1>2 DEF CallType
<1>4. d \in Delivery /\ d.type = "push"
  BY PushDeliveryType DEF Heads
<1> HIDE DEF c, d
<1>5. /\ hub' = [heads |-> hub'.heads, pulls |-> hub'.pulls, sent |-> hub'.sent, pushes |-> hub'.pushes]
      /\ hub'.heads = With(hub.heads, <<repo, branch>>, 0) /\ hub'.sent = hub.sent \cup {d}
      /\ hub'.pulls = hub.pulls /\ hub'.pushes = hub.pushes
  BY <1>1, <1>2 DEF HubOK
<1>6. HubOK(hub')
  <2>1. \A k \in DOMAIN hub'.heads : hub'.heads[k] \in Nat
    BY <1>2, <1>5 DEF HubOK, With
  <2>2. \A r \in Repos : NumbersOf(hub', r) = NumbersOf(hub, r)
    BY <1>5 DEF NumbersOf
  <2> QED
    BY <1>2, <1>5, <2>1, <2>2 DEF HubOK, Numbered
<1>7. SentOK(hub'.sent)
  BY <1>2, <1>4, <1>5 DEF SentOK
<1>8. HubGrows(hub, hub')
  BY <1>5, <1>6, <1>7 DEF HubGrows
<1> QED
  BY <1>1, <1>2, <1>3, <1>8, CallBegins

LEMMA CreatePullRequestSafe ==
    ASSUME GitInv, NEW repo \in Repos, NEW branch \in Branches, NEW task \in Tasks,
           NEW lease \in {0} \cup DOMAIN store.leases, CreatePullRequest(repo, branch, task, lease)
    PROVE  GitInv'
<1> DEFINE n == Cardinality(NumbersOf(hub, repo)) + 1
           c == [op |-> "pull", repo |-> repo, branch |-> branch, task |-> task, lease |-> lease,
                 number |-> n, id |-> called]
<1>1. /\ repo \in store.repos /\ UNCHANGED store /\ <<repo, branch>> \in DOMAIN hub.heads
      /\ hub' = HubOpenPull(hub, repo, branch)
      /\ calls' = calls \cup {c} /\ called' = called + 1
  BY DEF CreatePullRequest, BeginCall
<1>2. called \in Nat /\ HubOK(hub) /\ SentOK(hub.sent) /\ lease \in Nat
  BY LenProperties DEF GitInv, TypeOK, StoreShape
<1>3. n \in Nat /\ <<repo, n>> \notin DOMAIN hub.pulls
  BY <1>2, NextNumber
<1>4. HubGrows(hub, hub') /\ DOMAIN hub'.pulls = DOMAIN hub.pulls \cup {<<repo, n>>}
  BY <1>1, <1>2, PullOpened
<1> HIDE DEF n
<1>5. c \in CallType /\ c.op = "pull" /\ c.repo = repo /\ KeyOf(c) = <<repo, n>>
  BY <1>2, <1>3 DEF CallType, KeyOf
<1> HIDE DEF c
<1> QED
  BY <1>1, <1>2, <1>3, <1>4, <1>5, CallBegins

LEMMA RefreshSafe ==
    ASSUME GitInv, NEW k \in DOMAIN hub.pulls, RefreshChangedFiles(k[1], k[2])
    PROVE  GitInv'
<1> DEFINE seen == SyncOf(store, <<k[1], k[2]>>)
           files == hub.pulls[<<k[1], k[2]>>].files
           c == [op |-> "files", repo |-> k[1], number |-> k[2], files |-> files, seen |-> seen,
                 id |-> called]
<1>1. /\ k[1] \in store.repos /\ UNCHANGED <<hub, store>> /\ <<k[1], k[2]>> \in DOMAIN hub.pulls
      /\ calls' = calls \cup {c} /\ called' = called + 1
  BY DEF RefreshChangedFiles, BeginCall
<1>2. called \in Nat /\ HubOK(hub) /\ SentOK(hub.sent) /\ StoreShape(store) /\ SyncShape(store)
  BY DEF GitInv, TypeOK
<1>3. seen \in SyncType
  BY <1>2, SyncKnown
<1>4. k[1] \in Repos /\ k[2] \in Nat /\ files \in SUBSET Files
  BY <1>1, <1>2 DEF HubOK, HostPull
<1> HIDE DEF seen, files
<1>5. c \in CallType /\ c.op = "files" /\ c.repo = k[1]
  BY <1>2, <1>3, <1>4 DEF CallType
<1> HIDE DEF c
<1>6. HubGrows(hub, hub')
  BY <1>1, <1>2 DEF HubGrows
<1> QED
  BY <1>1, <1>2, <1>5, <1>6, CallBegins

\* The records of pull requests and the queue stay as they are.
LEMMA RecordsKept ==
    ASSUME GitInv, UNCHANGED <<hub, called>>, calls' \subseteq calls,
           StoreShape(store'), SyncShape(store'),
           SyncedOK(store'), SourcesOK(hub.sent, store'), MappedOK(store'),
           store.repos \subseteq store'.repos,
           store'.pulls = store.pulls, store'.queue = store.queue
    PROVE  GitInv'
<1>1. TypeOK'
  BY DEF GitInv, TypeOK
<1>2. RecordedOnce(hub, store', calls')
  <2>1. RecordedOnce(hub, store, calls)
    BY DEF GitInv
  <2> QED
    BY <2>1 DEF RecordedOnce
<1>3. QueuedOK(store')
  BY DEF GitInv, QueuedOK
<1>4. \A c \in calls' : c.repo \in store'.repos
  BY DEF GitInv
<1> QED
  BY <1>1, <1>2, <1>3, <1>4 DEF GitInv

LEMMA CreateRepoSafe ==
    ASSUME GitInv, NEW repo \in Repos, CreateRepo(repo)
    PROVE  GitInv'
<1>1. StoreShape(store) /\ SyncShape(store)
  BY DEF GitInv, TypeOK
<1>2. store' = [store EXCEPT !.repos = store.repos \cup {repo}] /\ UNCHANGED <<hub, calls, called>>
  BY DEF CreateRepo
<1>3. store' = [repos |-> store.repos \cup {repo}, leases |-> store.leases, pulls |-> store.pulls,
                queue |-> store.queue, prSync |-> store.prSync, branchSync |-> store.branchSync,
                events |-> store.events]
  BY <1>1, <1>2 DEF StoreShape
<1>4. /\ StoreShape(store')
      /\ store'.repos = store.repos \cup {repo}
      /\ store'.pulls = store.pulls /\ store'.queue = store.queue
      /\ store'.prSync = store.prSync /\ store'.branchSync = store.branchSync
      /\ store'.events = store.events
  BY <1>1, <1>3 DEF StoreShape
<1>5. SyncShape(store')
  BY <1>1, <1>4 DEF SyncShape
<1>6. SyncedOK(store') /\ SourcesOK(hub.sent, store') /\ MappedOK(store')
  BY <1>4 DEF GitInv, SyncedOK, LatestOK, SourcesOK, MappedOK
<1> QED
  BY <1>2, <1>4, <1>5, <1>6, RecordsKept

\* A delivery that is signed but has not been sent synchronises nothing.
Harmless(d) ==
    \/ d.type \notin {"push", "pull_request"}
    \/ d.type = "push" /\ d.head = "tag"
    \/ d.type = "pull_request" /\ (d.action = "labeled" \/ d.number = 0)

LEMMA ReceiveSafe ==
    ASSUME GitInv, NEW d \in Delivery, HasAction(d), NEW signature,
           ReceiveGitHubWebhook(d, signature),
           (signature = <<d>>) => (d \in hub.sent \/ Harmless(d))
    PROVE  GitInv'
<1>1. /\ StoreShape(store) /\ SyncShape(store) /\ store.events \in Seq(EventType)
      /\ SyncedOK(store) /\ SourcesOK(hub.sent, store) /\ MappedOK(store)
  BY DEF GitInv, TypeOK, StoreShape
<1>2. store' = AdmitDelivery(store, d, signature) /\ UNCHANGED <<hub, calls, called>>
  BY DEF ReceiveGitHubWebhook
<1>3. PICK e : /\ Received(store, store', e)
               /\ \/ Kept(store, store', e)
                  \/ Applied(store, store', d, e) /\ signature = <<d>>
  BY <1>1, <1>2, DeliveryAdmitted
<1>4. SyncedOK(store') /\ SourcesOK(hub.sent, store') /\ MappedOK(store')
  <2>1. CASE Kept(store, store', e)
    BY <1>1, <1>3, <2>1, KeptSafe
  <2>2. CASE Applied(store, store', d, e) /\ signature = <<d>>
    <3>1. ~Harmless(d)
      BY <2>2 DEF Applied, SyncsPull, Harmless
    <3>2. d \in hub.sent
      BY <2>2, <3>1
    <3> QED
      BY <1>1, <1>3, <2>2, <3>2, AppliedSafe
  <2> QED
    BY <1>3, <2>1, <2>2
<1> QED
  BY <1>2, <1>3, <1>4, RecordsKept DEF Received, SameRecords

LEMMA ReceiveMalformedSafe ==
    ASSUME GitInv, ReceiveMalformedWebhook
    PROVE  GitInv'
<1> DEFINE e == EventOf(NoDelivery, FALSE, "rejected")
<1>1. /\ StoreShape(store) /\ SyncShape(store) /\ store.events \in Seq(EventType)
      /\ SyncedOK(store) /\ SourcesOK(hub.sent, store) /\ MappedOK(store)
  BY DEF GitInv, TypeOK, StoreShape
<1>2. /\ store' = RecordEvent(store, NoDelivery, FALSE, "rejected")
      /\ UNCHANGED <<hub, calls, called>>
  BY DEF ReceiveMalformedWebhook
<1>3. /\ StoreShape(store') /\ SameRecords(store, store')
      /\ store'.prSync = store.prSync /\ store'.branchSync = store.branchSync
      /\ store'.events = Append(store.events, e)
  BY <1>1, <1>2, EventRecorded
<1>4. e \in EventType /\ e.status = "rejected"
  BY EventTyped DEF EventOf, Statuses
<1> HIDE DEF e
<1>5. SyncShape(store')
  BY <1>1, <1>3 DEF SyncShape
<1>6. Received(store, store', e) /\ Kept(store, store', e)
  BY <1>3, <1>4, <1>5 DEF Received, Kept
<1>7. SyncedOK(store') /\ SourcesOK(hub.sent, store') /\ MappedOK(store')
  BY <1>1, <1>6, KeptSafe
<1> QED
  BY <1>2, <1>3, <1>5, <1>7, RecordsKept DEF SameRecords

LEMMA OtherDeliveriesHarmless ==
    ASSUME NEW d \in OtherDeliveries
    PROVE  d \in Delivery /\ HasAction(d) /\ Harmless(d)
<1>1. /\ {"ping", "issues", "pull_request"} \subseteq Types
      /\ {None, "opened", "labeled"} \subseteq Actions
      /\ {None, "tag"} \subseteq Heads /\ {None, "open"} \subseteq States
  BY DEF Types, Actions, Heads, States
<1>2. ASSUME NEW r \in Repos, NEW type \in {"ping", "issues"}, d = Untracked(r, type)
      PROVE  d \in Delivery /\ d.type = type
  <2>1. d = [type |-> type, action |-> None, repo |-> r, number |-> 0, head |-> None,
             sha |-> 0, state |-> None, exists |-> TRUE]
    BY <1>2 DEF Untracked, PushDelivery
  <2> QED
    BY <1>1, <2>1 DEF Delivery
<1>3. ASSUME NEW r \in Repos, d = PushDelivery(r, "tag", 0, TRUE)
      PROVE  d \in Delivery /\ d.type = "push" /\ d.head = "tag"
  <2>1. "tag" \in Heads
    BY <1>1
  <2>2. d \in Delivery /\ d.type = "push"
    BY <1>3, <2>1, PushDeliveryType
  <2>3. d.head = "tag"
    BY <1>3 DEF PushDelivery
  <2> QED
    BY <2>2, <2>3
<1>4. ASSUME NEW r \in Repos, NEW a \in {"opened", "labeled"},
             d = PullDelivery(a, r, 0, NumberlessPull)
      PROVE  d \in Delivery /\ d.type = "pull_request" /\ d.action # None /\ d.number = 0
  <2>1. d = [type |-> "pull_request", action |-> a, repo |-> r, number |-> 0, head |-> None,
             sha |-> 0, state |-> "open", exists |-> TRUE]
    BY <1>4 DEF PullDelivery, NumberlessPull
  <2>2. a # None
    BY DEF None
  <2> QED
    BY <1>1, <2>1, <2>2 DEF Delivery
<1>5. \/ \E r \in Repos, type \in {"ping", "issues"} : d = Untracked(r, type)
      \/ \E r \in Repos : d = PushDelivery(r, "tag", 0, TRUE)
      \/ \E r \in Repos, a \in {"opened", "labeled"} : d = PullDelivery(a, r, 0, NumberlessPull)
  <2> DEFINE A == {Untracked(r, type) : r \in Repos, type \in {"ping", "issues"}}
             B == {PushDelivery(r, "tag", 0, TRUE) : r \in Repos}
             C == {PullDelivery(a, r, 0, NumberlessPull) : r \in Repos, a \in {"opened", "labeled"}}
  <2>1. OtherDeliveries = (A \cup B) \cup C
    BY DEF OtherDeliveries
  <2>2. (d \in A) => \E r \in Repos, type \in {"ping", "issues"} : d = Untracked(r, type)
    OBVIOUS
  <2>3. (d \in B) => \E r \in Repos : d = PushDelivery(r, "tag", 0, TRUE)
    OBVIOUS
  <2>4. (d \in C) => \E r \in Repos, a \in {"opened", "labeled"} : d = PullDelivery(a, r, 0, NumberlessPull)
    OBVIOUS
  <2> HIDE DEF A, B, C
  <2> QED
    BY <2>1, <2>2, <2>3, <2>4
<1>6. d \in Delivery /\ HasAction(d) /\ Harmless(d)
  <2>1. ~("push" = "pull_request")
    OBVIOUS
  <2> QED
    BY <1>2, <1>3, <1>4, <1>5, <2>1 DEF HasAction, Harmless
<1> QED
  BY <1>6

LEMMA SentHasAction ==
    ASSUME NEW sent, SentOK(sent), NEW d \in sent
    PROVE  d \in Delivery /\ HasAction(d)
<1>1. \A a \in {"opened", "synchronize", "closed"} : a # None
  BY DEF None
<1>2. ~("push" = "pull_request")
  OBVIOUS
<1> QED
  BY <1>1, <1>2 DEF SentOK, HasAction

\* A forged body is not the one that was signed.
LEMMA ForgedDiffers ==
    ASSUME NEW d \in Delivery, HasAction(d)
    PROVE  Forged(d) \in Delivery /\ HasAction(Forged(d)) /\ Forged(d) # d
<1> DEFINE f == Forged(d)
<1>1. "merged" \in States
  BY DEF States
<1>2. f = [d EXCEPT !.state = "merged", !.exists = ~d.exists]
  BY DEF Forged
<1> HIDE DEF f
<1>3. /\ f \in Delivery /\ f.exists = ~d.exists /\ f.type = d.type /\ f.action = d.action
      /\ d.exists \in BOOLEAN
  BY <1>1, <1>2 DEF Delivery
<1>4. f # d
  BY <1>3
<1> QED
  BY <1>3, <1>4 DEF f, HasAction

LEMMA PostWebhookSafe ==
    ASSUME GitInv, PostWebhook
    PROVE  GitInv'
<1>1. SentOK(hub.sent)
  BY DEF GitInv, TypeOK
<1>2. ASSUME NEW d \in hub.sent \cup OtherDeliveries, ReceiveGitHubWebhook(d, <<d>>)
      PROVE  GitInv'
  <2>1. d \in Delivery /\ HasAction(d) /\ (d \in hub.sent \/ Harmless(d))
    BY <1>1, SentHasAction, OtherDeliveriesHarmless
  <2> QED
    BY <1>2, <2>1, ReceiveSafe
<1>3. ASSUME NEW d \in hub.sent,
             ReceiveGitHubWebhook(Forged(d), <<d>>) \/ ReceiveGitHubWebhook(Forged(d), <<>>)
      PROVE  GitInv'
  <2>1. d \in Delivery /\ HasAction(d)
    BY <1>1, SentHasAction
  <2>2. Forged(d) \in Delivery /\ HasAction(Forged(d)) /\ Forged(d) # d
    BY <2>1, ForgedDiffers
  <2>3. \A f : <<f>> # <<>> /\ (<<d>> = <<f>> => d = f)
    OBVIOUS
  <2>4. CASE ReceiveGitHubWebhook(Forged(d), <<d>>)
    BY <2>2, <2>3, <2>4, ReceiveSafe
  <2>5. CASE ReceiveGitHubWebhook(Forged(d), <<>>)
    BY <2>2, <2>3, <2>5, ReceiveSafe
  <2> QED
    BY <1>3, <2>4, <2>5
<1> QED
  BY <1>2, <1>3, ReceiveMalformedSafe DEF PostWebhook

LEMMA CallFailsSafe ==
    ASSUME GitInv, NEW c \in calls, CallFails(c)
    PROVE  GitInv'
<1>1. calls' \subseteq calls /\ UNCHANGED <<hub, store, called>>
  BY DEF CallFails
<1>2. /\ StoreShape(store) /\ SyncShape(store)
      /\ SyncedOK(store) /\ SourcesOK(hub.sent, store) /\ MappedOK(store)
  BY DEF GitInv, TypeOK
<1> QED
  BY <1>1, <1>2, RecordsKept

LEMMA CreateBranchReturnsSafe ==
    ASSUME GitInv, NEW c \in calls, CreateBranchReturns(c)
    PROVE  GitInv'
<1> DEFINE l == [repo |-> c.repo, branch |-> c.branch, task |-> c.task, files |-> {}]
<1>1. /\ c.op = "branch"
      /\ store' = [store EXCEPT !.leases = Append(store.leases, l)]
      /\ calls' = calls \ {c} /\ UNCHANGED <<hub, called>>
  BY DEF CreateBranchReturns
<1>2. StoreShape(store) /\ SyncShape(store) /\ c \in CallType
  BY DEF GitInv, TypeOK
<1>3. c.repo \in Repos /\ c.branch \in Branches /\ c.task \in Tasks
  BY <1>1, <1>2 DEF CallType
<1>4. l \in LeaseType
  BY <1>3 DEF LeaseType
<1> HIDE DEF l
<1>5. store' = [repos |-> store.repos, leases |-> Append(store.leases, l), pulls |-> store.pulls,
                queue |-> store.queue, prSync |-> store.prSync, branchSync |-> store.branchSync,
                events |-> store.events]
  BY <1>1, <1>2 DEF StoreShape
<1>6. Append(store.leases, l) \in Seq(LeaseType)
  BY <1>2, <1>4, AppendProperties DEF StoreShape
<1>7. /\ StoreShape(store')
      /\ store'.repos = store.repos /\ store'.pulls = store.pulls /\ store'.queue = store.queue
      /\ store'.prSync = store.prSync /\ store'.branchSync = store.branchSync
      /\ store'.events = store.events
  BY <1>2, <1>5, <1>6 DEF StoreShape
<1>8. SyncShape(store')
  BY <1>2, <1>7 DEF SyncShape
<1>9. SyncedOK(store') /\ SourcesOK(hub.sent, store') /\ MappedOK(store')
  BY <1>7 DEF GitInv, SyncedOK, LatestOK, SourcesOK, MappedOK
<1> QED
  BY <1>1, <1>7, <1>8, <1>9, RecordsKept

\* A synchronisation by hand, or by an answer about the files, writes the state
\* of the pull request it finds at that moment.
LEMMA ResyncSafe ==
    ASSUME GitInv, NEW repo \in Repos, NEW n \in Nat, repo \in store.repos,
           UNCHANGED <<hub, called>>, calls' \subseteq calls,
           NEW u, StoreShape(u), SyncShape(u),
           u.repos = store.repos, u.pulls = store.pulls, u.queue = store.queue,
           u.prSync = store.prSync, u.branchSync = store.branchSync, u.events = store.events,
           NEW lease \in Nat, (lease # 0) => lease \in DOMAIN store.leases,
           NEW files \in SUBSET Files, NEW state \in States,
           (<<repo, n>> \in DOMAIN store.prSync) => state = SyncOf(store, <<repo, n>>).state,
           LET k   == <<repo, n>>
               old == SyncOf(store, k)
               pr  == FindPullRequest(store, repo, n)
           IN  store' = UpsertPullRequestSync(u, k,
                          [old EXCEPT !.pr    = IF pr # 0 THEN pr ELSE old.pr,
                                      !.task  = TaskOf(store, pr, lease, old.task),
                                      !.lease = IF old.lease # 0 THEN old.lease ELSE lease,
                                      !.files = files,
                                      !.state = state])
    PROVE  GitInv'
<1> DEFINE k    == <<repo, n>>
           old  == SyncOf(store, k)
           pr   == FindPullRequest(store, repo, n)
           task == TaskOf(store, pr, lease, old.task)
           x    == [old EXCEPT !.pr = IF pr # 0 THEN pr ELSE old.pr, !.task = task,
                               !.lease = IF old.lease # 0 THEN old.lease ELSE lease,
                               !.files = files, !.state = state]
<1>1. store' = UpsertPullRequestSync(u, k, x)
  OBVIOUS
<1>2. /\ StoreShape(store) /\ SyncShape(store)
      /\ SyncedOK(store) /\ SourcesOK(hub.sent, store) /\ MappedOK(store)
  BY DEF GitInv, TypeOK
<1>3. old \in SyncType
  BY <1>2, SyncKnown
<1>4. /\ pr \in Nat
      /\ (pr # 0) => pr \in DOMAIN store.pulls /\ KeyOf(store.pulls[pr]) = k
      /\ (pr = 0) => \A j \in DOMAIN store.pulls : KeyOf(store.pulls[j]) # k
  BY <1>2, FoundPull DEF KeyOf
<1>5. (k \in DOMAIN store.prSync) => old = store.prSync[k]
  BY DEF SyncOf
<1>6. (k \notin DOMAIN store.prSync) => old.pr = 0
  BY DEF SyncOf, NoSync
<1>7. k \in Repos \X Nat
  OBVIOUS
<1> HIDE DEF old, pr
<1>8. (pr = 0) => old.pr = 0
  BY <1>2, <1>4, <1>5, <1>6 DEF MappedOK
<1>9. old.task \in Tasks \cup {None}
  BY <1>3 DEF SyncType
<1>10. task \in Tasks \cup {None} /\ ((pr # 0) => task = store.pulls[pr].task)
  BY <1>2, <1>4, <1>9, FoundTask
<1> HIDE DEF task
<1>11. /\ x.source = old.source /\ x.head = old.head /\ x.sha = old.sha /\ x.state = state
       /\ x.pr = pr /\ x.task = task /\ x \in SyncType
  BY <1>3, <1>4, <1>8, <1>10 DEF SyncType
<1> HIDE DEF x
<1>12. /\ StoreShape(store') /\ SyncShape(store') /\ SameRecords(u, store')
       /\ store'.prSync = With(store.prSync, k, x)
       /\ store'.branchSync = store.branchSync /\ store'.events = store.events
  BY <1>1, <1>7, <1>11, SyncWritten
<1>13. SyncedOK(store') /\ SourcesOK(hub.sent, store') /\ MappedOK(store')
  <2>1. (x.pr # 0) => /\ x.pr \in DOMAIN store.pulls
                      /\ KeyOf(store.pulls[x.pr]) = k /\ store.pulls[x.pr].task = x.task
    BY <1>4, <1>10, <1>11
  <2>2. /\ x.source = SyncOf(store, k).source /\ x.head = SyncOf(store, k).head
        /\ x.sha = SyncOf(store, k).sha
        /\ (k \in DOMAIN store.prSync) => x.state = SyncOf(store, k).state
    BY <1>11 DEF old
  <2>3. store'.pulls = store.pulls
    BY <1>12 DEF SameRecords
  <2> HIDE DEF k
  <2> QED
    BY <1>2, <1>12, <2>1, <2>2, <2>3, Resynced
<1> QED
  BY <1>12, <1>13, RecordsKept DEF SameRecords

LEMMA ManualSyncSafe ==
    ASSUME GitInv, NEW repo \in Repos, NEW n \in Nat, ManualSyncPullRequest(repo, n)
    PROVE  GitInv'
<1> DEFINE k     == <<repo, n>>
           old   == SyncOf(store, k)
           pr    == FindPullRequest(store, repo, n)
           lease == IF k \in DOMAIN store.prSync THEN FindBranchLease(store, repo, old.head, pr) ELSE 0
           task  == TaskOf(store, pr, lease, old.task)
           state == IF k \in DOMAIN store.prSync \/ pr = 0 THEN old.state ELSE "open"
           x     == [old EXCEPT !.pr = IF pr # 0 THEN pr ELSE old.pr, !.task = task,
                                !.lease = IF old.lease # 0 THEN old.lease ELSE lease,
                                !.files = old.files, !.state = state]
<1>1. StoreShape(store) /\ SyncShape(store)
  BY DEF GitInv, TypeOK
<1>2. /\ repo \in store.repos /\ UNCHANGED <<hub, calls, called>>
      /\ store' = UpsertPullRequestSync(store, k,
                    [old EXCEPT !.pr    = IF pr # 0 THEN pr ELSE old.pr,
                                !.task  = task,
                                !.lease = IF old.lease # 0 THEN old.lease ELSE lease,
                                !.state = state])
  BY DEF ManualSyncPullRequest
<1>3. old \in SyncType
  BY <1>1, SyncKnown
<1>4. lease \in Nat /\ ((lease # 0) => lease \in DOMAIN store.leases)
  BY <1>1, FoundLease
<1>5. state \in States /\ ((k \in DOMAIN store.prSync) => state = old.state)
  BY <1>3 DEF SyncType, States
<1>6. old.files \in SUBSET Files
  BY <1>3 DEF SyncType
<1>7. store' = UpsertPullRequestSync(store, k, x)
  <2> HIDE DEF old, pr, lease, task, state
  <2>1. x = [old EXCEPT !.pr    = IF pr # 0 THEN pr ELSE old.pr,
                        !.task  = task,
                        !.lease = IF old.lease # 0 THEN old.lease ELSE lease,
                        !.state = state]
    BY <1>3 DEF SyncType
  <2> QED
    BY <1>2, <2>1
<1>8. PICK l \in Nat, q \in States : l = lease /\ q = state
  BY <1>4, <1>5
<1>9. store' = UpsertPullRequestSync(store, k,
                 [old EXCEPT !.pr    = IF pr # 0 THEN pr ELSE old.pr,
                             !.task  = TaskOf(store, pr, l, old.task),
                             !.lease = IF old.lease # 0 THEN old.lease ELSE l,
                             !.files = old.files,
                             !.state = q])
  BY <1>7, <1>8
<1>10. /\ (l # 0) => l \in DOMAIN store.leases
       /\ (k \in DOMAIN store.prSync) => q = old.state
       /\ calls' \subseteq calls
  BY <1>2, <1>4, <1>5, <1>8
<1> HIDE DEF lease, state
<1> QED
  BY <1>1, <1>2, <1>6, <1>9, <1>10, ResyncSafe

LEMMA RefreshReturnsSafe ==
    ASSUME GitInv, NEW c \in calls, RefreshChangedFilesReturns(c)
    PROVE  GitInv'
<1> DEFINE k     == <<c.repo, c.number>>
           old   == SyncOf(store, k)
           pr    == FindPullRequest(store, c.repo, c.number)
           lease == IF k \in DOMAIN store.prSync THEN FindBranchLease(store, c.repo, old.head, pr) ELSE 0
           u     == ExtendLease(store, lease, c.files)
           task  == TaskOf(store, pr, lease, old.task)
           x     == [old EXCEPT !.pr = IF pr # 0 THEN pr ELSE old.pr, !.task = task,
                                !.lease = IF old.lease # 0 THEN old.lease ELSE lease,
                                !.files = c.files, !.state = old.state]
<1>1. StoreShape(store) /\ SyncShape(store) /\ c \in CallType /\ c.repo \in store.repos
  BY DEF GitInv, TypeOK
<1>2. /\ c.op = "files" /\ calls' = calls \ {c} /\ UNCHANGED <<hub, called>>
      /\ store' = UpsertPullRequestSync(u, k,
                    [old EXCEPT !.pr    = IF pr # 0 THEN pr ELSE old.pr,
                                !.task  = task,
                                !.lease = IF old.lease # 0 THEN old.lease ELSE lease,
                                !.files = c.files])
  BY DEF RefreshChangedFilesReturns, SyncAtRefresh
<1>3. c.repo \in Repos /\ c.number \in Nat /\ c.files \in SUBSET Files
  BY <1>1, <1>2 DEF CallType
<1>4. old \in SyncType
  BY <1>1, SyncKnown
<1>5. lease \in Nat /\ ((lease # 0) => lease \in DOMAIN store.leases)
  BY <1>1, FoundLease
<1>6. old.state \in States
  BY <1>4 DEF SyncType
<1>7. store' = UpsertPullRequestSync(u, k, x)
  <2> HIDE DEF old, pr, lease, task, u
  <2>1. x = [old EXCEPT !.pr    = IF pr # 0 THEN pr ELSE old.pr,
                        !.task  = task,
                        !.lease = IF old.lease # 0 THEN old.lease ELSE lease,
                        !.files = c.files]
    BY <1>4 DEF SyncType
  <2> QED
    BY <1>2, <2>1
<1>8. PICK l \in Nat : l = lease
  BY <1>5
<1>9. store' = UpsertPullRequestSync(ExtendLease(store, l, c.files), k,
                 [old EXCEPT !.pr    = IF pr # 0 THEN pr ELSE old.pr,
                             !.task  = TaskOf(store, pr, l, old.task),
                             !.lease = IF old.lease # 0 THEN old.lease ELSE l,
                             !.files = c.files,
                             !.state = old.state])
  BY <1>7, <1>8
<1>10. (l # 0) => l \in DOMAIN store.leases
  BY <1>5, <1>8
<1> HIDE DEF lease, u
<1> DEFINE v == ExtendLease(store, l, c.files)
<1>11. /\ StoreShape(v)
       /\ v.repos = store.repos /\ v.pulls = store.pulls /\ v.queue = store.queue
       /\ v.prSync = store.prSync /\ v.branchSync = store.branchSync /\ v.events = store.events
  BY <1>1, <1>3, <1>10, LeaseExtended
<1> HIDE DEF v
<1>12. SyncShape(v)
  BY <1>1, <1>11 DEF SyncShape
<1>13. store' = UpsertPullRequestSync(v, k,
                  [old EXCEPT !.pr    = IF pr # 0 THEN pr ELSE old.pr,
                              !.task  = TaskOf(store, pr, l, old.task),
                              !.lease = IF old.lease # 0 THEN old.lease ELSE l,
                              !.files = c.files,
                              !.state = old.state])
  BY <1>9 DEF v
<1>14. calls' \subseteq calls
  BY <1>2
<1> HIDE DEF k, task, pr, x
<1>15. /\ UNCHANGED <<hub, called>> /\ c.repo \in store.repos
       /\ (<<c.repo, c.number>> \in DOMAIN store.prSync) =>
            old.state = SyncOf(store, <<c.repo, c.number>>).state
  BY <1>1, <1>2 DEF k
<1>16. LET key == <<c.repo, c.number>>
           was == SyncOf(store, key)
           i   == FindPullRequest(store, c.repo, c.number)
       IN  store' = UpsertPullRequestSync(v, key,
                      [was EXCEPT !.pr    = IF i # 0 THEN i ELSE was.pr,
                                  !.task  = TaskOf(store, i, l, was.task),
                                  !.lease = IF was.lease # 0 THEN was.lease ELSE l,
                                  !.files = c.files,
                                  !.state = old.state])
  BY <1>13 DEF k, pr
<1> HIDE DEF old
<1> QED
  BY <1>3, <1>6, <1>10, <1>11, <1>12, <1>14, <1>15, <1>16, ResyncSafe

\* The record of a pull request is made once: only its call had not made it.
LEMMA CreatePullRequestReturnsSafe ==
    ASSUME GitInv, NEW c \in calls, CreatePullRequestReturns(c)
    PROVE  GitInv'
<1> DEFINE p     == [repo |-> c.repo, number |-> c.number, task |-> c.task]
           pulls == Append(store.pulls, p)
           m     == Len(store.pulls)
           e     == [repo |-> c.repo, pr |-> Len(pulls), lease |-> c.lease]
           queue == IF c.lease = 0 THEN store.queue ELSE Append(store.queue, e)
<1>1. c.op = "pull" /\ calls' = calls \ {c} /\ UNCHANGED <<hub, called>>
  BY DEF CreatePullRequestReturns
<1>2. /\ StoreShape(store) /\ SyncShape(store) /\ c \in CallType
      /\ SyncedOK(store) /\ SourcesOK(hub.sent, store) /\ MappedOK(store)
      /\ RecordedOnce(hub, store, calls) /\ QueuedOK(store) /\ TypeOK
  BY DEF GitInv, TypeOK
<1>3. p \in PullType /\ KeyOf(p) = KeyOf(c) /\ p.repo = c.repo /\ c.repo \in Repos /\ c.lease \in Nat
  BY <1>1, <1>2 DEF CallType, PullType, KeyOf
<1>4. store' = [repos |-> store.repos, leases |-> store.leases, pulls |-> pulls, queue |-> queue,
                prSync |-> store.prSync, branchSync |-> store.branchSync, events |-> store.events]
  <2>1. CASE c.lease = 0
    <3>1. store' = [store EXCEPT !.pulls = pulls]
      BY <2>1 DEF CreatePullRequestReturns
    <3> HIDE DEF pulls
    <3> QED
      BY <1>2, <2>1, <3>1 DEF StoreShape
  <2>2. CASE c.lease # 0
    <3> HIDE DEF pulls
    <3>1. PICK saved :
            /\ saved = [store EXCEPT !.pulls = pulls]
            /\ store' = [saved EXCEPT !.queue =
                 Append(saved.queue, [repo |-> c.repo, pr |-> Len(saved.pulls), lease |-> c.lease])]
      BY <2>2 DEF CreatePullRequestReturns, pulls
    <3>2. saved = [repos |-> store.repos, leases |-> store.leases, pulls |-> pulls,
                   queue |-> store.queue, prSync |-> store.prSync,
                   branchSync |-> store.branchSync, events |-> store.events]
      BY <1>2, <3>1 DEF StoreShape
    <3>3. saved.pulls = pulls /\ saved.queue = store.queue
      BY <3>2
    <3>4. store' = [saved EXCEPT !.queue = Append(store.queue, e)]
      BY <3>1, <3>3
    <3> HIDE DEF e
    <3> QED
      BY <2>2, <3>2, <3>4
  <2> QED
    BY <2>1, <2>2
<1> HIDE DEF p
<1>5. /\ m \in Nat /\ DOMAIN store.pulls = 1..m
      /\ pulls \in Seq(PullType) /\ Len(pulls) = m + 1 /\ DOMAIN pulls = 1..(m + 1)
      /\ pulls[m + 1] = p /\ \A i \in DOMAIN store.pulls : pulls[i] = store.pulls[i]
  <2>1. /\ pulls \in Seq(PullType) /\ Len(pulls) = m + 1
        /\ pulls[m + 1] = p /\ \A i \in 1..m : pulls[i] = store.pulls[i]
    BY <1>2, <1>3, AppendProperties DEF StoreShape
  <2>2. m \in Nat /\ DOMAIN store.pulls = 1..m
    BY <1>2, LenProperties DEF StoreShape
  <2> HIDE DEF pulls, m
  <2>3. DOMAIN pulls = 1..Len(pulls)
    BY <2>1, LenProperties
  <2> QED
    BY <2>1, <2>2, <2>3
<1>6. e \in EntryType /\ e.repo = c.repo /\ e.pr = m + 1
  BY <1>3, <1>5 DEF EntryType
<1> HIDE DEF pulls, e, m
<1>7. /\ queue \in Seq(EntryType)
      /\ \A i \in DOMAIN queue : (i \in DOMAIN store.queue /\ queue[i] = store.queue[i]) \/ queue[i] = e
  <2>1. /\ Append(store.queue, e) \in Seq(EntryType)
        /\ Len(Append(store.queue, e)) = Len(store.queue) + 1
        /\ Append(store.queue, e)[Len(store.queue) + 1] = e
        /\ \A i \in 1..Len(store.queue) : Append(store.queue, e)[i] = store.queue[i]
    BY <1>2, <1>6, AppendProperties DEF StoreShape
  <2>2. /\ Len(store.queue) \in Nat /\ DOMAIN store.queue = 1..Len(store.queue)
        /\ store.queue \in Seq(EntryType)
    BY <1>2, LenProperties DEF StoreShape
  <2>3. PICK q : q = Append(store.queue, e)
    OBVIOUS
  <2>4. DOMAIN q = 1..Len(q)
    BY <2>1, <2>3, LenProperties
  <2>5. \A i \in DOMAIN q : i \in DOMAIN store.queue \/ i = Len(store.queue) + 1
    BY <2>1, <2>2, <2>3, <2>4
  <2> QED
    BY <2>1, <2>2, <2>3, <2>5
<1> HIDE DEF queue
<1>8. /\ store'.repos = store.repos /\ store'.leases = store.leases
      /\ store'.pulls = pulls /\ store'.queue = queue
      /\ store'.prSync = store.prSync /\ store'.branchSync = store.branchSync
      /\ store'.events = store.events
  BY <1>4
<1>9. StoreShape(store') /\ SyncShape(store')
  BY <1>2, <1>4, <1>5, <1>7, <1>8 DEF StoreShape, SyncShape
<1>10. SyncedOK(store') /\ SourcesOK(hub.sent, store')
  BY <1>2, <1>8 DEF SyncedOK, LatestOK, SourcesOK
<1>11. MappedOK(store')
  BY <1>2, <1>5, <1>8 DEF MappedOK
<1>12. RecordedOnce(hub, store', calls')
  <2>1. \A i \in DOMAIN pulls : i \in DOMAIN store.pulls \/ (pulls[i] = p /\ i = m + 1)
    BY <1>5
  <2>2. KeyOf(c) \in DOMAIN hub.pulls /\ \A i \in DOMAIN store.pulls : KeyOf(store.pulls[i]) # KeyOf(c)
    BY <1>1, <1>2 DEF RecordedOnce
  <2>3. \A i \in DOMAIN pulls : KeyOf(pulls[i]) \in DOMAIN hub.pulls
    BY <1>2, <1>3, <1>5, <2>1, <2>2 DEF RecordedOnce
  <2>4. \A i, j \in DOMAIN pulls : i # j => KeyOf(pulls[i]) # KeyOf(pulls[j])
    BY <1>2, <1>3, <1>5, <2>1, <2>2 DEF RecordedOnce
  <2>5. ASSUME NEW b \in calls', b.op = "pull"
        PROVE  \A i \in DOMAIN pulls : KeyOf(pulls[i]) # KeyOf(b)
    <3>1. b \in calls /\ b # c
      BY <1>1
    <3>2. KeyOf(b) # KeyOf(c) /\ \A i \in DOMAIN store.pulls : KeyOf(store.pulls[i]) # KeyOf(b)
      BY <1>1, <1>2, <2>5, <3>1 DEF RecordedOnce
    <3> QED
      BY <1>3, <1>5, <2>1, <3>2
  <2>6. \A b \in calls' : b.op = "pull" =>
          /\ KeyOf(b) \in DOMAIN hub.pulls
          /\ \A a \in calls' : (a.op = "pull" /\ a # b) => KeyOf(a) # KeyOf(b)
    BY <1>1, <1>2 DEF RecordedOnce
  <2> QED
    BY <1>8, <2>3, <2>4, <2>5, <2>6 DEF RecordedOnce
<1>13. QueuedOK(store')
  <2> SUFFICES ASSUME NEW i \in DOMAIN queue
               PROVE  queue[i].pr \in DOMAIN pulls /\ pulls[queue[i].pr].repo = queue[i].repo
    BY <1>8 DEF QueuedOK
  <2>1. CASE i \in DOMAIN store.queue /\ queue[i] = store.queue[i]
    <3>1. /\ store.queue[i].pr \in DOMAIN store.pulls
          /\ store.pulls[store.queue[i].pr].repo = store.queue[i].repo
      BY <1>2, <2>1 DEF QueuedOK
    <3> QED
      BY <1>5, <2>1, <3>1
  <2>2. CASE queue[i] = e
    BY <1>3, <1>5, <1>6, <2>2
  <2> QED
    BY <1>7, <2>1, <2>2
<1>14. TypeOK'
  BY <1>1, <1>2, <1>9 DEF TypeOK
<1>15. \A b \in calls' : b.repo \in store'.repos
  BY <1>1, <1>8 DEF GitInv
<1> QED
  BY <1>1, <1>10, <1>11, <1>12, <1>13, <1>14, <1>15 DEF GitInv

LEMMA InitSafe == Init => GitInv
<1> SUFFICES ASSUME Init PROVE GitInv
  OBVIOUS
<1>1. /\ hub = [heads |-> <<>>, pulls |-> <<>>, sent |-> {}, pushes |-> 0]
      /\ store = [repos |-> {}, leases |-> <<>>, pulls |-> <<>>, queue |-> <<>>,
                  prSync |-> <<>>, branchSync |-> <<>>, events |-> <<>>]
      /\ calls = {} /\ called = 0
  BY DEF Init
<1>2. DOMAIN <<>> = {}
  OBVIOUS
<1>3. HubOK(hub) /\ SentOK(hub.sent)
  <2>1. \A r \in Repos : NumbersOf(hub, r) = 1..0
    BY <1>1 DEF NumbersOf
  <2>2. Numbered(hub)
    BY <2>1 DEF Numbered
  <2> QED
    BY <1>1, <1>2, <2>2 DEF HubOK, SentOK
<1>4. StoreShape(store) /\ SyncShape(store)
  BY <1>1, <1>2 DEF StoreShape, SyncShape
<1>5. /\ DOMAIN store.prSync = {} /\ DOMAIN store.branchSync = {} /\ DOMAIN store.events = {}
      /\ DOMAIN store.pulls = {} /\ DOMAIN store.queue = {}
  BY <1>1, <1>2
<1>6. SyncedOK(store) /\ SourcesOK(hub.sent, store) /\ MappedOK(store) /\ QueuedOK(store)
  BY <1>5 DEF SyncedOK, SourcesOK, MappedOK, QueuedOK
<1>7. RecordedOnce(hub, store, calls)
  BY <1>1, <1>5 DEF RecordedOnce
<1> QED
  BY <1>1, <1>3, <1>4, <1>6, <1>7 DEF GitInv, TypeOK

LEMMA HostAnswersSafe ==
    ASSUME GitInv, HostAnswers
    PROVE  GitInv'
<1>1. PICK c \in calls : \/ CreateBranchReturns(c) \/ CreatePullRequestReturns(c)
                         \/ RefreshChangedFilesReturns(c) \/ CallFails(c)
  BY DEF HostAnswers
<1>2. CASE CreateBranchReturns(c)
  BY <1>2, CreateBranchReturnsSafe
<1>3. CASE CreatePullRequestReturns(c)
  BY <1>3, CreatePullRequestReturnsSafe
<1>4. CASE RefreshChangedFilesReturns(c)
  BY <1>4, RefreshReturnsSafe
<1>5. CASE CallFails(c)
  BY <1>5, CallFailsSafe
<1> QED
  BY <1>1, <1>2, <1>3, <1>4, <1>5

LEMMA NextSafe ==
    ASSUME GitInv, [Next]_gitVars
    PROVE  GitInv'
<1>1. CASE PostWebhook
  BY <1>1, PostWebhookSafe
<1>2. CASE PostRepo
  BY <1>2, CreateRepoSafe DEF PostRepo
<1>3. CASE PostBranch
  BY <1>3, CreateBranchSafe DEF PostBranch
<1>4. CASE PostPullRequest
  BY <1>4, CreatePullRequestSafe DEF PostPullRequest
<1>5. CASE PostSync
  <2>1. PICK k \in DOMAIN hub.pulls : ManualSyncPullRequest(k[1], k[2])
    BY <1>5 DEF PostSync
  <2>2. k[1] \in Repos /\ k[2] \in Nat
    BY DEF GitInv, TypeOK, HubOK
  <2> QED
    BY <2>1, <2>2, ManualSyncSafe
<1>6. CASE PostRefreshChangedFiles
  BY <1>6, RefreshSafe DEF PostRefreshChangedFiles
<1>7. CASE HostStep
  BY <1>7, HostSafe
<1>8. CASE HostAnswers
  BY <1>8, HostAnswersSafe
<1>9. CASE UNCHANGED gitVars
  BY <1>9 DEF gitVars, GitInv, TypeOK
<1> QED
  BY <1>1, <1>2, <1>3, <1>4, <1>5, <1>6, <1>7, <1>8, <1>9 DEF Next

(***************************************************************************)
(* The theorems                                                            *)
(***************************************************************************)

\* However deliveries, calls, their answers and failures are interleaved, the
\* invariant of the synchronisation holds.
THEOREM GitInvariant == Spec => []GitInv
<1>1. Init => GitInv
  BY InitSafe
<1>2. GitInv /\ [Next]_gitVars => GitInv'
  BY NextSafe
<1> QED
  BY <1>1, <1>2, PTL DEF Spec

\* What SyncPullRequestFromWebhook stored of a pull request is what the delivery
\* processed last said: neither a synchronisation by hand nor the answer to
\* RefreshChangedFiles, which was asked for before, takes it back.
THEOREM SyncFollowsDeliveries == Spec => []SyncMatchesEvent
<1>1. GitInv => SyncMatchesEvent
  <2> SUFFICES ASSUME GitInv, NEW k \in DOMAIN store.prSync
               PROVE  LET s == store.prSync[k]
                      IN  IF SyncingEvents(k) = {} THEN s.source = 0
                          ELSE LET d == store.events[Max(SyncingEvents(k))].delivery
                               IN  s.source = Max(SyncingEvents(k))
                                   /\ <<s.state, s.head, s.sha>> = <<d.state, d.head, d.sha>>
    BY DEF SyncMatchesEvent
  <2>1. SyncingEvents(k) = Syncing(store.events, k)
    BY DEF SyncingEvents, Syncing
  <2>2. LatestOK(store, k)
    BY DEF GitInv, SyncedOK
  <2>3. CASE SyncingEvents(k) = {}
    BY <2>1, <2>2, <2>3 DEF LatestOK
  <2>4. CASE SyncingEvents(k) # {}
    <3> DEFINE I == Syncing(store.events, k)
               n == store.prSync[k].source
    <3>1. n \in I /\ \A j \in I : j <= n
      BY <2>1, <2>2, <2>4 DEF LatestOK
    <3>2. I \subseteq Nat
      <4>1. I \subseteq DOMAIN store.events
        BY DEF Syncing
      <4>2. DOMAIN store.events = 1..Len(store.events)
        BY DEF GitInv, TypeOK, StoreShape
      <4> QED
        BY <4>1, <4>2
    <3> HIDE DEF I, n
    <3>3. Max(I) = n
      <4>1. n \in I /\ \A y \in I : n >= y
        BY <3>1, <3>2
      <4>2. \A x \in I : (\A y \in I : x >= y) => x = n
        BY <3>1, <3>2
      <4> QED
        BY <4>1, <4>2 DEF Max
    <3> QED
      BY <2>1, <2>2, <2>4, <3>3 DEF LatestOK, I, n
  <2> QED
    BY <2>3, <2>4
<1> QED
  BY <1>1, GitInvariant, PTL

\* AdmitDelivery and ProcessDelivery let a delivery synchronise something only if
\* the host sent it, word for word, about a repository that is allowed; one that
\* fails half way, after the state of the pull request is written, leaves none.
THEOREM OnlyGenuineDeliveriesSync == Spec => []SyncFromGenuineEvents
<1>1. GitInv => SyncFromGenuineEvents
  BY DEF GitInv, SourcesOK, Genuine, SyncFromGenuineEvents
<1> QED
  BY <1>1, GitInvariant, PTL

\* FindPullRequest maps a pull request to the record CreatePullRequest made for it,
\* in its own repository, and to the task of that record; the record and its queue
\* entry were made for a pull request the host opened, and only once.
THEOREM PullsAreMapped == Spec => []SyncNamesItsPull
<1>1. GitInv => SyncNamesItsPull
  BY DEF GitInv, MappedOK, RecordedOnce, QueuedOK, KeyOf, SyncNamesItsPull
<1> QED
  BY <1>1, GitInvariant, PTL

=============================================================================
