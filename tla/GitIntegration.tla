--------------------------- MODULE GitIntegration ---------------------------
(***************************************************************************)
(* GitIntegrationService, GitWebhookReceiverService and GitHubSyncService  *)
(* with the git host. Branches and pull requests are created at the host   *)
(* and recorded when its answer arrives; the host sends signed deliveries  *)
(* about everything that happens there, and they arrive late, in any       *)
(* order, more than once or never. A delivery may be about something whose *)
(* creation has not been recorded yet.                                     *)
(*                                                                         *)
(* Audit events are append-only copies of what the actions do and are left *)
(* out, and so are titles, labels and base branches. The conflict risk the *)
(* queue entry starts with belongs to ConflictManager.                     *)
(***************************************************************************)
EXTENDS GitGates, SequencesExt

CONSTANTS
    Repos,           \* repositories at the host
    Branches,        \* branch names; the ones in AiBranches have the allowed prefix
    AiBranches,
    Tasks,
    Files,
    Endings,         \* how pull requests end: "closed", "merged"
    Env,             \* the environment the service was started with
    MaxPushes,       \* pushes at the host
    MaxPulls,        \* pull requests at the host, by repository
    MaxReceived,     \* deliveries received
    MaxRejected,     \* of them, deliveries without effect
    MaxCalls         \* calls of the service that reach the host

ASSUME GitAssumption ==
    /\ AiBranches \subseteq Branches
    /\ Endings \subseteq {"closed", "merged"}
    /\ {MaxPushes, MaxPulls, MaxReceived, MaxRejected, MaxCalls} \subseteq Nat

VARIABLES
    hub,             \* [heads, pulls, sent, pushes]: the host
    store,           \* [repos, leases, pulls, queue, prSync, branchSync, events]
    calls,           \* calls that wait for the host's answer
    called           \* how many there have been

gitVars == <<hub, store, calls, called>>

None == "none"

Config  == CreateGitProviderFromEnv(Env)
Webhook == CreateGitHubWebhookRuntimeFromEnv(Env)

(* The decisions of the gates depend on the configuration alone.           *)
GitOp(op, repo, branch) ==
    [op |-> op, repo |-> repo, prefixOk |-> branch \in AiBranches, localPath |-> FALSE]

MayCreate ==
    [op \in {"branch_create", "pull_request_create"} |-> [r \in Repos |-> [b \in Branches |->
        /\ CreateAllowed(Config, GitOp(op, r, b))
        /\ ProviderAccepts(Config, GitOp(op, r, b)) /\ HasClient(Config)]]]

MayReadFiles ==
    [r \in Repos |->
        /\ RefreshPolicy(Config, WebhookRepoAllowed(Webhook, r))
        /\ ChangedFilesAllowed(Config, GitOp("changed_files", r, ""))
        /\ ProviderAccepts(Config, GitOp("changed_files", r, "")) /\ HasClient(Config)]

WebhookVerdict ==
    [action \in {"git.webhook.verify", "git.webhook.receive", "git.webhook.process"} |->
        [verified \in BOOLEAN |-> [r \in Repos |-> WebhookPolicy(Webhook, action, verified, r)]]]

MayManualSync == [r \in Repos |-> SyncPolicy(Webhook, "git.pull_request.sync", "pull_request", r)]

MayBranchSync == [r \in Repos |-> SyncPolicy(Webhook, "git.branch.sync", "branch", r)]

With(map, key, value) ==
    [k \in DOMAIN map \cup {key} |-> IF k = key THEN value ELSE map[k]]

-----------------------------------------------------------------------------
(* The host. A delivery is a snapshot, taken when the host sent it.        *)

PullDelivery(action, repo, n, p) ==
    [type |-> "pull_request", action |-> action, repo |-> repo, number |-> n,
     head |-> p.head, sha |-> p.sha, state |-> p.state, exists |-> TRUE]

PushDelivery(repo, branch, sha, exists) ==
    [type |-> "push", action |-> None, repo |-> repo, number |-> 0,
     head |-> branch, sha |-> sha, state |-> None, exists |-> exists]

NumbersOf(h, repo) == {k[2] : k \in {q \in DOMAIN h.pulls : q[1] = repo}}

OpenPulls(h, repo, branch) ==
    {k \in DOMAIN h.pulls : k[1] = repo /\ h.pulls[k].head = branch /\ h.pulls[k].state = "open"}

HubOpenPull(h, repo, branch) ==
    LET n == Cardinality(NumbersOf(h, repo)) + 1
        p == [head |-> branch, sha |-> h.heads[<<repo, branch>>], state |-> "open", files |-> {}]
    IN  [h EXCEPT !.pulls = With(@, <<repo, n>>, p),
                  !.sent  = @ \cup {PullDelivery("opened", repo, n, p)}]

\* Somebody pushes to a branch, new or old, which may belong to an open pull request.
HubPush(repo, branch) ==
    /\ hub.pushes < MaxPushes
    /\ \E f \in Files :
         LET sha   == hub.pushes + 1
             open  == OpenPulls(hub, repo, branch)
             pulls == [k \in DOMAIN hub.pulls |->
                         IF k \in open
                         THEN [hub.pulls[k] EXCEPT !.sha = sha, !.files = @ \cup {f}]
                         ELSE hub.pulls[k]]
         IN  hub' = [hub EXCEPT !.pushes = sha, !.pulls = pulls, !.heads = With(@, <<repo, branch>>, sha),
                                !.sent = @ \cup {PushDelivery(repo, branch, sha, TRUE)}
                                         \cup {PullDelivery("synchronize", repo, k[2], pulls[k]) : k \in open}]
    /\ UNCHANGED <<store, calls, called>>

\* Somebody closes or merges a pull request, or opens one by hand.
HubClose(k, state) ==
    /\ k \in DOMAIN hub.pulls /\ hub.pulls[k].state = "open"
    /\ LET p == [hub.pulls[k] EXCEPT !.state = state]
       IN  hub' = [hub EXCEPT !.pulls[k] = p,
                              !.sent = @ \cup {PullDelivery("closed", k[1], k[2], p)}]
    /\ UNCHANGED <<store, calls, called>>

HubOpen(repo, branch) ==
    /\ <<repo, branch>> \in DOMAIN hub.heads /\ OpenPulls(hub, repo, branch) = {}
    /\ Cardinality(NumbersOf(hub, repo)) < MaxPulls
    /\ hub' = HubOpenPull(hub, repo, branch)
    /\ UNCHANGED <<store, calls, called>>

-----------------------------------------------------------------------------
(* Lookups of the synchronisation.                                         *)

\* MUTANT: pull requests are looked up by number alone.
FindPullRequestAnyRepo(s, repo, n) ==
    IF repo \notin s.repos THEN 0
    ELSE SelectInSeq(s.pulls, LAMBDA p : p.number = n)

FindPullRequest(s, repo, n) ==
    IF repo \notin s.repos THEN 0
    ELSE SelectInSeq(s.pulls, LAMBDA p : p.repo = repo /\ p.number = n)

FindBranchLease(s, repo, head, pr) ==
    IF repo \notin s.repos THEN 0
    ELSE SelectInSeq(s.leases, LAMBDA l : /\ l.repo = repo /\ l.branch = head
                                         /\ (pr = 0 \/ l.task = s.pulls[pr].task))

FindMergeQueueEntry(s, repo, pr, lease) ==
    IF repo \notin s.repos THEN 0
    ELSE SelectInSeq(s.queue, LAMBDA e : /\ e.repo = repo
                                        /\ \/ pr # 0 /\ e.pr = pr
                                           \/ lease # 0 /\ e.lease = lease)

TaskOf(s, pr, lease, default) ==
    IF pr # 0 THEN s.pulls[pr].task
    ELSE IF default # None THEN default
    ELSE IF lease # 0 THEN s.leases[lease].task ELSE None

NoSync == [state |-> "unknown", head |-> "unknown", sha |-> 0, files |-> {}, pr |-> 0,
           task |-> None, lease |-> 0, entry |-> 0, source |-> 0]

SyncOf(s, k) == IF k \in DOMAIN s.prSync THEN s.prSync[k] ELSE NoSync

UpsertPullRequestSync(s, k, state) == [s EXCEPT !.prSync = With(@, k, state)]

UpsertBranchSync(s, repo, branch, sha, exists, source) ==
    [s EXCEPT !.branchSync =
        With(@, <<repo, branch>>, [sha |-> sha, exists |-> exists, source |-> source])]

ExtendLease(s, lease, files) ==
    IF lease = 0 THEN s ELSE [s EXCEPT !.leases[lease].files = @ \cup files]

-----------------------------------------------------------------------------
(* Receiving a delivery. The handler does not wait for anything once it    *)
(* has read the body, so it is one step.                                   *)

\* Events are kept in the order they were received. An event is a delivery's outcome;
\* which delivery it was is kept for the properties while the event can have an effect.
NoDelivery == <<>>

RecordEvent(s, d, signed, status) ==
    [s EXCEPT !.events = Append(@, [delivery |-> IF status = "rejected" THEN NoDelivery ELSE d,
                                    signed |-> signed, status |-> status])]

Settled(e, status) ==
    [delivery |-> IF status = "processed" THEN e.delivery ELSE NoDelivery,
     signed   |-> e.signed,
     status   |-> status]

SetStatus(s, status) == [s EXCEPT !.events[Len(s.events)] = Settled(@, status)]

\* MUTANT: a branch is only synchronised when its repository is in the store.
BranchSyncKnownOnly(s, repo) == repo \in s.repos /\ MayBranchSync[repo]

BranchSyncAllowed(s, repo) == MayBranchSync[repo]

\* A policy that refuses throws after the state of the pull request is written.
SyncBranchState(s, d, source) ==
    IF BranchSyncAllowed(s, d.repo)
    THEN SetStatus(UpsertBranchSync(s, d.repo, d.head, d.sha, d.exists, source), "processed")
    ELSE SetStatus(s, "failed")

SyncPullRequestFromWebhook(s, d) ==
    LET k      == <<d.repo, d.number>>
        pr     == FindPullRequest(s, d.repo, d.number)
        lease  == FindBranchLease(s, d.repo, d.head, pr)
        files  == SyncOf(s, k).files
        source == Len(s.events)
        synced == UpsertPullRequestSync(ExtendLease(s, lease, files), k,
                    [state |-> d.state, head |-> d.head, sha |-> d.sha, files |-> files,
                     pr |-> pr, task |-> TaskOf(s, pr, lease, None), lease |-> lease,
                     entry |-> FindMergeQueueEntry(s, d.repo, pr, lease), source |-> source])
    IN  IF d.number < 1 THEN SetStatus(s, "failed") ELSE SyncBranchState(synced, d, source)

SyncBranchFromPushWebhook(s, d) ==
    IF d.head = "tag" THEN SetStatus(s, "failed") ELSE SyncBranchState(s, d, Len(s.events))

DispatchEvent(s, d) ==
    CASE d.type = "pull_request" /\ d.action \in {"opened", "synchronize", "reopened", "closed"} ->
            SyncPullRequestFromWebhook(s, d)
      [] d.type = "push" -> SyncBranchFromPushWebhook(s, d)
      [] OTHER           -> SetStatus(s, "processed")

KnownEvents == {"ping", "pull_request", "push"}

\* The delivery is verified and admitted.
ProcessDelivery(s, d) ==
    IF d.type \notin KnownEvents THEN SetStatus(s, "ignored")
    ELSE IF ~WebhookVerdict["git.webhook.process"][TRUE][d.repo] THEN SetStatus(s, "rejected")
    ELSE DispatchEvent(s, d)

AdmitDelivery(s, d, signature) ==
    LET verified == Verify(Webhook, d, signature)
        admitted == /\ verified
                    /\ WebhookVerdict["git.webhook.verify"][verified][d.repo]
                    /\ WebhookVerdict["git.webhook.receive"][verified][d.repo]
    IN  IF ~WebhookRepoAllowed(Webhook, d.repo) THEN RecordEvent(s, d, FALSE, "rejected")
        ELSE IF admitted THEN ProcessDelivery(RecordEvent(s, d, TRUE, "verified"), d)
        ELSE RecordEvent(s, d, verified, "rejected")

\* What arrives: something the host sent, or a body nobody signed.
Forged(d) == [d EXCEPT !.state = "merged", !.exists = ~@]

Untracked(repo, type) == [PushDelivery(repo, None, 0, TRUE) EXCEPT !.type = type]

NumberlessPull == [head |-> None, sha |-> 0, state |-> "open"]

OtherDeliveries ==
    {Untracked(r, type) : r \in Repos, type \in {"ping", "issues"}}
    \cup {PushDelivery(r, "tag", 0, TRUE) : r \in Repos}
    \cup {PullDelivery(a, r, 0, NumberlessPull) : r \in Repos, a \in {"opened", "labeled"}}

WithinRejected(events) ==
    Cardinality({i \in DOMAIN events : events[i].status # "processed"}) <= MaxRejected

ReceiveGitHubWebhook(d, signature) ==
    /\ Webhook.enabled /\ Webhook.secret
    /\ Len(store.events) < MaxReceived
    /\ store' = AdmitDelivery(store, d, signature)
    /\ WithinRejected(store'.events)
    /\ UNCHANGED <<hub, calls, called>>

\* A body that is not JSON, or a request without the event or delivery header.
ReceiveMalformedWebhook ==
    /\ Webhook.enabled /\ Webhook.secret
    /\ Len(store.events) < MaxReceived
    /\ store' = RecordEvent(store, NoDelivery, FALSE, "rejected")
    /\ WithinRejected(store'.events)
    /\ UNCHANGED <<hub, calls, called>>

-----------------------------------------------------------------------------
(* Requests.                                                               *)

CreateRepo(repo) ==
    /\ repo \notin store.repos
    /\ store' = [store EXCEPT !.repos = @ \cup {repo}]
    /\ UNCHANGED <<hub, calls, called>>

BeginCall(c) == calls' = calls \cup {c} /\ called' = called + 1

\* The host has created the branch; the answer is on its way.
CreateBranch(repo, branch, task) ==
    /\ called < MaxCalls
    /\ repo \in store.repos
    /\ MayCreate["branch_create"][repo][branch]
    /\ <<repo, branch>> \notin DOMAIN hub.heads
    /\ hub' = [hub EXCEPT !.heads = With(@, <<repo, branch>>, 0),
                          !.sent = @ \cup {PushDelivery(repo, branch, 0, TRUE)}]
    /\ BeginCall([op |-> "branch", repo |-> repo, branch |-> branch, task |-> task, id |-> called])
    /\ UNCHANGED store

CreateBranchReturns(c) ==
    /\ c \in calls /\ c.op = "branch"
    /\ store' = [store EXCEPT !.leases =
                    Append(@, [repo |-> c.repo, branch |-> c.branch, task |-> c.task, files |-> {}])]
    /\ calls' = calls \ {c}
    /\ UNCHANGED <<hub, called>>

CreatePullRequest(repo, branch, task, lease) ==
    /\ called < MaxCalls
    /\ repo \in store.repos
    /\ MayCreate["pull_request_create"][repo][branch]
    /\ <<repo, branch>> \in DOMAIN hub.heads /\ OpenPulls(hub, repo, branch) = {}
    /\ Cardinality(NumbersOf(hub, repo)) < MaxPulls
    /\ hub' = HubOpenPull(hub, repo, branch)
    /\ BeginCall([op |-> "pull", repo |-> repo, branch |-> branch, task |-> task, lease |-> lease,
                  number |-> Cardinality(NumbersOf(hub, repo)) + 1, id |-> called])
    /\ UNCHANGED store

\* The pull request is stored and, for the run of a task, queued.
CreatePullRequestReturns(c) ==
    /\ c \in calls /\ c.op = "pull"
    /\ LET saved == [store EXCEPT !.pulls =
                        Append(@, [repo |-> c.repo, number |-> c.number, task |-> c.task])]
       IN  store' = IF c.lease = 0 THEN saved
                    ELSE [saved EXCEPT !.queue =
                            Append(@, [repo |-> c.repo, pr |-> Len(saved.pulls), lease |-> c.lease])]
    /\ calls' = calls \ {c}
    /\ UNCHANGED <<hub, called>>

ManualSyncPullRequest(repo, n) ==
    LET k     == <<repo, n>>
        old   == SyncOf(store, k)
        pr    == FindPullRequest(store, repo, n)
        lease == IF k \in DOMAIN store.prSync THEN FindBranchLease(store, repo, old.head, pr) ELSE 0
    IN  /\ repo \in store.repos
        /\ MayManualSync[repo]
        /\ store' = UpsertPullRequestSync(store, k,
                [old EXCEPT !.pr    = IF pr # 0 THEN pr ELSE @,
                            !.task  = TaskOf(store, pr, lease, @),
                            !.lease = IF @ # 0 THEN @ ELSE lease,
                            !.state = IF k \in DOMAIN store.prSync \/ pr = 0 THEN @ ELSE "open"])
        /\ UNCHANGED <<hub, calls, called>>

\* The files are read at the host; the answer is on its way.
RefreshChangedFiles(repo, n) ==
    /\ called < MaxCalls
    /\ repo \in store.repos
    /\ MayReadFiles[repo]
    /\ <<repo, n>> \in DOMAIN hub.pulls
    /\ BeginCall([op |-> "files", repo |-> repo, number |-> n, files |-> hub.pulls[<<repo, n>>].files,
                  seen |-> SyncOf(store, <<repo, n>>), id |-> called])
    /\ UNCHANGED <<hub, store>>

\* MUTANT: the state is the one read before the call.
SyncBeforeRefresh(s, c) == c.seen

\* The state of the pull request is read after the host's answer, not before the call.
SyncAtRefresh(s, c) == SyncOf(s, <<c.repo, c.number>>)

RefreshChangedFilesReturns(c) ==
    /\ c \in calls /\ c.op = "files"
    /\ LET k     == <<c.repo, c.number>>
           old   == SyncAtRefresh(store, c)
           pr    == FindPullRequest(store, c.repo, c.number)
           lease == IF k \in DOMAIN store.prSync THEN FindBranchLease(store, c.repo, old.head, pr) ELSE 0
       IN  store' = UpsertPullRequestSync(ExtendLease(store, lease, c.files), k,
                        [old EXCEPT !.pr    = IF pr # 0 THEN pr ELSE @,
                                    !.task  = TaskOf(store, pr, lease, @),
                                    !.lease = IF @ # 0 THEN @ ELSE lease,
                                    !.files = c.files])
    /\ calls' = calls \ {c}
    /\ UNCHANGED <<hub, called>>

\* The host refuses or cannot be reached; what it may have done stays done.
CallFails(c) ==
    /\ c \in calls
    /\ calls' = calls \ {c}
    /\ UNCHANGED <<hub, store, called>>

-----------------------------------------------------------------------------
Init ==
    /\ hub    = [heads |-> <<>>, pulls |-> <<>>, sent |-> {}, pushes |-> 0]
    /\ store  = [repos |-> {}, leases |-> <<>>, pulls |-> <<>>, queue |-> <<>>,
                 prSync |-> <<>>, branchSync |-> <<>>, events |-> <<>>]
    /\ calls  = {}
    /\ called = 0

(* The routes of the API.                                                  *)
PostWebhook ==
    \/ \E d \in hub.sent \cup OtherDeliveries : ReceiveGitHubWebhook(d, <<d>>)
    \/ \E d \in hub.sent : ReceiveGitHubWebhook(Forged(d), <<d>>) \/ ReceiveGitHubWebhook(Forged(d), <<>>)
    \/ ReceiveMalformedWebhook

PostRepo == \E r \in Repos : CreateRepo(r)

PostBranch == \E r \in Repos, b \in Branches, t \in Tasks : CreateBranch(r, b, t)

PostPullRequest ==
    \E r \in Repos, b \in Branches, t \in Tasks, l \in {0} \cup DOMAIN store.leases :
        CreatePullRequest(r, b, t, l)

PostSync == \E k \in DOMAIN hub.pulls : ManualSyncPullRequest(k[1], k[2])

PostRefreshChangedFiles == \E k \in DOMAIN hub.pulls : RefreshChangedFiles(k[1], k[2])

HostStep ==
    \/ \E r \in Repos, b \in Branches : HubPush(r, b) \/ HubOpen(r, b)
    \/ \E k \in DOMAIN hub.pulls, state \in Endings : HubClose(k, state)

HostAnswers ==
    \E c \in calls : \/ CreateBranchReturns(c) \/ CreatePullRequestReturns(c)
                     \/ RefreshChangedFilesReturns(c) \/ CallFails(c)

Next ==
    \/ PostWebhook \/ PostRepo \/ PostBranch \/ PostPullRequest \/ PostSync
    \/ PostRefreshChangedFiles \/ HostStep \/ HostAnswers

Spec == Init /\ [][Next]_gitVars

-----------------------------------------------------------------------------
(* Properties.                                                             *)

SyncingEvents(k) ==
    {i \in DOMAIN store.events :
        LET e == store.events[i]
        IN  /\ e.status = "processed" /\ e.delivery.type = "pull_request"
            /\ e.delivery.action # "labeled" /\ <<e.delivery.repo, e.delivery.number>> = k}

(* What is known of a pull request is what the delivery processed last     *)
(* said, however manual synchronisations and refreshes of its files, which *)
(* wait for the host in between, are interleaved with deliveries.          *)
SyncMatchesEvent ==
    \A k \in DOMAIN store.prSync :
        LET s == store.prSync[k]
        IN  IF SyncingEvents(k) = {} THEN s.source = 0
            ELSE LET d == store.events[Max(SyncingEvents(k))].delivery
                 IN  s.source = Max(SyncingEvents(k))
                     /\ <<s.state, s.head, s.sha>> = <<d.state, d.head, d.sha>>

(* A delivery has an effect only if the host sent it, word for word, about *)
(* a repository that is allowed: every synchronised state comes from such  *)
(* a delivery that was processed, and none from one that failed half way.  *)
SyncFromGenuineEvents ==
    LET sources == ({store.prSync[k].source : k \in DOMAIN store.prSync} \ {0})
                   \cup {store.branchSync[k].source : k \in DOMAIN store.branchSync}
    IN  \A i \in sources :
          LET e == store.events[i]
          IN  /\ e.status = "processed" /\ e.signed
              /\ e.delivery \in hub.sent
              /\ WebhookRepoAllowed(Webhook, e.delivery.repo)

(* A pull request is mapped to the record made for it and to the task of   *)
(* that record, in its own repository; the record and the queue entry were *)
(* made for a pull request the host really opened, and only once.          *)
SyncNamesItsPull ==
    /\ \A k \in DOMAIN store.prSync :
         LET s == store.prSync[k]
         IN  (s.pr # 0) => LET p == store.pulls[s.pr]
                           IN  <<p.repo, p.number>> = k /\ p.task = s.task
    /\ \A i, j \in DOMAIN store.pulls :
         /\ <<store.pulls[i].repo, store.pulls[i].number>> \in DOMAIN hub.pulls
         /\ (i # j) => <<store.pulls[i].repo, store.pulls[i].number>> #
                       <<store.pulls[j].repo, store.pulls[j].number>>
    /\ \A i \in DOMAIN store.queue : store.pulls[store.queue[i].pr].repo = store.queue[i].repo

=============================================================================
