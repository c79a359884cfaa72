# GoJet in TLA+

GoJet is a link platform: short links with risk-checked redirects, click
analytics, QR codes, file and text sharing, bio pages, custom domains, billing,
workspaces, support and an admin console. It is a set of Go services over one
MySQL database and one Redis. This directory holds TLA+ models of the parts
whose correctness depends on the order in which things happen, the TLC runs
that check them, and TLAPS proofs of what matters most.

## 1. Inventory

Services (`services/*`) and the packages (`internal/*`) that carry their logic.

| Component | State | Operations | Talks to | What is hard |
|---|---|---|---|---|
| links (`internal/links`) | `links`, `link_versions`, `link_audit_events` | create, PATCH, bulk pause/activate/delete, restore, claim | domains (authority in the same transaction), analytics (outbox) | optimistic versions across two-request edits; click limits under concurrency; restore |
| redirect engine (`services/redirectengine`, `internal/links/redirect_http.go`) | request locals; risk decisions and password counters in Redis | lookup, risk check, target selection, password, claim, publish, 302 | link store, Redis | snapshot taken at lookup is used after edits, expiry, domain loss |
| click analytics (`internal/analytics`, `services/analyticsworker`, `services/analyticsreconciler`) | `analytics_outbox`, `analytics_events`, `analytics_aggregates`, completeness; Redis stream and consumer group | publish, mark, consume, persist, ack, recover, reconcile | redirect engine | at-least-once delivery made exactly-once; crashes between any two writes |
| files (`internal/files`, `services/platformapi/cmd/fileworker`) | files, scan jobs, storage objects | upload, scan with leases, deliver, delete | clamav | a verdict for old bytes; expired leases; delivery racing a verdict |
| trust (`internal/trust`) | inspections, decisions, overrides, policies, abuse actions, Redis projection | inspect with leases, override, project | links, domains | stale projection, duplicate inspection |
| domains (`internal/domains`) | four axes per domain, entitlements, revalidations | register, verify, revalidate, grace, suspend, restore | links, billing | axes change independently; grace deadlines |
| billing (`internal/billing`) | orders, intents, callbacks, entitlements | order, pay, callback, downgrade | payment providers | duplicate, late and conflicting callbacks |
| auth (`internal/auth`) | sessions, codes, OAuth handoffs, rate limits | login, verify, recover | mail, Turnstile | one-time codes used twice |
| workspace (`internal/workspace`) | members, invitations, notifications | invite, accept, change role | auth | last owner, invitation replay |
| support (`internal/support`) | tickets, mail queue, attachments | reply, send with leases | mail | mail sent twice or never |
| admin (`internal/admin`) | webhooks, API keys, audit, governance | deliver with retries, rotate, approve | all | idempotency keys, delivery leases |
| text, bio, qr (`internal/text`, `internal/bio`, `internal/qr`) | shares, pages, codes | publish, read once, version | links | read-once under concurrency |
| logging (`internal/logging`, `services/logreceiver`) | log files | append | all | pure I/O |

### How the components interact

Everything durable is in MySQL, and a component sees another one either inside a
transaction (links ask the domain authority in the transaction that assigns an
address or counts a click; billing writes entitlements that domains and quotas
read), through Redis (trust writes risk decisions that the redirect engine
reads; the redirect engine appends clicks that the analytics worker reads;
password attempts, webhook leases), or through the storage of files. None of
these media shares a transaction with another. The services are independent
processes, several copies of each may run, and each ends at any point.

```
 editors --PATCH/bulk/restore--> links (MySQL) <--authority-- domains <-- billing
                                   |  ^
             lookup / claim+outbox |  | 302
                                   v  |
 trust worker --risk:link:*--> redirect engine --XADD--> stream --> analytics worker
   (Redis projection)              |                                     |
                                   +--outbox row--> reconciler --XADD----+--> events,
                                                                              aggregates
 uploads --> files (rows in MySQL | bytes in two directories) <--lease-- file worker
                        ^-- admin file operations (rows only)
```

### What is hard here

* **Decisions on data read earlier.** Almost every handler reads a row, does
  something slow, and commits a transaction that may find another row.
* **Effects that no transaction spans.** A click, its stream message and the mark
  on its outbox row; the bytes of a file and its row; a decision in MySQL and its
  projection in Redis.
* **Leases.** File scans, risk scans, mail jobs and webhook deliveries are claimed
  for a time that the claimant may outlive.
* **Totals read at different moments.** Completeness of analytics, quotas.

`PROJECT.json` lists these hazards one by one at the line where they bite, with the
properties that cover them, or the reason why none does.

## 2. Modules

| Module | Models | Composed with |
|---|---|---|
| `LinkStore` | tables of links, two-request edits, claim, domain readiness | |
| `RedirectEngine` | the public redirect handler as a program of one action per call | extends `LinkStore` |
| `GuardedRedirect` | the redirect engine with the authority that decides for one of its links | extends `RedirectEngine`, instance of `RiskAuthority` |
| `ClickCounting` | abstract promise: an accepted click is counted at most once | |
| `ClickAnalytics` | redirect handler after the claim, stream group, workers, reconciler, reports | implements `ClickCounting` |
| `FileLifecycle` | rows, scan attempts and bytes of files; handlers, workers, administrators | |
| `RiskPolicy` | what a policy makes of an observation | |
| `RiskDecisions` | abstract promise: a log with at most one decision per scan | extends `RiskPolicy` |
| `RiskScan` | the queue of destination scans, its leases and monitors | implements `RiskDecisions` |
| `RiskAuthority` | overrides, abuse reports, holds, the projection to Redis | extends `RiskDecisions` |
| `Billing` | orders, payment callbacks, subscriptions, downgrades, plan sources | |
| `CustomDomain` | the axes of one domain, checks in flight, suspensions, evaluations | |
| `MailQueue` | mail jobs, attempts, workers, the dispatch switch | |
| `WebhookDelivery` | deliveries, Redis leases, monitors | |
| `AccountAccess` | accounts, one-time codes, sessions, sign-in through a provider | |
| `Workspace` | members, roles, invitations | |
| `QuotaCounter` | abstract promise: a counter equals what lives and never passes the quota | |
| `TextShare`, `BioPage` | text shares; Bio pages with risk statuses copied from Redis | implement `QuotaCounter` |
| `AdminConsole` | sign-in with lock and second factor, idempotent mutations | |
| `SupportTickets` | tickets and the commits a request on a ticket is made of | |
| `MCLinkStore`, `MCRedirectEngine`, `MCClickAnalytics`, `MCFileLifecycle`, `MCWorkers`, `MCDeliveries`, `MCRequests`, `MCWebhookDelivery` | instances for TLC | |
| `LinkStoreProofs`, `ClickAnalyticsProofs`, `FileLifecycleProofs` | theorems about the module of that name | |
| `AuthorityProofs` | theorems about `RiskAuthority` | |
| `RedirectEngineProofs` | theorems about `RedirectEngine` and `GuardedRedirect` | uses `LinkStoreProofs`, an instance of `AuthorityProofs` |
| `BillingDomainProofs` | theorems about `Billing` and `CustomDomain` | |
| `QueueProofs` | theorems about `MailQueue`, `WebhookDelivery` and `RiskScan` | |
| `RequestProofs` | theorems about `AccountAccess`, `Workspace`, `TextShare`, `BioPage`, `AdminConsole`, `SupportTickets` | |

Operators whose comment starts with "Bug:" are never used by a specification.
They are plausible mistakes: each property is accompanied by one, and putting it
in the place of the right definition makes TLC find the property violated.

### 2.1 LinkStore

| Model | Code |
|---|---|
| `row[l]` | a row of `links`: contents, status, `deleted_at` (`gone`), version, `click_count` |
| `history[l]` | `link_versions` of the link, in order of version |
| `outbox` | `analytics_outbox`: one event per accepted click |
| `domain[a]` | the answer of the custom-domain authority: ready, in downgrade grace, off |
| `seen[e][l]` | the version that the client last received (the next `expected_version`) |
| `op[e]` | the write that PATCH or the bulk endpoint carries from its read to its transaction |

`Create`, `Delete` and `Restore` are one transaction each in the code and one
action here. PATCH (`updateLink`) and pause/activate (`SetStatus`) read the row
first and call `Update` afterwards, so they are `BeginUpdate` or `BeginSetStatus`
followed by `CommitUpdate` or `RefuseUpdate`, with anything in between. The
difference between the two reads is in the code: `updateLink` compares the version
with the client's before it goes on, `SetStatus` does not. `Claim` is
`ClaimRedirectAccessCurrentAuthorityWithAnalytics`: the count, the outbox row and
all checks in one transaction.

Data: a set of targets stands for its risk fingerprint (a hash of the sorted
targets that a redirect can reach), an address for the pair (hostname, code), which
has a unique key that deleted rows keep occupying. `history[l][n].base` (the version
whose contents the writer had in hand) and the version and targets in an event are
history variables. The constant `Guess` says whether a client may send an
`expected_version` that no response ever gave it.

### 2.2 RedirectEngine

A request goes from `risk` to `access` and `verify` (links with a password), `claim`
and `send`; `Drop` is every safety page, error and crash. The request keeps the
snapshot of `Lookup`. `ResolveRisk` reads the decision for the snapshot's fingerprint
from Redis, `CountAttempt` and `AcceptPassword` are the Redis password limiter,
`ClaimAccess` is `Claim` with the snapshot's version and fingerprint. Around it,
`PutDecision`, `LoseDecision` and `EndAttemptWindow` change Redis as the trust
service, expiry and eviction do, and `Tick` is the clock. `sent` (responses with a
destination) is a history variable, and so is the field `granted` of a request and of
its response: the target sets of the link for which an allow that had not run out was in
Redis at the instant of `ResolveRisk`, whatever the handler makes of them. The trust
service may decide anything at any time about a fingerprint the link has or had: the
properties of the redirect do not depend on what trust decides.

### 2.3 ClickAnalytics

| Model | Code |
|---|---|
| `outbox[e]`, `handler[e]` | `published_at` of the row; where the handler is: XADD, mark, done |
| `stream`, `delivered`, `pel[w]` | the Redis stream, the group's last delivered id, each consumer's pending entries |
| `worker[w]` | the rest of the batch in the worker's loop |
| `events`, `clicks` | `analytics_events`, `analytics_hourly_aggregates` |
| `recon`, `status` | where `runCycle` is and the totals it has read; `analytics_workspace_state` |
| `report` | a `QueryReport` between reading the status and reading the events |
| `faults` | failed calls and crashes so far |

The handler publishes and marks after the claim and ignores errors. A worker first
reads its own pending entries, then new messages; per message it persists (one
transaction: INSERT IGNORE, and the aggregate only for a new row) and acknowledges;
an error skips the message and leaves it pending. A failing call may or may not have
taken effect. The reconciler recovers at most `RecoverLimit` rows, repairs aggregates
in one serializable transaction when that is enabled, reads three totals in three
queries, and writes the status of the workspaces. One workspace is modelled; the code
compares totals over all workspaces, which is the same with one.

### 2.4 FileLifecycle

| Model | Code |
|---|---|
| `state`, `generation`, `published`, `deleted` | columns of `files` |
| `password`, `limit`, `downloads` | the share's policy and its download count |
| `status[f][g]`, `holder[f]`, `lapsed` | `file_scan_attempts`; the claim token; claims older than the lease |
| `active` | `file_workspace_counters.active_count` |
| `place[f]` | in which directory the bytes are |
| `job[w]` | a worker between claim, open, return, reopen, scan and completion |
| `request[h]` | a handler between two calls to the storage or the database |

A system call on the storage is an action and so is a transaction. The order in the code is kept: upload
writes bytes before the row; publish moves bytes before it marks the row and moves them back when it is
refused; rescan withdraws bytes before it starts a generation and publishes them again when it is
refused; delete marks the row before it removes bytes from either directory; download opens bytes before
it reserves. The commit of an upload, of a publication and of a rescan may take effect although the
handler is told an error (`CreateUnanswered`, `MarkUnanswered`, `RescanUnanswered`): the handler then
cleans up as after any error. `unanswered` keeps, as history, the files whose upload ended so, whose
bytes the handler removes. Administrators change rows only. The worker's name stands for its random claim
token: a worker has one job at a time and forgets the token with the job. Expiry and retention dates are
left out (they refuse where the limit refuses). Previews and listings read only.

### 2.5 RiskScan and RiskAuthority

| Model | Code |
|---|---|
| `scans` | `destination_risk_scans`: status, attempts, lease owner, whether the lease is over |
| `observed` | `destination_risk_provider_observations`, one provider |
| `verdicts` | `destination_risk_verdicts`, which is the log of `RiskDecisions` |
| `monitor[w]` | what an operations monitor is doing between two transactions |
| `linkFp` | `links.risk_fingerprint` of the one link |
| `stale` | the allow decisions whose validity is over |
| `overrides`, `report`, `hold` | `destination_risk_overrides`, `abuse_reports`, `abuse_resource_holds` |
| `blocking` | the report whose block is in Redis and whose transaction, which holds the link's row, has not committed |
| `runtime` | the Redis keys `risk:link:<id>:<fingerprint>` |
| `projection[p]` | what a projector has read: candidate, hold, then the write |

A monitor leases, asks the provider, records and decides; the lease may end while it
waits, another monitor takes the scan, and either may come back first. Recording compares
the status of the scan, not the owner of the lease, and keeps the first observation: that
is what makes the second monitor harmless. A projection reads the decision and the
override, then the hold, then writes Redis, with no lock around the three. Blocking the link of a
report writes Redis inside its transaction (`abuse_action.go:209`, commit at 218): `BlockLink` is the
write, `CommitBlock` or `AbortBlock` the end, with projections and lost keys in between; an editor of
the link, another block and a release wait for its row. A block of a report that is already blocked
reads the row, commits, and only then writes Redis: `RepeatBlock` hands that write to a projector.

`GuardedRedirect` puts this authority in the place of `PutDecision`'s free choice, for the link
`Watched`. It is an instance of `RiskAuthority` with two variables replaced by what the engine has:
`linkFp` is the target set of the link's row (`PresentTargets`), which editors write, and `runtime`
the states of the entries that the engine reads (`Entries`). `Inform` is a step of both at once, a
projection or a block that writes an entry; `Govern` and `DecisionArrives` are the authority's alone;
in `Serve` visitors, editors, the clock and the loss of keys go on, and to the authority an edit of
the targets is `EditTargets`, a lost key `EntryExpires`. Queries that name `deleted_at IS NULL` need
the link `Live`.

### 2.6 Billing

`orders`, `txns` and `callback` are `billing_orders`, `billing_transactions` and
`payment_callback_events`; `subs` holds the subscriptions with the interval of their grants;
`sources` the plan sources that `internal/domains` reads. `orderOf` is the provider's choice of
which order a transaction pays. A callback (`ApplyAuthenticatedCallback`), a
`ScheduleDowngrade`, with the promotion it begins with, and the creation of an order are one
transaction each. An id `<<o, n>>` is the subscription of order `o` after `n` downgrades, as the
code derives the id of a downgrade's target from the subscription it replaces.

### 2.7 CustomDomain

`domain` is the row of `custom_domains` with the axes ownership, ingress, https and risk;
`world` is what a DNS lookup or probe would find now; `checks` what each check in flight has
observed; `evals` the rows of `domain_risk_evaluations`; `control` the administrator's overlay on
the entitlement; `holder` who has the row locked between reading and writing. Verifications
and the periodic run observe outside any transaction and decide from the row they lock. The
secret last seen in the DNS (`proof`) is a history variable.

### 2.8 MailQueue and WebhookDelivery

`mailJobs`, `mailAttempts` and `mailSettings` are the tables; `mailWorkers` what each worker
does between claim, hand-over and completion; `handed` (messages the SMTP server took) and
`mailStops` are history variables. A claim is one job in order of creation: rows that another
claim has locked are skipped (`SKIP LOCKED`), which in the model is the other claim coming first.

`deliveries` is `workspace_webhook_deliveries`, `leases` the Redis keys of two minutes, `senders`
what each monitor does, `happened` the events committed since the webhook was created. `posts`,
`accepted`, `lost` and `senderStops` are history variables. A lease is taken by `SETNX`, given back
only by its token, and not compared when the result is recorded.

### 2.9 AccountAccess and Workspace

`accounts` joins `auth_users` and its credential, `codes` is `auth_one_time_grants`,
`authSessions` is `auth_sessions` with, as history, the secret that opened it and the password of
that moment; `identities` and `flows` are `oauth_identities`, `oauth_states` and `oauth_handoffs`.
Every action is one transaction. Registration is two (`registering`), as in the code.

`Workspace` has the memberships (`role`), the `invites` and, in `actor[p]`, the role that a request
of `p` has read and carries into its transaction.

### 2.10 TextShare and BioPage

`shares` and `textUsed` are `text_shares` and the counter of the workspace; `edits[e]` the version an
editor saw; `readers[r]` what a public request was authorized for. Reading once is two
transactions, the authorization and `ConsumePublic`, which checks the locked row again and shows that
one.

`pages`, `bioUsed` and `childRows` are `bio_pages`, the counter and `bio_child_links`; `decided` the
decision in Redis per link and destination; `refreshers[h]` a request that copies decisions into
rows, one read and one write per link, and then publishes: it counts the page's links whose risk is
not an allow (`CountUnresolved`) and commits (`PublishPage`) in two steps. In between (`counted`) the
page's row is locked, which its editors wait for, and the links' rows are not. `approved` is a
history variable.

### 2.11 AdminConsole and SupportTickets

`credentials` and `adminSessions` carry the lock, the second factor and the sessions; `calls[c]` is
a mutation between authentication, the look for its idempotency record, and the commit;
`records` is `admin_idempotency_records`. `guesses` and `effects` are history variables. Settings,
official domains, announcements and managed workspaces are the four kinds of mutation.

`tickets`, `messages`, `requests`, `audits` and `notices` are the tables, by what makes their rows
unique, the correlation id of an audit record included; `desks[d]` is a request between its commits,
any of which may fail; what it `asks` is a domain request, whose link to its ticket has a record of its
own (`RecordLink`); `mails` counts the jobs enqueued about a message; `belongs` is the requester's
membership.

## 3. What the runs check

| Run | Instance | Checks |
|---|---|---|
| `links` | either 2 links, 2 addresses, 1 editor, 3 versions, 2 clicks each, clock 0..1; or 1 link, 2 rivals, 3 versions | `StoreSafety`, `NoLostUpdate`, `ClickSafety`, `DomainGates` |
| `redirect_race` | 1 link, 1 editor, 2 versions; 2 requests, 2 clicks, TTL 1, 1 password attempt; or 1 request at a time, the authority with 1 scan, 1 override, 1 report, 1 projector, 2 records | `EngineSafety`, `DestinationWasAllowed`, `ClaimIsCurrent`, `GuardSafety` |
| `clicks_delivery` | 2 clicks in a bucket, 2 workers, batch of 2, 1 failure | `DeliverySafety`, `CountsEachClickOnce` (refinement), `QuietCompleteIsTrue` |
| `clicks_liveness` | 2 clicks in 2 buckets, 1 worker, batch of 1, repair on, 1 failure or lost aggregate | `EveryClickCounted`, `EventuallyComplete`, `AggregatesAreRepaired` |
| `files_lifecycle` | 1 file, 2 workers, 2 requests, 2 generations, 1 password, 1 download, 1 failure | `FileSafety`, `PublishedIsClean`, `BytesSurvive`, `OnlyHolderDecides`, `DownloadsAreAuthorised` |
| `files_liveness` | 2 files, quota 1, 2 workers, 1 request, 1 generation, 1 failure | `CounterIsExact`, `EveryScanEnds` |
| `workers_safety` | 2 scans, 2 monitors, 2 attempts; 1 report, 1 projector, 2 records; 2 orders, 2 transactions, 3 plans, clock 0..5; 3 mail jobs, 2 workers, 1 stop; 2 webhooks, 2 deliveries, 2 monitors, 1 lost lease, 1 stop; 1 domain, 1 check at a time, 1 evaluation | `ScanSafety`, `AuthoritySafety`, `OrderSafety`, `PlanSafety`, `MailSafety`, `WebhookSafety`, `DomainSafety` |
| `decisions_liveness` | 1 scan, 2 monitors; the authority with 2 records; billing as above | `ScanSettles`, `StopsReachEngine`, `RefundIsApplied` |
| `deliveries_liveness` | 2 mail jobs (one with a grant), 2 workers, 1 stop; 2 webhooks, 2 monitors, 1 stop | `MailSettles`, `EventsAreDelivered` |
| `requests_safety` | 2 addresses, 2 flows; 3 persons, 2 invitations; 2 shares, 2 readers; 2 pages, 1 refresher; 1 administrator, 2 calls; 1 ticket, 2 requests, 1 correlation id | `AccountSafety`, `WorkspaceSafety`, `TextSafety`, `BioSafety`, `AdminSafety`, `TicketSafety` |
| `webhooks_behind_update`, `auth_mail_strands` | | each ends in the counterexample of section 5 |

**Components side by side.** `MCWorkers`, `MCDeliveries` and `MCRequests` hold several
instances that share no state. The initial state picks one `side`, and a behaviour is of that
component only: the state space is the sum of the components', and each property is checked in all
behaviours of its component. In `requests_safety` the sides have 276,579 (accounts), 68,888
(workspace), 41,881 (texts), 108,180 (Bio), 65,504 (administration) and 368,376 (tickets) distinct
states; billing has 130,953 in `workers_safety`. `MCLinkStore` and `MCRedirectEngine` hold one instance
and pick one of two bounds on it in the same way: two links in the hands of one editor, or rivals on
one link; visitors who race over a link on which anything may be decided (251,399 states), or one
visitor at a time of a link that the authority watches (74,847 states).

**Bounds, and why they are enough.**

* `MaxVersion`: the shortest way to lose an update needs a read at version n, another
  commit of n+1 and a commit over it; with two rivals and three versions there is room
  for it before and after a delete and a restore. `MaxClicks` = 2 is one more than the
  limits of the contents (limit 1, one-time). `MaxNow` = 1 and `TTL` = 1 let a decision
  and a link expire while a request runs. `AttemptLimit` = 1 makes the second password
  attempt the refused one.
* Two requests and one editor in `redirect_race`: a request races another one for a
  click and the edit races both. What concerns one request concerns its own snapshot
  and the row only. On the side of the authority a redirect depends on what is in Redis under one
  fingerprint, so one request at a time is enough, until one is redirected: two target sets, with an
  allow of one, an override or a block of the other, and a projection that read before the edit or the
  hold. The clock stands there; an entry goes when its key is lost.
* `MaxFaults` = 1, `MaxMailStops` = 1, `MaxSenderStops` = 1, `MaxLost` = 1: one failed call, lost
  answer, crash or overlong step, at any point of the run. Further failures repeat what one does
  (each undoes the progress of one process); the proofs of section 4 are for any number.
* `BatchSize` = 2 (in `clicks_delivery`) gives a batch that fails at its first, second or
  no message, while the other worker has a batch of one or of two duplicates.
  `clicks_liveness` uses 1: there a failed message is read again before the next one.
  `RecoverLimit` = 1 makes the reconciler leave a row for the next cycle.
* `MaxGeneration` = 2: a verdict of the first generation may arrive in the second.
  `MaxFiles` = 1 with two files makes uploads compete for the last place.
* `Term` = 2, `Grace` = 1 and `MaxNow` = 5: a term, its grace and the term after it, with every
  order of two payments, their refunds and two downgrades. Both transactions may pay one order.
* `MaxAttempts`, `MaxMailAttempts`, `MaxDeliveryAttempts` = 2 or 3: a retry and the last attempt.
* `MaxRecords` = 2 decisions and overrides: an allow and what takes it back. `Outcome` has an allowing
  and a blocking one; the policy is the code's.
* `Probe` = {} and `MaxChecks` = 1: one check is in flight with rotations, suspensions and
  evaluations around it; ingress and https are then left out, as they are treated like risk is.
* `MaxEffort` = 4 bounds flows, codes and sessions together, so that two of a kind race; `MaxWork` = 3
  the calls, records, failures and secrets of administrators; `MaxTold` = 2 the audit records of the
  ticket: of its creation, and of a message, a closing or the link of its domain request. One correlation
  id is enough, as nothing reads the ids: they only make records unique, and two requests with one id are
  the harder case. Quotas of 1 for two shares or pages make the last place contested.
* `Guess` (whether a client may send an `expected_version` that no response ever gave it) is FALSE.

Symmetry is used for links, editors, requests, workers, clicks (only where all are in
one bucket), files, handlers and desks, in runs without liveness properties only.

`CHECK_DEADLOCK FALSE` is set where the bounds on versions, generations, clicks, attempts and
sessions let a run come to its end. In the analytics runs and in those of section 5 deadlock is
checked.

**Fairness.** `ClickAnalytics!Fairness` is weak fairness of each worker's and the
reconciler's steps: both are endless loops of supervised processes. Redirect handlers
have none, as a visitor who goes away cancels the request: `EveryClickCounted` therefore
rests on the recovery of unpublished rows. In `FileLifecycle`, `RiskScan`, `RiskAuthority` and
`MailQueue` the loops of workers and monitors are weakly fair, and so is the passage of time for
leases, retries and entries of Redis. In `Billing` the provider repeats a report until it is
answered with success, and time passes. In `WebhookDelivery` queueing and picking a delivery are
strongly fair: an iteration attempts the delivery that is due longest, so others, of which there are
finitely many, do not pass it over for ever. API handlers,
administrators and users have no fairness. The remaining models state safety only.

## 4. What is proved

All theorems hold for every value of the constants allowed by the `ASSUME`s, hence for any number of
links, editors, clicks, workers, files, requests, orders, people and failures. Every safety property
of a passing run, invariant or action property or refinement, is a theorem.

**Link store** (`LinkStoreProofs`). `Invariance` is `IInv`: types; `Fresh` (no editor has
seen, or has in flight, a version beyond the row's, when clients do not guess);
`HistoryIsComplete`; and `NoLostUpdate` when clients do not guess. The lemma
`WriteKeepsHistory` covers every action that writes: it appends the version after the
current one. For `CommitUpdate`, `Fresh` says that the base of the write in flight is its
expected version, and the guard that this is the row's. `NoUpdateIsLost` assumes
`~Guess`; section 5 shows that it is needed. `AddressesAreUnique` follows from the guard
of each writer. `EventsMatchClicks` and `LimitsAreRespected` use that the claim compares
the version and fingerprint, and that history never changes once written. `DomainsAreAsked` is the
action property `DomainGates`: an address that a step keeps or brings back is one the history knows,
so every new custom address came with a question to the domain authority.

**Redirect engine** (`RedirectEngineProofs`). `EngineInvariance` adds to the store's invariants that
a request stands on the version it looked up, which stays in the history; that past its risk check that
version's fingerprint is among those `granted` at the check, as it is for every response sent
(`Grounded`, `SentGrounded`); and that a request about to send has
its click in the outbox (`HasClick`), that a check is no later than the click it leads to (`InTime`)
and that no two redirects share a number (`SentApart`). `ResolveRiskStep` is where the verdict that the
handler goes by meets what was in force; after it nobody changes `granted`. From it follow `EngineSafety`,
`DestinationWasAllowed` and `ClaimIsCurrent`. `RedirectsWithinLimits`, a part of `EngineSafety`, is about
responses and not clicks: the version they were sent for has long been edited when they go out, so it
needs that the history keeps it and that the click of a response lies after its check and within the limits.
`EngineKeepsStore` carries the store's safety over: a claim is made by a request.

**The engine with its authority** (`RedirectEngineProofs`). `GuardedEngine` shows that the composition
implements `EngineSpec`, so that everything above holds of it; `GuardedAuthority` that it implements
`AuthoritySpec` under the mapping of section 2.5. The second needs the first: that what an editor
writes, or a history holds, is a fingerprint is a fact about the store (`PastType`). `GuardInv` is the two
inductive invariants, the authority's taken from an instance of `AuthorityProofs`, and
`AllowsWereGiven`: what was in force at a check (`granted`) was allowed by a decision or an override in the
books, because an allow in Redis is (`AllowHasAuthority`). `IsAuthorized` follows for every response: what is
sent was granted at its check (`SentGrounded`), what was granted was given, and the books only grow.

**Click analytics** (`ClickAnalyticsProofs`). `IInv` adds to the types and the
properties: what handlers, stream, reconciler and events hold are accepted clicks
(`SourcesAccepted`, `StreamAccepted`, `EventsAccepted`), what a worker is about to
acknowledge is stored (`PersistedIsStored`), and what a handler or the reconciler is about
to mark was delivered to the stream (`MarksDelivered`). `NothingLost` alone is not
inductive: an acknowledgement removes the pending entry, and only `PersistedIsStored`
says that the click has been consumed by then. `EachClickCountsOnce` is the refinement of
`ClickCounting`: every step accepts one click, counts one accepted click that was not
counted, or stutters. `QuietCompleteness` is an invariant about the totals in hand: if
outbox and event totals were equal and nothing was accepted since, the set of events,
being a subset of the accepted clicks with as many members, is all of them.

**Files** (`FileLifecycleProofs`). `IInv` is the conjunction of types, `AbsentRows` (a
file without a row is in its first generation, not published and not deleted), `Requests` (what each
handler has in hand: a file being created has no row and its bytes are still in quarantine and
belong to no other request, a file being removed is deleted), `Jobs`, `FiniteFiles` and
the four invariants. `BytesSurvive` needs `Requests`: bytes disappear only in a refused
upload, whose file has no row and never gets one, in an upload whose commit took effect without an
answer, whose file is in `unanswered`, and in a deletion, whose file is deleted for good. The second
is a defect (section 5), and the invariant excepts it by name.
`OnlyTheHolderDecides` and `DownloadsWereAuthorised` are action properties, proved from
the same invariant and one case for each kind of step.

**Risk** (`AuthorityProofs`, `QueueProofs`). `AllowHasAuthority` speaks of Redis and of what projectors
carry between their reading and their write; `AuthorityInv` adds that nobody is about to write a verdict
that is out of date (`NothingStaleIsPut`). `HoldStopsAllows` is the safety side of a hold. A stop begins
with a block in Redis, before its hold commits. From then on an allow of its targets is written only by a
projector that had read the authority before the block and asked for holds before the commit, and each
writes once: the set `Carriers` of those who still may only shrinks, and every such write takes one out.
The hold may therefore commit over an allow that came after its block, and none that sets out later does.
`ScanIsSafe` contains the refinement of `RiskDecisions`: the lemma on `ScanRowStep` classifies what a
step does to a row of the queue, and only the completing one appends to the log, for a scan that has no
decision because a completed row has one and stays completed.

**Billing** (`BillingDomainProofs`). `BillingInv` is `OrderInv` (the ledger agrees with the transactions,
an order not yet settled has no transaction, what an order bought is not revoked only while it is paid),
`Chains` and `Books`. `Chains` is about an order's own subscription and the downgrades after it: none
exists without a payment, the first has been replaced once a second exists that is not merely scheduled,
and what counts of a refunded order counts behind a downgrade promoted before the refund.
`RefundEndsGrants` follows from it. `Books`: at most one row is current; `CurrentRow` says what the
domains hold for it while active (`HeldForActive`) and while in grace (`HeldForGrace`), `PendingRow` that
a scheduled target starts at the end of that grace, and `OldRow` that nothing else grants any more.
`Books` is stated of a table, a pair of sources and an instant, so that each transaction is a lemma about
tables, and the clock a lemma about instants.

**Custom domains** (`BillingDomainProofs`). `DomainInv` adds `LockedRowIsKept`: what a transaction read
under the lock is still so when it writes. `RowStep` says what any step may make of the row; each of
the actions is shown to be one, and the four properties follow from it.

**Queues** (`QueueProofs`). `MailInv` says what a worker's position means for the job it holds
(`HandRow`), for each job what its attempts are (`JobRow`, `AttemptsTellTheJob`), that a job is in one
hand (`OneHand`), and that the stranded jobs are finitely many and at most as many as the stops.
`WebhookInv` has `SenderRow`, `LeaseRow` (a lease of a sender means that the sender is working on it),
`DeliveryRow` and `PostRow`: the monitors that work without the lease are at most as many as the
leases lost, and while none was lost each post but the last is an attempt or a stop.

**Accounts, workspaces, texts, Bio pages, administration, tickets** (`RequestProofs`). `AccountInv` ties
a session to the secret it rests on (`SessionRow`: the code is used, the flow over, the account usable,
the password the present one), and each action is shown to be a `GoodAccountStep`: accounts, used codes
and finished flows stay. `WorkspaceInv` has a finite set of owners, from which `AnotherOwner` yields a
second one. `TextInv` and `BioInv` say that the counter is the cardinality of the live rows;
`TextKeepsQuota` and `BioKeepsQuota` are the refinements of `QuotaCounter`. `BioInv` also has
`CountedOnApproval`: from its count to its commit a publication holds an active page, whose links keep
the destinations that were allowed (`HeldPageStays`: an editor of the page waits, and
`RelistSparesOthers`: one of another page touches other links). `AdminInv` is about sign-in
(`SecretsAreEnrolled`, `GuessesAreCounted`) and about mutations (`CallsAreAuthenticated`,
`EffectsAreRecorded`: an effect has its record, and a call that had missed the record fails at its unique
key). `TicketInv` says for every ticket what its thread must look like and for every request (`DeskRow`)
what it presupposes and what it has left behind, the row of a domain request and the record of its link
included.

**Only model-checked**: `EveryClickCounted`, `EventuallyComplete`, `AggregatesAreRepaired`,
`EveryScanEnds`, `ScanSettles`, `StopsReachEngine`, `RefundIsApplied`, `MailSettles` and
`EventsAreDelivered`. They are liveness properties under fairness, for which the prover has no rules
(`ENABLED`).

## 5. Where the code and what it says disagree

Two runs end in a counterexample, and their findings in `PROJECT.json` quote the texts:

* **Webhooks stop behind an edit** (`webhooks_behind_update`). `QueueLinkEvents`
  (`internal/admin/webhook_link_events.go:53`) scans `$.version` of the audit record into a number, but
  updates and restores record `from_version` and `to_version`. The scan fails, and with it the queueing
  of every event of every workspace, in each iteration.
* **Mail with a one-time grant strands** (`auth_mail_strands`). The deployed worker
  (`services/platformapi/cmd/mailworker/main.go:43`) uses the store that refuses such a job and can
  not close it: it stays `sending`.

What else we met while modelling. These are properties of the code that the models keep:

* **A bulk pause can undo an edit.** `SetStatus` (`internal/links/store_mysql_query.go:217`) copies the
  row it reads and passes the client's `expected_version` on without comparing the two. A client that
  names the next version while somebody else is about to write it overwrites that write. With `Guess`
  set to TRUE TLC finds `NoLostUpdate` violated.
* **Restore assigns a custom domain that is not ready.** `Restore` (`store_mysql_history.go:68`) takes
  the hostname of the old version without asking the domain authority, which Create and Update ask;
  `artifacts/v10/P06/review.md:21` says "custom-domain Link assignment requires all authoritative axes
  ready". A redirect is still refused while the domain is off.
* **"complete" may be written while an accepted click is missing.** The totals are read in three
  queries (`internal/analytics/reconcile.go:139`); a click accepted and consumed in between makes up for
  one that is not consumed. `QuietCompleteIsTrue` shows that this race is the only way. A report
  trusts the status of an earlier cycle (`query.go:234`) and may present the gap as a complete zero.
* **An administrator's restore publishes a file that cannot be downloaded.**
  `internal/admin/file_governance.go:153` sets `published` and moves no bytes.
* **An upload can end as a row without bytes.** `CreateQuarantined` returns the error of its commit
  (`internal/files/resource_core.go:86`) also when the commit took effect, and the handler removes the
  bytes on any error (`httpapi_upload.go:34-39`, `119-127`). The file is live, counts against the quota,
  and no scan can open it. `BytesSurvive` excepts these files and no others.
* **A held link may be served for a while.** A projection that read before the block writes after it,
  between the block and its commit or later; `StopsReachEngine` says that this ends, `HoldStopsAllows` that
  only a projector that asked for holds before the commit does it, and once, `AllowHasAuthority` that
  nobody is served what nobody allowed.
* **A refund leaves a promoted downgrade.** A refund revokes the subscription of its order
  (`internal/billing/callbacks.go:121`, `136`, `305`). When a downgrade has taken that one's place, the
  downgrade, which the refunded order paid for, goes on granting. `RefundEndsGrants` says that nothing else of
  a refunded order does.
* **A Bio page may be published over a link just blocked.** The count of links whose risk is open
  (`internal/bio/store.go:553`) locks none of their rows; a refresh may write a block between the count
  and the commit. `PublishedOnApproval` is about destinations that were once allowed.
* **A payment during the grace of a downgrade is turned away.** The comment of
  `cancelScheduledDowngradeTx` (`internal/billing/downgrade_cleanup.go:12`) describes a paid activation
  and a refund that supersede a pending downgrade; the check on grants in `migrations/000009:77` forbids a grant
  revoked before it starts, so the transaction is rolled back until the grace is over.
* **Two official domains can both be the default** (`internal/admin/platform_governance.go:442`): the
  clearing statement does not see the other's uncommitted default. Each of them serves.
* **A disconnected identity may not be deletable** while a handoff names it: the foreign keys of
  `migrations/000015` restrict, and the disconnection is refused.
* **Nothing in the services decides about a Bio link, enqueues the first scan of a link, or creates a
  payment intent**: only scripts under `scripts/` do, and an administrator's rescan
  (`internal/trust/admin_risk.go:128`). In the models these are free choices of the environment. The
  projection reads the first hundred links only (`internal/trust/projection.go:95`); the model has one.

## 6. Not modelled, and why

* The stream or its consumer group lost with Redis, consumer names of hosts that never
  return, and errors in single buckets behind equal totals: the code has
  no step that recovers from them, so a property would only restate that.
* A block decided between the risk check and the claim of a redirect in flight: nothing promises a
  second look, so `DestinationWasAllowed` is about the moment of the check.
* Links: which target a visitor gets (any of the set), metadata, folders, tags, listing and
  anonymous creation; a claimed anonymous link changes its owner, which no property tells
  apart.
* Files: expiry and retention dates, byte quota, the ClamAV protocol, bytes that stay behind after an
  administrator's deletion.
* Trust: inspection of URLs, evidence, rate limits, notifications. Domains: deletion and release, the default
  domain of a workspace, certificates. Billing: prices, quotes, invoices' text, signatures.
* Mail templates and SMTP; rotation of webhook secrets; API keys; queues and priorities of tickets;
  campaigns, tags and folders; themes and rendering; QR codes.
* Cryptography, rate limits of the API and the identity provider's protocol.
* Logging, frontends, installer, migrations and scripts keep no state of their own. The tables, unique keys
  and checks of the schema appear as state and guards.

## 7. What is left

1. **Compositions.** A downgrade in `Billing` reaching `CustomDomain!plan` and `LinkStore!SetDomain`; the
   queue of `RiskScan` in the place of the decision log in `GuardedRedirect`; more than one watched link.
2. **Abstract specifications.** A link as an atomic register with versions, implemented by `LinkStore`; a
   one-time secret that is spent once, implemented by codes, flows and one-time texts.
3. **Operations without a module.** API keys, the default domain of a workspace, deletion and release of
   domains, price books, invoices and storage settings.
