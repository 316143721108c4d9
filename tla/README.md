# tusker: a TLA+ verification development

tusker is a multi-tenant integration server written in Go.  Applications hand it
mail, SMS and code-execution jobs and OAuth authorizations; it keeps everything
in PostgreSQL and talks to the providers.  This directory models the parts of it
whose correctness depends on the order in which independent actors take their
steps, checks them with TLC, and proves the most important results with TLAPS
for every number of jobs, goroutines, processes, attempts and faults.

Line numbers below are those of the repository's sources.

## 1. Inventory

| component | state it keeps | operations | interacts with |
|---|---|---|---|
| **job queue and workers** `internal/worker/worker.go`, `internal/store/jobs.sql.go`, `internal/api/executor.go` | table `jobs` (status, attempt, run_at, error, completed_at); per goroutine the row it claimed | CreateJob, ClaimNextJob, ExecuteJob, UpdateJobStatus, GetJob | API handlers insert, goroutines of any process claim; provider clients |
| **API handlers** `internal/api/*handler.go` | none of their own | SendEmail, SendSMS, ExecuteCode (asynchronous, or `?sync=true`), GetJob, GetCodeExecution | jobs, code_executions, configurations |
| **code execution** `internal/code/judge0.go`, `internal/store/code.sql.go` | table `code_executions`, one row per successful run | Execute, InsertCodeExecution, GetCodeExecution | Judge0 (30 s timeout) |
| **mail and SMS providers** `internal/email/{smtp,sendgrid}.go`, `internal/sms/twilio.go` | none | Send (no timeout) | SMTP, SendGrid, Twilio |
| **OAuth** `internal/api/handler.go`, `internal/oauth/*.go`, `internal/store/oauth.sql.go` | tables `oauth_tokens`, `oauth_provider_configs` | SetProviderConfig, Authorize, Callback, GetToken (with refreshAndStore), DeleteToken | Google; the user's browser |
| **provider configurations** | `email_provider_configs`, `code_provider_configs`, and `oauth_provider_configs` shared by OAuth and SMS | Set...Config, build...Provider | executors, handlers |
| **email templates** `internal/api/email_template_handler.go`, `internal/email/template.go` | table `email_templates` over built-in defaults | Upsert, List, Delete, SendEmailWithTemplate | mail providers |
| **tenants and keys** `internal/tenant`, `internal/crypto` | table `tenants`: API key hash, sealed data key | Create, GetByAPIKey, DataKey | every handler and executor |
| **process assembly** `cmd/server/main.go`, `docker-compose.yml`, `infra/` | which processes run goroutines (MODE) | start, restart | all |
| **Go SDK** `sdk/` | none | Send, Jobs.Get, CreateTenant and the other calls: one HTTP request each, no retries | API; the application |

What is hard, and what makes each component correct:

* **Queue.**  Goroutines in several processes share nothing but the table.  They
  claim with `FOR UPDATE SKIP LOCKED`, call a provider for an unbounded time with
  no lock held, and write back by id alone, from a copy.  Processes are restarted
  at any point without notice; database replies get lost; a provider may accept a
  job without the worker hearing of it.  Correct means: one goroutine per job;
  nobody writes back to a row that is no longer his; clients polling a job see a
  coherent story that is final once it is final; nothing is delivered twice, or
  left unfinished, unless something failed; retries wait for their backoff and
  are as many as `max_attempts` allows.
* **OAuth.**  GetToken reads a row, asks the provider, and writes the row back,
  with no transaction around it; Callback and DeleteToken may come in between.
  Correct means: whatever the interleaving, the row can still be refreshed, and a
  removed row stays removed.
* **Configurations.**  Read when a job runs, not when it is submitted; one table
  serves OAuth and SMS; a stored Judge0 configuration is laid over the
  deployment's defaults field by field, and passed over if it cannot be read.
* **Templates.**  A custom row overlays a default; deleting it uncovers the
  default; what is listed must be what is sent.
* **Clients.**  An application learns of a job only by replies, each of which can
  be lost after the handler has acted.  Correct means: what it is told stays true;
  one that sends again what it was told has failed gets nothing delivered twice,
  and leaves no row behind that nobody polls, unless a call was lost; an output
  is there once its job is reported completed.
* **Tenants and keys.**  Data keys are stored sealed under the root key of the
  process that provisioned the tenant, an API key exists only in one reply, and
  an authorization begins at one process and may end at another.  Correct means:
  no row of a tenant is ever sealed under anything but the tenant's key; tokens
  end up with the tenant and user they were granted for; a process without the
  right root key destroys nothing; without a fault nothing is lost.

`PROJECT.json` lists the components with what is modelled of each, and every
hazard at its line with the properties that would catch it.

## 2. Modules

| module | what it is |
|---|---|
| `JobLifecycle` | abstract specification: what a client may rely on about one job |
| `JobQueue` | the queue: rows, goroutines, providers, crashes, clocks |
| `MCJobQueue` | TLC instances of it |
| `JobQueueProofs` | inductive invariants and theorems about `JobQueue` |
| `JobQueueRefinement` | proof that `JobQueue` implements `JobLifecycle` |
| `ConnectedAccount` | abstract specification: what a tenant may rely on once a user has authorized it |
| `OAuthTokens` | one `oauth_tokens` row and the requests racing for it; implements `ConnectedAccount` |
| `MCOAuthTokens` | TLC instances of it |
| `OAuthTokensProofs` | inductive invariants and theorems about `OAuthTokens`, and the proof of that |
| `ProviderConfigs` | the configuration tables of all tenants, and the executions that read them |
| `MCProviderConfigs` | TLC instances of it |
| `ProviderConfigsProofs` | inductive invariant and theorems about `ProviderConfigs` |
| `EmailTemplates` | one tenant's templates over the defaults, and the requests that send them |
| `MCEmailTemplates` | a TLC instance of it |
| `EmailTemplatesProofs` | inductive invariant and theorems about `EmailTemplates` |
| `JobClients` | an application that sends through the SDK, composed with `JobLifecycle` |
| `MCJobClients` | a TLC instance of it |
| `JobClientsProofs` | inductive invariant and theorems about `JobClients` |
| `ClientsOverQueue` | the application of `JobClients` composed with `JobQueue` itself, and the proof that nothing changes |
| `MCClientsOverQueue` | a TLC instance of it |
| `Tenants` | tenants, root keys and data keys over several processes, and the OAuth flow through them |
| `MCTenants` | a TLC instance of it |
| `TenantsProofs` | inductive invariant and theorems about `Tenants` |

`JobLifecycle` is the seam of the composition: `JobQueue` implements it
(`JobQueueRefinement`), and `JobClients` takes its actions `Submit` and `Work` for
the queue and the workers.  For that, `JobLifecycle` promises what clients need: a
provider accepts at most once per start, every acceptance that is repeated,
retried or given up, of whatever job, has a fault of its own to blame
(`InVain`, `PaidFor`), and a program completes only with the output of its last
attempt stored.
`ClientsOverQueue` closes the seam: it puts the two detailed specifications over
one table and implements `JobClients`, so that what holds of the clients holds
over the real goroutines, locks, clocks and crashes.

Operators named as mutants in comments (`ClaimableUnlocked`, `MarkRetryOneMore`,
...) are plausible mistakes; each stands before the definition it would replace,
and is used by no specification.

### 2.1 JobQueue

| model | code |
|---|---|
| `jobs` | the table: `status`, `attempt`; `due` is `run_at - NOW()` in units of 10 s; `error`, `completedAt` say whether the column is set |
| `codeExecutions` | the attempts of each job whose output is stored |
| `pc`, `held`, `heldAttempt` | a goroutine's place in `processNext`, the job it holds and the `attempt` of its copy (the row as `RETURNING` gave it) |
| `accepted` | how often a provider accepted the job's effect (not visible to tusker) |
| `SendEmail`, `SendSMS`, `ExecuteCode` | the asynchronous paths of the handlers: one `CreateJob` |
| `PollEmpty`, `LockNext`, `CommitClaim`, `LoseClaim` | `ClaimNextJob`: nothing due; row picked in `run_at` order and locked; committed; failed, or committed with the reply lost |
| `emailExecutor`, `smsExecutor`, `codeExecutor` | `ExecuteJob`: the provider refuses, accepts, or accepts unheard |
| `InsertCodeExecution` | the output row, whose insert may also fail or be ambiguous |
| `MarkCompleted`, `MarkRetry`, `MarkFailed`, `LoseUpdate` | the three `UpdateJobStatus` calls of `processNext`, and the call that fails and is only logged |
| `Crash` | a process dies and is started again |
| `Tick` | 10 s of database time |

Locking and committing are two steps so that other goroutines act in between;
the select and the lock are one, which is what `FOR UPDATE SKIP LOCKED` makes of
them.  `run_at` is computed with the worker's clock and compared with the
database's: `MarkRetry` adds any drift up to `Drift`.  The `error` column is a
Boolean: nothing depends on its text.  Ids, tenants and payloads are left out:
no statement on `jobs` made by a goroutine looks at them, except to hand them on.

### 2.2 OAuthTokens

| model | code |
|---|---|
| `token` | the row: present, its refresh token, whether its access token is within 30 s of its end |
| `client` | `oauth_provider_configs.client_id`, counted up by each change |
| `pc`, `copy`, `using`, `granted` | a request's place, the refresh token in its copy of the row, the credentials it built its provider with, the provider's answer |
| `live`, `issued` | the provider's side: refresh tokens it accepts |
| `tainted`, `suspects` | history: a known cause may have left a dead token in the row, and the requests already in flight at that time |
| `Authorize`, `Callback`, `Exchange`, `StoreGranted` | the authorization flow; the browser's trip through the consent page is one request of the model |
| `GetToken`, `buildProvider`, `Refresh`, `RefuseRefresh`, `StoreRefreshed` | GetToken and refreshAndStore, one step per database or provider call |
| `SetProviderConfig`, `DeleteToken` | single statements |
| `Revoke`, `Expire`, `Interrupt` | the user withdraws consent; time; a request dies (its context is cancelled when the client goes away, the provider or the database fails, the process stops) |

GetToken with a fresh access token answers from the row and changes nothing, so
it is no step.  Every statement names tenant, provider and user, so one row
stands for all.  `Rotating` are the clients whose refresh tokens the provider
replaces when they are used: none at Google, the one provider registered;
refreshAndStore is written for both, so both are checked.  `ForcesConsent` is `oauth2.ApprovalForce`
in `AuthURL`: without it Google would not hand out a second refresh token.

`ConnectedAccount` has one variable for the row and none for the requests: the
account is `none`, `working`, `renewing` (the provider has replaced the refresh token
and the successor is on its way to the row) or `lost`.  The refinement mapping
(`AccountOf`) reads it off the row, what the provider accepts, and whether some
request holds the successor; `causes` counts withdrawn consents and changes of
client, and `stale` says whether a request is suspect.

### 2.3 ProviderConfigs

| model | code |
|---|---|
| `rows` | `oauth_provider_configs` (`google`, `twilio`), `email_provider_configs` (`smtp`, which stands for `sendgrid` as well) and `code_provider_configs` (`judge0`), by tenant and provider |
| a row's `key`, `id`, `secret` | whose data key sealed it; the write that set `client_id` (or the server), and the one that set `client_secret` (or the token, which may be empty) |
| a row's `body` | a JSON value is `undecodable` if it does not fit the provider's struct, and `no_url` if it is a Judge0 one that names no server |
| `Deployment`, `Override` | the defaults of Judge0, `JUDGE0_URL` and no token; a row laid over them (`code_handler.go:168-174`): its server if it names one, its token in any case |
| `SetProviderConfig`, `SetSMSProviderConfig`, `SetEmailProviderConfig`, `SetCodeProviderConfig` | the four handlers, each one `INSERT ... ON CONFLICT DO UPDATE` |
| `Begin` | a worker's attempt (`ExecuteJob`) or a synchronous request finds its tenant |
| `buildProvider`, `buildSMSProvider`, `buildEmailProvider`, `buildCodeProvider`, `QueryFails` | the row is read, opened and decoded, or the query fails |
| `Call` | the provider is called with what was built |
| `floor` | history: what the row held when the execution began |

An execution is what runs between finding the tenant and the provider's answer;
a queued job is one execution per attempt, so that a retry reads the row again,
as in the code.  The queue and the configurations meet nowhere else: `JobQueue`
calls a provider whose refusal may have any cause, a missing configuration among
them.

### 2.4 EmailTemplates

| model | code |
|---|---|
| `custom` | the tenant's rows of `email_templates` |
| `Builtin`, `DefaultTemplate` | `email.DefaultTemplates` |
| a definition's `version`, `text`, `html` | which upsert it came from; whether subject and body, and the optional HTML, parse |
| `UpsertEmailTemplate`, `DeleteEmailTemplate` | the handlers, the former with `ValidateTemplate` before the statement |
| `ListEmailTemplates(order)` | the merge of rows and defaults, for a given order of Go's random map iteration |
| `Ascending`, `Unseen` | `ORDER BY name`; the rows whose name no default had |
| `Entry` | what the list shows of a name, by a lookup of its own |
| `SendEmailWithTemplate`, `resolveTemplate`, `RenderTemplate`, `RenderError`, `Send` | the stages of a send; other requests act between them |
| `window` | history: definitions in effect for the request's name since it began |

### 2.5 JobClients

| model | code |
|---|---|
| `status`, `attempt`, `accepted`, `outputs` | as in `JobLifecycle` |
| `payload` | which message each row carries |
| `calls` | HTTP calls, from the SDK's `Do` to its return; an *orphaned* one has lost its caller while its handler may still act |
| `direct` | how often a provider accepted a message from `?sync=true` |
| `known`, `sent`, `told`, `fetched` | what the SDK returned to the application: ids, "sent", final statuses, outputs |
| `Send`, `Read` | the SDK issues a request: `Email.Send`, `SMS.Send`, a program; `Jobs.Get`, the fetch of an output |
| `Enqueue`, `Deliver` | the two paths of SendEmail, SendSMS and ExecuteCode |
| `GetJob`, `GetCodeExecution` | the handlers; any error of the query is a 404 |
| `Return` | `doRequest` and `doRequestWithQuery`: the reply is decoded if its status is expected |
| `Abandon`, `Drop` | the reply, or the request, is lost |
| `Workers` | a step of the queue, or a fault of it |
| `losses`, `Lose` | calls that failed on their way, counted apart from the queue's `faults` |

The application is not in the repository.  The model's one (`Submittable`) is the
careful caller the API is made for: it sends a message again only if every call
it made for it has ended, none answered "sent", and every job it was given an id
of was reported failed.  All statuses other than 200, 202 and 404 mean a failure
to the SDK and are 500 here.  The SDK has no method for `GET /code/executions/:id`;
the application issues that request as the SDK would.

`ClientsOverQueue` has the variables of `JobQueue` and those of `JobClients` but for
the rows, which it maps (`status` and `attempt` are columns, `outputs` is the
table).  A step is a `QueueStep`, a `CallStep` that leaves the queue alone, or a
`SubmitStep`: a handler's INSERT, which is one step of both.

### 2.6 Tenants

| model | code |
|---|---|
| `root` | `ROOT_ENCRYPTION_KEY` of each process |
| `tenants` | `tenants.encrypted_data_key`: the root key that opens it |
| `config`, `tokens` | `encrypted_client_secret` and `oauth_tokens`: the key that opens each, and whose token it is |
| `holders` | tenants whose API key, shown once, reached its client |
| `requests` | requests under way: process, tenant, user, what they hold |
| `trips` | authorizations: the browser with its state parameter, and what the provider granted |
| `BeginCreate`, `Create`, `CreateTenant` | provisioning: the row is committed before the key is shown |
| `AuthMiddleware` and the operations it admits | `SetProviderConfig`, `Authorize`, `GetToken` (with `ServeToken`, `Refresh`, `StoreRefreshed`), `DeleteToken` |
| `Consent`, `Callback`, `Exchange`, `StoreGranted` | the browser, and the handler from the state parameter to the stored row |
| `Lose`, `Restart` | a request dies or its reply is lost; a process starts again, perhaps with another root key |

A tenant stands for its id, API key, data key and OAuth client.  Nothing decrypts
but the key something was encrypted with (AES-GCM), which is `DataKey` and `Opens`.
Where `OAuthTokens` asks whether *one* row stays refreshable, this module asks
whose row it is and who can read it, so refresh tokens and expiry are left out
here and tenants, users and keys there.  Email, SMS and code configurations are
sealed and opened in the same way by the same two calls; one secret per tenant
stands for them.

## 3. Runs

### Queue

| run | question | instance | answer |
|---|---|---|---|
| `jobqueue_safety` | do crashes, lost replies and races break any safety property; do retries wait; does the queue implement `JobLifecycle`? | 3 goroutines in 2 processes, an SMS and a code job, the real 3 attempts, 3 faults, drift 1 | no; yes; yes (272 thousand states) |
| `jobqueue_live` | does every code job come to an end? | 2 goroutines, an email, an SMS and a code job, 1 fault | yes: completed, failed or (after a fault) stranded, unless mail and SMS calls hang in both goroutines |
| `jobqueue_stranded` | does a job finish in spite of one fault? | 1 fault | **no**, finding 1 |
| `jobqueue_result` | is a stored output that of a completed job? | 1 fault | **no**, finding 2 |

### Clients

| run | question | instance | answer |
|---|---|---|---|
| `clients` | is an application ever misled, or served twice, or its row forgotten? | a mail with two ids and a program, 2 calls, 2 attempts, 1 fault and 1 lost call | never told anything untrue; duplicates and forgotten rows are paid for (1.5 million states) |

### OAuth

| run | question | instance | answer |
|---|---|---|---|
| `oauth_races` | does the row stay refreshable, whatever races; is it a `ConnectedAccount`? | 3 requests, 2 clients (the second's tokens rotate), 1 withdrawn consent, 4 grants, interruptions | yes, but for the stated causes; yes (2.0 million states) |
| `oauth_reauthorized` | is the latest authorization kept? | 2 requests, 1 withdrawn consent | **no**, finding 4 |
| `oauth_deleted` | does a removed row stay removed? | 2 requests | **no**, finding 3 |

### Tenants

| run | question | instance | answer |
|---|---|---|---|
| `tenants` | do processes with different root keys, or replayed and misdirected callbacks, lose or mix up anything? | 2 processes, 2 root keys, equal or not, 2 tenants, 2 users, 2 requests, 2 authorizations, 1 fault | no, but for what a lost call loses (1.7 million states) |

### Configurations and templates

| run | question | instance | answer |
|---|---|---|---|
| `configs` | is a provider ever called with foreign, wrongly mixed or outdated credentials? | 2 tenants, 2 executions, 3 writes, 1 failing query | no (1.6 million states) |
| `configs_fallback` | is the deployment's Judge0 used only if none is configured? | 1 tenant, 1 execution, 1 write | **no**, finding 5 |
| `templates` | is what is listed what is sent, and was it ever in effect? | 3 names, 2 with a default, 2 requests, 2 upserts | yes |

### Properties

* `OneWorkerPerJob`, `OwnerSeesCurrentRow`: mutual exclusion, and the reason why
  `UpdateJobStatus` may do without a status condition.
* `PollCoherent`: status, attempt, error and completed_at fit together.
* `CompletedMeansDone`: a completed job was accepted, its output is stored.
* `DuplicatesNeedFaults`: over all jobs together, at most one delivery each plus
  one per fault.
* `StrandedOnlyByFault`, `CodeJobsSettle`: what may be left running, and that all
  else ends, unless mail and SMS calls that never return take every goroutine
  (`Exhausted`); together, that every code job finishes if nothing fails or hangs.
  `CodeJobsFinish` says so without the condition (violated, finding 1).
* `TerminalIsFinal`, `BackoffHonoured`: what no step ever does.
* `ImplementsLifecycle`: refinement of `JobLifecycle`.
* `RefreshableUnlessTainted`: a row that cannot be refreshed has a named cause,
  or a request on its way with the successor; and an authorization *begun after*
  the cause heals it.
* `OnlySuspectsHarm`: a store replaces a working token by a dead one only on
  behalf of a request in flight since before a withdrawn consent or a change of
  client; `StoreKeepsRefreshable` says never (violated, finding 4).
* `ImplementsConnectedAccount`: refinement of `ConnectedAccount`.  A working account
  is lost only by a cause, by a store of a request that is suspect, or when a
  request dies between the provider and the row; nothing but a store restores it.
* `RemovedUntilAuthorized`: only a new authorization brings a removed row back
  (violated, finding 3).
* `OwnCredentials`: a provider is called with what the execution's own tenant
  stored for it in one write.  Judge0 may be called on the deployment's server
  instead, without a token, or with the token of a row that names no server: such
  a row, `{"auth_token": ...}`, is accepted, and the mixture is what
  `buildCodeProvider` makes of it.  A token stored with a server goes to no other.
* `NeverOutdated`: a write answered before an execution began is not missed.
* `ListedIsSent`: the list and `resolveTemplate` lay rows over defaults each in
  their own way (`Entry`, `InEffect`) and agree, for every order of the defaults,
  and each name is listed once.
* `SentWasInEffect`, `SyntaxCaughtAtUpsert`: what a send renders was in effect
  during the request, and parses.

* `ToldIsTrue`: "sent", "completed" and "failed" stay true of the message they
  were said of.
* `DuplicatesArePaidFor`: over queue, retries, synchronous sends and resubmissions
  of all messages together, the deliveries beyond the first of each message are at
  most as many as faults of the queue and lost calls.
* `OutputIsThere`: what is fetched of a completed job is an output of it, and
  without a fault that of the attempt that completed it.
* `LostJobsNeedFaults`: rows nobody can ask about are at most as many as lost calls.
* `ReadableUnderItsRoot`: no row is sealed under a key other than its tenant's.
* `TokensBelong`: tokens are stored for, and answered to, their own tenant and user.
* `LockedOutOnlyDeletes`: while no process has a tenant's root key, its rows are
  at most deleted and its users' consents are not used up; setting the key back
  restores the tenant.
* `NothingLostWithoutFault`: no tenant without a holder of its API key, no consent
  used up for nothing.

### Bounds, and why they are enough

* `Job` bounds the jobs of a run; jobs interact only through the goroutines and
  the `run_at` order.  `jobqueue_safety` has two of them, one of them with an
  output, and one goroutine more, in two processes, so that a crash hits two
  goroutines and spares the third.  A mail differs from an SMS only in the
  provider's client, and comes in `jobqueue_live`.
* `MaxAttempts` is the schema's 3 in `jobqueue_safety`, where the backoff has two
  different lengths, and 2 (one retry, one last attempt) elsewhere.
* `MaxFaults` counts crashes and lost replies.  Three can hit every attempt of a
  job.  In `clients` and `tenants` one fault is enough to separate "nothing failed"
  from "something did", at every point of every call; `MaxLosses` adds one lost call
  to `clients`, so that both kinds of charges occur together.  That further ones do
  not add up to more is what the theorems show.
* `clients` runs over `JobLifecycle`, which lets it have three jobs and two calls.
  The same application over `JobQueue` is `clients_composed.cfg` (one goroutine, a
  mail and a program, one call, 1 fault and 1 lost call): TLC finds
  `ImplementsClients` and `PromisesKept` true of its 124 thousand states.  It is
  left out of the runs because what it shows is proved.
* `clients` gives the mail two ids, so that it can be sent again, and two calls,
  so that one is sent while another is in flight.
* `tenants` has two of everything that can be confused: processes, root keys,
  tenants, users, requests and authorizations.
* `Horizon` stops the clock of rows long overdue: only the order of due rows and
  whether they are due matter.  `Drift` is 1 unit (10 s).
* `MaxGrants`, `MaxClients`, `MaxRevocations` bound what the provider and the
  tenant do.  A third request is needed for one that is overtaken by a second
  while a third re-authorizes.
* Three writes let both columns of a shared row be written twice, by either API,
  with a third write elsewhere; two tenants are what can be confused.
* Template names 1 and 3 have a default and 2 has none, so that a custom name is
  listed after, and sorts between, the defaults.  Two upserts are enough to
  replace a definition while a request holds the earlier one.
* Requests, executions, calls, and in `tenants` also processes, keys, tenants and
  authorizations, are interchangeable and reduced by symmetry; no liveness is
  checked in those runs.

### Fairness

`FairSpec` assumes weak fairness of time and of each goroutine's own steps: the
ticker and the scheduler never stop, the database answers, and a Judge0 call ends
because its client has a 30 s timeout (`internal/code/judge0.go:34`).  It assumes
nothing about mail and SMS calls, because `net/smtp` (`internal/email/smtp.go:45`)
and `http.DefaultClient` (`internal/email/sendgrid.go:23`, `internal/sms/twilio.go:45`)
have no timeout and the workers' context is never cancelled
(`cmd/server/main.go:42`).  That is why the liveness properties speak of code
jobs, and why `CodeJobsSettle` excepts `Exhausted`: five hung calls stop the real
server.  `jobqueue_live` has as many mail and SMS jobs as goroutines, so that the
exception occurs, and shows that nothing less than all goroutines hanging stops a
code job.  It does not show that a stream of new jobs cannot starve one: its jobs
are three, with two attempts each.

## 4. Findings

1. **A job can run for ever** (`jobqueue_stranded`).  Only the goroutine that
   claimed a row takes it out of `running`.  After a restart, or one lost reply,
   the row stays there, though `db/migrations/000004_code.up.sql:11` speaks of
   polling the job to completion.
2. **Results of failed jobs** (`jobqueue_result`).  When the insert's reply is lost
   the attempt counts as failed; GetCodeExecution then returns the output of a
   job that is not completed, which `code_handler.go:125` excludes.
3. **A removed token comes back** (`oauth_deleted`): a refresh in flight inserts
   the row again after DeleteToken has answered.
4. **An old request undoes a new authorization** (`oauth_reauthorized`): last
   writer wins, so a request in flight since before stores its dead refresh token
   over the working one.
5. **The Judge0 fallback hides errors** (`configs_fallback`).  `code_handler.go:148`
   promises the deployment's server "when no tenant config is stored"; a failed
   query, or a stored value that does not decode, ends there too, so a tenant's
   code may run on a server it did not choose.

## 5. Proofs

`JobQueueProofs` proves, for all values of the constants that satisfy the
assumptions named in `JobQueue` (among them that `2 ^ attempt` units of 10 s fit
an int64 of nanoseconds for every attempt, which `max_attempts = 3` satisfies):

| theorem | property |
|---|---|
| `TypeCorrect` | `TypeOK` |
| `MutualExclusion` | `OneWorkerPerJob` |
| `NoStaleUpdate` | `OwnerSeesCurrentRow` |
| `CoherentPoll` | `PollCoherent` |
| `HonestOutcome` | `CompletedMeansDone` |
| `NoStrandingWithoutFault` | `StrandedOnlyByFault` |
| `FinishedForGood` | `TerminalIsFinal` |
| `ExactlyOnceUpToFaults` | `DuplicatesNeedFaults` |
| `BackoffRespected` | `BackoffHonoured` |

`JobQueueRefinement` proves `Refinement`: `Spec => Lifecycle!Spec`.

The argument has five layers, each an invariant preserved by every action given
the ones before it.

* `ClaimInv`: types; a goroutine holds a job exactly when it is busy; a locked
  job is pending, an owned one running with the attempt of the owner's copy; no
  two goroutines hold one job.  Neither mutual exclusion nor currency of the copy
  is inductive alone: a second claim is excluded because the row is *locked* up
  to the commit and *running* after it, and only the owner's write-back makes it
  pending again.
* `EffectInv`: what the outside has seen.  Acceptances of a job are counted
  against its starts, which needs the owner's place: a started job whose provider
  has not been called yet has one acceptance fewer.
* `WasteInv`: the acceptances that achieve nothing, of all jobs, are no more than
  the faults.  Repetitions alone are not inductive: the fault comes when a reply or
  an INSERT is lost, the repetition attempts later and maybe never.  So an
  acceptance counts as wasted from the moment its job is written off (`WrittenOff`):
  about to be retried or given up, or in the hands of a goroutine that will.
* `OutputsInv`: outputs stored are among the attempts accepted (finite sets and
  their cardinality).
* `BackoffInv`: time waited plus time to wait is the backoff, give or take the
  drift; a job being claimed is due.

The refinement maps `status` and `attempt` to the columns and everything else to
nothing: each provider call that is accepted is one abstract `Accept`, each claim
that commits a `Start`, each write-back a `Complete`, `Retry` or `Fail`, and every
other step a stutter.  `EffectInv` supplies the guards: a provider is called at
most once per start, and a job marked completed was accepted.  `WasteInv` supplies
`PaidFor`: what is in vain for the lifecycle after a step was wasted before it.

`OAuthTokensProofs`, for any number of requests, clients, grants and withdrawn
consents, whichever clients' refresh tokens rotate:

| theorem | property |
|---|---|
| `OAuthTypeCorrect` | `TypeOK` |
| `TokenStaysRefreshable` | `RefreshableUnlessTainted` |
| `RacesKeepRefreshable` | `OnlySuspectsHarm` |

A row is as good as the request that wrote it, so the invariant has to speak of
requests: one that is not suspect talks as the current client and holds a
working refresh token (`CleanInv`).  With rotation this holds only because a new
token is in no other hands, so nobody else can use it up (`UnsharedInv`), which
in turn needs that tokens are issued in sequence (`IssuedInv`).  The row itself
is good, tainted, or about to be replaced by the request that used it up
(`RowInv`).  The third theorem follows: a store by a request that is not suspect
stores a working token.

`AccountRefinement` proves `Spec => ImplementsConnectedAccount`.  The mapping is
not a function of the row alone, so the proof has to know when the *requests*
change it.  Two facts are added to the invariant (`AccountInv`): no request and no
working token belongs to a client from the future (`PastInv`), so a change of client
leaves no token working; and a request that holds a successor has used up the
token it was handed for (`SpentInv`), so issuing a token takes the account from
`working` to `renewing` exactly if that token was the row's.  Each store is then a
`Store`, or a `StoreStale` of a suspect; every end of a request is a `GiveUp`.

`ProviderConfigsProofs`, for any number of tenants, executions, writes and
failures: `ConfigsTypeCorrect`, `CredentialsAreOwn` (`OwnCredentials`) and
`CredentialsAreCurrent` (`NeverOutdated`).  Each row holds one write of its own
tenant (`RowsInv`), and rows only ever get newer, so the row an execution is
about to read is no older than it was at its beginning (`FloorInv`).  What is built
is that row (`BuildStep`) or, for Judge0, the row laid over the defaults
(`BuildCodeStep`), of which `OverrideType` says what it keeps: tenant, token and
write, and the server unless there is none.

`EmailTemplatesProofs`, for any number of names, requests and upserts:

| theorem | property |
|---|---|
| `TemplatesTypeCorrect` | `TypeOK` |
| `SendsWhatWasInEffect` | `SentWasInEffect` |
| `NothingBrokenIsRendered` | `SyntaxCaughtAtUpsert` |
| `TemplatesListedAreSent` | `ListedIsSent` |

Stored definitions parse, and the window of a request holds what is in effect for
its name now (`WindowInv`).  The listing is `ORDER BY` of a set of names, of which the
model says only that it is some sequence of them in ascending order.  That such a
sequence exists, and so that the listing is what the SELECT returns, holds for a
finite set: names may be infinitely many, but one upsert adds one row
(`FinitelyManyRows`), and in a finite set of numbers the one with *n* smaller ones
comes at *n* + 1 (`AscendingListing`).  The rest is arithmetic of positions: the
defaults come once each, the unseen rows once each, and no name is in both; and
for such names the two lookups find the same (`ListedAsResolved`).

`JobClientsProofs`, for any number of messages, rows, calls, attempts, faults and
lost calls:

| theorem | property |
|---|---|
| `ClientsTypeCorrect` | `TypeOK` |
| `AnswersStayTrue` | `ToldIsTrue` |
| `OutputReadable` | `OutputIsThere` |
| `DuplicatesPaidForInFull` | `DuplicatesArePaidFor` |
| `LostJobsArePaidFor` | `LostJobsNeedFaults` |

The application's knowledge is as good as the replies on their way to it, so the
invariant says of an answered call what its reply promises: the id is a row of
that message, the status was the row's and, if final, still is.  Of each message
the application knows at most one of these: a call it waits for, a row that has not
failed, a synchronous delivery (`OnceInv`).

What it does not know of is charged to a lost call.  `LostJobsNeedFaults` alone is
not inductive, since a lost call may insert its row, or reach the provider, later:
`Paid` counts together the lost rows, the orphaned sends that may still act, and
the synchronous deliveries nobody was told of.  `DuplicatesPaidForInFull` is the
sum: every delivery is in vain for the queue (and has a fault), or of a lost row or
unseen (and has a lost call), or it is the one its application knows of, and those
are one per message because of `OnceInv` (`DirectCount`, `QueuedCount`: injections
into the lost rows and the messages delivered, `FS_Injection`).
What holds of the queue comes from `JobLifecycle`, never from `JobQueue`.

`ClientsOverQueue` proves that it holds over `JobQueue` too:

| theorem | statement |
|---|---|
| `QueueComposed` | `SystemSpec => Spec`: the queue, whoever calls, is that of `JobQueue` |
| `ClientsComposed` | `SystemSpec => ImplementsClients`: the callers are those of `JobClients` |
| `PromisesComposed` | `SystemSpec => []PromisesKept`: the four properties of the callers, of the whole |

The first gives the composition the invariants of the queue.  For the second, a
`QueueStep` has to be a step of `JobClients`' `Workers`: `StepRefines` makes it a step of
`JobLifecycle`, which is not a `Submit`, since no goroutine makes a row appear
(`RowsAppearBySubmit`), and the instance of `JobLifecycle` inside `JobClients` says
the same of those rows (`WorkOfClients`).  The third applies the theorems of
`JobClientsProofs` to the instance; it has what `JobClients` assumes of its constants
(`SystemAssumption`) as a hypothesis.

`TenantsProofs`, for any number of processes, root keys, tenants, users, requests,
authorizations and faults:

| theorem | property |
|---|---|
| `TenantsTypeCorrect` | `TypeOK` |
| `SecretsReadable` | `ReadableUnderItsRoot` |
| `FlowsEndWhereTheyBegan` | `TokensBelong` |
| `LossesNeedFaults` | `NothingLostWithoutFault` |
| `LockedOutIsKept` | `LockedOutOnlyDeletes` |

A request that has opened something relies on its process' root key until it
answers (`RequestCoherent`): root keys change only with a restart, which ends the
process' requests.  That is why Callback cannot fail to seal what it exchanged,
although it asks for the data key a second time.  A code is exchanged once, so two
requests past the exchange have different authorizations (`OneExchange`), and the
state parameter names the tenant whose client the code was issued to
(`TripCoherent`).

Invariants were checked with TLC on the runs' instances before they were proved.
Besides the assumptions on the bounds, the proofs use that the constants for
"nothing" (`NoToken`, `NoConfig`, `NoTemplate`, `Nothing`) are not data.

Only model-checked: liveness (`CodeJobsSettle`), which is outside what the prover
handles.  Every other property of the passing runs is stated by a theorem.

## 6. Not modelled

* Contents: payloads, outputs, rendered mails, JSON, and what the provider clients
  put on the wire.  The cryptography: that AES-GCM opens with its own key only is
  taken for granted, as are the uniqueness of random keys and of SHA-256.
* A worker-only process with a root key that does not open a tenant's rows: it
  fails that tenant's jobs, which is a provider's refusal in `JobQueue`.
* The SDK methods other than the sends, `Jobs.Get` and `CreateTenant`: the same
  request and reply, around handlers that are modelled.  `GetAuthorizeURL`
  (`sdk/oauth.go:25`) only formats an URL; the route it names asks for an API key
  (`routes.go:31`), so that the request at `Authorize` is an authenticated one in
  the models, whoever makes it.
* An application that takes a 404 of GetJob, which any failing query yields
  (`handler.go:468`), for the end of its job and sends again: how applications
  behave is not in the repository, and the modelled one does not do this.
* Starvation: a stream of ever new jobs is beyond a finite set of them.
* Migrations, deployment scripts and infrastructure: no behaviour of the program.
* The user name "default" of GetToken and DeleteToken: Callback stores tokens
  under the provider's user ids, so it is a user without tokens.

## 7. State of the work, and what could follow

All components that keep state are modelled, checked and proved about.  Beyond
that:

1. The positive side of finding 3: a removed row comes back only by a request that
   was under way when it was removed, at most once for each of them.
2. No due job is passed over by later ones without bound: fairness among the jobs
   of several tenants, with ids of finished jobs used again.
3. Liveness of the clients' calls over a queue with `jobqueue_live`'s fairness.
