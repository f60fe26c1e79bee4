# A verification model of DeployHub (ShipZen)

DeployHub builds a Git repository into an image and runs it in a namespace of
its project. Four programs take part, and share PostgreSQL, Redis and
Kubernetes. This directory holds TLA+ modules that model them, TLC
configurations that check the modules on small instances, and TLAPS proofs of
the safety properties for all instances.

## 1. The system

| Part | State | Operations | Talks to |
|---|---|---|---|
| API, deployment submission (`api/main.py`) | none of its own | `create_deployment`, `rollback_deployment`, `github_webhook`, `github_app_webhook`: commit a `Queued` row, then XADD a message | deployments table, `deploy_stream` |
| API, projects (`api/main.py`, `api/database.py`) | none of its own | `create_project`, `delete_project`, `verify_project_access` | projects table |
| API, users, roles and members (`api/auth.py`, `api/main.py`, `api/database.py`) | users and project_members tables | `get_current_user`, `get_or_create_user`, `add_project_member`, `remove_project_member`, `update_user_role` | connection pool |
| API, environment variables (`api/main.py`) | one secret per project | `put_env_var`, `delete_env_var`: read, change, write back | Secrets Manager |
| Connection pool (`api/database.py`) | `db_pool`, connections lent | `init_db`, `get_connection`, `PooledConnectionWrapper.close` | every handler |
| Deployment list (`api/main.py`, `api/database.py`) | none | `list_deployments`, page by page | deployments table |
| Status WebSocket and page (`api/main.py`, `ui/.../page.tsx`, `AutoRefresh.tsx`) | a Pub/Sub subscription; what the page shows | `websocket_deployment_status`; connect, receive, read again, render | Redis pub/sub, deployments table |
| Repository analyzer (`api/analyzer.py`) | the walk's stack | `analyze_repo`, `RepoAnalyzer.walk_path` | a clone |
| Deploy stream (`worker/queue_client.py`) | stream, consumer group, pending entries, dead letter stream | XREADGROUP, XAUTOCLAIM, XACK, XADD to the DLQ | workers |
| Worker main loop (`worker/main.py`) | the batch it has read | `main`, `process_message` | stream, deployments table, build Jobs; starts a thread per Job |
| Build monitor (`monitor_job`) | one thread per build Job, in the worker pod | watch the pod, stream the logs, poll the Job, scan gate, write the state, delete the Job | build Jobs, deployments and builds tables |
| State machine (`worker/state_machine.py`) | one connection attribute per worker pod, shared by its threads | `update_state` (unconditional UPDATE, then PUBLISH), `get_deployment`, `_get_conn` with its check, reset and retry | deployments table, Redis pub/sub |
| Controller (`controller/main.py`) | nothing between two ticks | `reconcile`: provision, terminate or check each project; `reconcile_deployments`: heal, fail, promote, remove orphans | projects and deployments tables, tenant namespaces |
| Tenant cluster | namespaces; Deployment, Service and HTTPRoute per deployment | Kubernetes' own controllers, kubectl | controller |

What is hard about it:

* **Nothing makes two stores one step.** The row is committed before the XADD;
  the Job is created before the acknowledgement; the dead letter copy before
  its acknowledgement; the row is written before the status is published.
* **Everybody writes by id.** No UPDATE looks at the state it overwrites: API,
  workers, monitor threads and controller write over each other from snapshots.
* **Messages come back.** XAUTOCLAIM hands out every entry that has been
  pending for five minutes, also one that waits in a live worker's batch.
* **Check and act are two statements.** Whether a user is the first, may manage
  members, or is the owner is read in one statement and acted on in a later one;
  the environment variables of a project are read and written whole.
* **Threads share unguarded fields.** The pool is made lazily without a lock;
  a worker's threads check, close and replace one connection under each other.
* **Pods die.** A worker takes the monitor threads of its Jobs with it; the
  controller can die between any two calls of a tick.
* **Calls are ambiguous.** A call that raises may have taken effect.

What makes each part correct is stated as properties in sections 3 to 5; the
full list of hazards, each at its line with the properties that watch over it,
is `hazards` in `PROJECT.json`.

## 2. Modules

```
Faults ── Infra ── DeployDB ──┬── BuildMonitor ── Worker ─┐
   │        ├──── BuildCluster ┘        ┌────────┘        ├── BuildPipeline ── MCBuildPipeline
   │        ├──── DeployStream ─────────┴── DeployApi ────┘        │ refines
   │        │                                                      └── WorkQueue
   │        ├──── TenantCluster ──┐
   │        └──── DeployDB ── ProjectsDB ── Reconciler ── TenantPlatform ── MCTenantPlatform
   │
   ├── StatusChannel ─┬── StatusWriters ─┬── StatusFeed ── MCStatusFeed
   │                  ├── StatusPage ────┘       └ refines ── LaggingView
   │                  └── StateMachine ── MCStateMachine
   │                           └ refines ── StatusWriters
   └── ConnPool ──────────────┐
       Accounts ── EnvSecret ─┴── ApiService ── MCApiService
Listing          Analyzer ── MCAnalyzer
```

| Module | Models | How state and actions correspond |
|---|---|---|
| `Faults`, `Infra` | failures | `Fault`: a call raises, having taken effect or not; `Crash`: a pod is killed |
| `DeployDB` | deployments and builds tables, `update_state`, `record_build` | `row[d]` is the state column or why there is no row; `builds[d]` the results recorded |
| `DeployStream` | `QueueClient` over Redis | `log` is the stream, `lastRead` the group's last delivered id, `pel` the pending entries, `idle` those past the timeout |
| `BuildCluster` | Jobs and registry | `job[d]`, at most one per deployment as its name derives from the id; `image[d]`; `creates[d]` counts creations (history) |
| `BuildMonitor` | `monitor_job` | `mon[w][d]` is the thread's next call; one action per call that can raise |
| `Worker` | `main`, `process_message`, `add_to_dlq` | `step[w]` the next call, `cur[w]` the message, `batch[w]` what is left of the answer |
| `DeployApi` | the four submitting handlers | `req[d]` is where the request stands; they differ in what a failed XADD leads to |
| `BuildPipeline` | all of the above together, plus what the controller does to the same rows | `verdicts` are controller writes decided from a read and not yet done |
| `WorkQueue` | abstract specification: FIFO, at-least-once | `BuildPipeline` implements it: waiting = undelivered entries, held = pending, settled = delivered and not pending |
| `ProjectsDB` | projects table and its handlers | `status[p]`, `deletedAt[p]`; `deleting[p]`: past the access check and before the UPDATE |
| `TenantCluster` | tenant namespaces | `ns[n]`, `parts[d]`, `ready[d]`; drift from outside |
| `Reconciler` | the controller process | `at` is its next call, `todo` the snapshot of the tick, `rows`, `apps`, `orphans` those of the project in hand, `tx` the tick's connection |
| `TenantPlatform` | API handlers, controller and cluster together | the pipeline appears as arbitrary state writes |
| `StatusChannel` | one deployment's row and its Redis channel | `rows` is the history of the state column since the value the page last read, the last is the row; `inbox` what the session has not yet forwarded |
| `StateMachine` | `StateMachine` of a worker pod, thread by thread | `conn` is `self._conn` (0 is `None`), `lost` and `closed` say of which connections the server or this program let go; `call[t]` is the next step of a call, its attempt and the connection it was handed |
| `StatusWriters` | abstract specification: the same calls, each with a connection of its own | `StateMachine` implements it: a thread at `publish` is one that has written and not published |
| `StatusPage` | `websocket_deployment_status`, `page.tsx`, `AutoRefresh.tsx` | `link` is where the session stands, `answer` a read in flight, `shown` what the page shows |
| `StatusFeed` | workers, controller, API and page together | `verdict` as in `BuildPipeline`; `enqueue` the API's unpublished `Failed` |
| `LaggingView` | abstract specification: an observer that may lag and never goes back | `StatusFeed` implements it |
| `ConnPool` | `get_connection`, `PooledConnectionWrapper` | `pool` is `db_pool` (n is the n-th made), `lent[n]` what pool n counts as in use, `conn[t]` which pool a thread's connection is from and goes back to |
| `Accounts`, `EnvSecret` | users, project_members, the secret | one operator per SQL statement or Secrets Manager call |
| `ApiService` | the request threads of an API pod | `at[t]` is the next statement or call, `job[t]` the request with what it has read |
| `Listing` | `list_deployments` while rows are written | `stamp[r]` is `updated_at`, `cursor` the last key of the page before, `shown[r]` how often r was listed |
| `Analyzer` | `analyze_repo`, `RepoAnalyzer` | `stack` is the recursion: a directory and what its loop has still to come to |
| `MC...` | instances for TLC | |
| `PipelineProofs`, `PipelineQueueProofs`, `TenantProofs`, `StateMachineProofs`, `StatusFeedProofs`, `ApiProofs`, `ListingProofs`, `AnalyzerProofs` | theorems | section 6 |

Conventions. An action is one call that can raise, together with the code up
to the next such call, so that a crash or another process can come between any
two calls; in `ApiService` it is one SQL statement, at READ COMMITTED. "Mutant:"
in a comment marks a definition that is not part of the model: it is a
plausible bug, put in place of the definition after it to see that a property
notices. "(history)" marks a variable that no action reads and a property does.

Abstractions of the pipeline and the tenants:

* A deployment has one message and a message one deployment (ids are random
  UUIDs). The Job name keeps eight characters of the id; the model takes it to
  be unique.
* XAUTOCLAIM's cursor loop is one step. The idle clock is a set: any pending
  entry may become idle, as nothing bounds how long a worker is busy.
* An INSERT that raises leaves no row: the handler answers 500 and nothing else
  happens, so no action stands for it.
* Clone, configuration, detection and repository creation of `process_message`
  have no shared effect apart from columns nobody decides on: one step with two
  outcomes. The same holds for port detection and the scan gate.
* `S3_LOG_BUCKET` is taken to be set; without it no build is recorded at all.
* The three Kubernetes listings of a project are one step. The controller does
  not rely on them being consistent with each other.
* One controller runs (`infra/controller/deployment.yaml` says `replicas: 1`);
  the overlap of two during a rolling update is not modelled.
* Projects may share a namespace (`Home`): it is taken from the request and not
  unique (`api/schema.sql:18`). The names of what is deployed derive from the
  deployment's id and are told apart within it.
  In a shared namespace the deployments of the other project are orphans to the
  one in hand (`Reconciler!Orphans`), as they are in the code.
* `update_state` retries once. In the pipeline a call that raises inside it may
  write and let the thread go on in the same step, or write a second time; as
  the budget and not the call counts the attempts, more than two are possible
  where `MaxFaults` is more than one.
* An UPDATE that does not raise is taken to be committed in the pipeline and the
  tenants (`SettledIsHandled` rests on it). That it need not be after a reconnect
  is in `StateMachine` and `StatusWriters`, hence in `StatusFeed`.

Abstractions of the status feed:

* One deployment, one page. What a worker thread goes on to write is a script
  (`Scripts`), in an order `BuildMonitor` and `Worker` justify.
* What the session sends and the browser handles is one step: a WebSocket
  delivers in order, and the messages under way are those in `inbox`.
* A session whose client has gone unsubscribes when it next has something to
  send; until then it has no effect, so it ends with the socket.
* In `StateMachine`, an UPDATE that would wait for the row lock of a transaction
  that is never committed does not wait: the lock only leaves behaviours out.

Abstractions of the API:

* The roles editor and viewer are one: the code tells only owners from other
  members. There is one project, and its deletion is left to `ProjectsDB`.
* The threads are those of one pod. Two API pods share the tables and the secret
  and not the pool; for the tables a second pod is more threads.
* What `_token_cache` answers is not followed: a request whose token is not
  accepted does nothing. (An entry that expires between the look and the read at
  `api/auth.py:59` raises a `KeyError`, to the same effect.)
* A value of an environment variable is named after the user who put it.
* Whether `project_members` has the column `created_at` is chosen at the start
  (`dated`): `migrations/01_project_members.sql` adds it, `schema.sql`, which is
  all `init_db` runs, does not, and then every INSERT of `add_project_member`
  raises.

Abstractions of the list and the analyzer:

* The list's filters and the other two orders are left out. Timestamps are few
  and need not be written in their order, as they are taken before the UPDATE by
  the clocks of several machines.
* A directory is the set of its marker files; names and frameworks of services
  are left out, and so are symbolic links, directories that cannot be read and
  trees deeper than Python's recursion limit, which raise an error that
  `api/analyzer.py:180` swallows.

## 3. Runs

Every passing run is exhaustive. `FairSpec` is used where a property is about
what must happen.

| Run | Instance | Shows |
|---|---|---|
| `pipeline_one` | 1 deployment, 2 workers, 1 failed call, 1 killed pod | `TypeOK`; `OneMonitorPerJob`; `DeployedHasImage`; `SuccessHasImage`; `SettledIsHandled`; `NoOrphanJob` |
| `pipeline_batch` | a build and a rollback, 1 worker reading two at a time, 1 failed call, 1 killed pod | `DeliveredOnceBuildsOnce`; `AcceptedIsEnqueued`; `LifecycleOrder`; `QueueOrder` (the pipeline is a FIFO at-least-once queue) |
| `pipeline_live` | 1 deployment, 2 workers, 1 killed pod | `EverySettles`; `MonitorsEnd`; `ImplementsQueue` (the refinement with its fairness) |
| `tenant_one` | 1 project, 1 deployment, 1 failed call, 1 restart, 2 drifts, 3 pipeline writes | `TypeOK`; `OrphansGo`; `MissingIsMade`; `TerminatingEnds` |
| `tenant_two` | 2 projects in 1 namespace, a deployment each, 1 failed call, 1 restart | `GoneLeavesNothing`; `TenantsIsolated`; `ReadyHasNamespace`; `RunningIsUp` |
| `state_machine` | a monitor thread and the main thread of one worker, 2 failed calls | `ImplementsWriters` (until a call has failed, sharing the connection adds nothing to what threads with one each could do; then calls may raise and writes stay uncommitted, and nothing else) |
| `status_feed` | a rollback, a build with a second worker that fails it, or one that is built again after a redelivery; controller, API, a page; 1 failure | `TypeOK`; `NothingMissed`; `NeverGoesBack` (the refinement of `LaggingView`); `FinalIsShown` |
| `api` | 2 threads, 2 users, 2 variables, 3 requests of any kind, 1 connection, 1 failed call | `TypeOK`; `NoConnLost`; `Founded`; `ActsEntitled`; `OwnerStays`; `VariablesKept` |
| `listing` | 4 deployments, pages of 2, 3 timestamps | `TypeOK`; `ListedOnce` |
| `analyzer` | all sets of marker files in one directory; all trees of 4 directories, any invalid, any skipped | `TypeOK`; `ReportedRight`; `MissedBesideInvalid` |

Each run named `claim_...` takes a sentence of the repository and finds a
behaviour of the code that contradicts it; `findings` in `PROJECT.json` quotes
the sentence.

| Run | The sentence | What happens instead |
|---|---|---|
| `claim_delete` | the controller deletes the namespace, then the row | a delete during provisioning is overwritten by `Ready` and can never be repeated |
| `claim_commits` | PostgreSQL is the source of truth of a state | after a reconnect a thread may use the new connection before autocommit is set on it: its UPDATE is published and never committed |

Other sentences of the repository that the models contradict, without a run of
their own:

* A failed build is finalized (`worker/main.py:74`): the three failure blocks of
  `monitor_job` label a metric with `project_id_db`, which exists only in
  `process_message`. The `NameError` comes before `update_state` (lines 221 and
  229), the Job is deleted, the thread ends, and the row stays `Building`
  (`BuildMonitor!JobSeenFailed`, `ExceptBlock`).
* A namespace of its own for every project, shared ones "will be rejected"
  (`docs/adr/0004-multi-tenancy-model.md:5,9`): nothing rejects one. When one of
  two such projects is deleted, the controller deletes the namespace under the
  other; `Alone` and `Sole` in the properties of `TenantPlatform` stand for this,
  and without them TLC finds it in a few steps.
* "exactly-once" at the application level (`docs/adr/0001-queue-system.md`): a message that
  waits in a batch is claimed and built by another worker, then built again by
  the first one (`worker/main.py:251`). What does hold is
  `DeliveredOnceBuildsOnce` and `OneMonitorPerJob`.
* Builds that are picked up by another pod (`docs/ISSUES_AND_RESOLUTIONS.md:105`):
  the message is acknowledged when the Job has been created
  (`worker/main.py:380`), and nobody follows the Job after a crash.
* "Rollback queued": `rollback_deployment` answers 202 although its XADD raised
  (`api/main.py:596`), which is why `AcceptedIsEnqueued` leaves rollbacks out.
* Drift is corrected (`docs/adr/0006-reconciliation-engine.md`): a Deployment that was recreated is judged
  by replicas that had no time to come up, written `Failed`, and then removed
  (`controller/main.py:351`).
* Routes are cleaned up per deployment (`docs/adr/0003-networking-layer.md`): after a failed Service
  delete the HTTPRoute stays, as orphans are only looked for among Deployments
  (`controller/main.py:404`).
* Stale connections are retried (`worker/state_machine.py:24`): only an
  `OperationalError` is; a connection another thread has closed raises
  `InterfaceError`, which leaves the call. The retry may also write the row a
  second time, over what others wrote meanwhile; `StatusWriters` allows both.

Smaller observations, made while reading: the last admin can demote himself
(`Founded` allows for it); `audit_logs` is called append-only and cascades with
its project; the page calls `notFound()` whatever is wrong with a read; a page
that has received a final state never connects again, so a final state that is
overwritten afterwards is not followed; the service of a repository's root is
named after the temporary directory of the clone.

### Bounds, and why they are enough

* `MaxFaults`, `MaxCrashes` (1 each where used). Each can strike at any call,
  and what a second one could add is another visit to `StartOver` or to the
  controller's except block, which keep nothing of the first. In
  `pipeline_live` calls do not fail: for the main thread a call whose answer is
  lost has the effect of a pod killed right after the call, and that is there.
  `state_machine` has two, as one failure alone never reaches the second attempt
  of a call whose connection another thread is replacing.
* Two workers are what redelivery needs; a third would repeat the role of the
  second. Two messages are what the order of a batch needs.
* `MaxWrites` (arbitrary state writes of the pipeline) lets a row go to
  Deploying, be overwritten and come back within a tick; `tenant_two` has one,
  for resources to exist and a row to be promoted: what more of them could do to
  its properties is left to their theorems.
  `MaxDrifts` lets a second resource vanish while the first is healed.
* `tenant_one` checks liveness with one project. The controller handles projects
  one after the other; what a second one adds to the tick of the first is that
  its failure may end it, which a failed call or a restart does too.
* `creates` is unbounded in the type; in an instance it is bounded by the
  redeliveries, each of which needs the previous Job to be gone.
* `MaxPending` (events that show the pod Pending, each published as `Queued`
  without a write) is 1: a second one leaves the page where the first did.
* `MaxRequests` is 3: the longest story a property needs is a project created,
  a member added, and he removed or demoted; or the secret created and two
  changes of it. Two of the three overlap, as there are two threads. `MaxConn` is
  1, so that the pool is exhausted whenever they do. Threads, users and variables
  are interchangeable (no property or action names one), hence `SYMMETRY Sym`;
  the run checks no liveness.
* In `listing`, pages of two and three timestamps for four rows make a page end
  between two rows that share its last timestamp; in `analyzer`, four directories
  give a chain of three below the root, and siblings at two levels.
* Where an instance has a theorem (section 6), the theorem is what says the
  bounds do not matter.

## 4. Fairness

`BuildPipeline!FairSpec` assumes weak fairness of each worker's main thread, of
each monitor thread, of each Job (it has a 30 minute deadline), of the idle
clock, and of a request handler once it has committed its row. Nothing obliges
a client to send a request or the controller to act. The threads run in loops
without a lock, so a step that stays enabled is taken; the only blocking calls
have a timeout or a deadline.

`TenantPlatform!FairSpec` assumes weak fairness of the controller as a whole
(its `while True` loop; choices inside it, such as which project comes first,
are not assumed fair), of Kubernetes finishing a terminating namespace, and of
pods coming up.

`StatusFeed!FairSpec` assumes weak fairness of the browser (a read it wants, the
rendering of an answer, a reconnect after three seconds), of the session (read,
send, forward), and of the proxy, which closes a socket that has been idle for
100 seconds; `AutoRefresh.tsx` counts on that. Nothing obliges a writer to write
or to publish.

## 5. Properties, by hazard

The properties are stated where the state they relate is (at the end of the
module), each with a comment that says what it is about. In short:

* Redelivery: `OneMonitorPerJob`, `DeliveredOnceBuildsOnce`, `QueueOrder`,
  `EverySettles`, `ImplementsQueue`.
* Two stores, one intention: `SettledIsHandled`, `AcceptedIsEnqueued`,
  `GoneLeavesNothing`, `NothingMissed`, `FinalIsShown`.
* Writes from a snapshot: `DeployedHasImage`, `SuccessHasImage`,
  `LifecycleOrder`, `ReadyHasNamespace`, `TenantsIsolated`, `RunningIsUp`,
  `NeverGoesBack`, `VariablesKept`.
* Check, then act: `Founded`, `ActsEntitled`, `OwnerStays`.
* Shared fields: `ImplementsWriters`, `NoConnLost`.
* Left behind: `NoOrphanJob`, `MonitorsEnd`, `OrphansGo`, `MissingIsMade`,
  `TerminatingEnds`.
* Data that moves under an algorithm, and its exceptions: `ListedOnce`,
  `ReportedRight`, `MissedBesideInvalid`.

Several of them hold only in part of what one might wish, and say so in their
hypothesis: `LifecycleOrder` of deployments delivered once and without failed
calls; `NothingMissed` when everything was published and the row has not come
back to a passing state; `ReadyHasNamespace`, `TenantsIsolated` and `RunningIsUp`
without drift and as far as no other project of the same namespace interferes;
`TerminatingEnds` once a tick has read `Terminating` and unless a failed call
gives the project up; `VariablesKept` of requests no other request on the variables overlapped.
Without the hypothesis TLC refutes each of these.

## 6. Proofs

TLAPS checks these for every set of workers, deployments, projects, threads and
users, every batch or page size and every bound on failures and requests. The
assumptions are those named in the modules (`BudgetAssumption`,
`BatchAssumption`, `WorkerAssumption`, `HandlerAssumption`, `RollbackAssumption`,
`ProjectAssumption`, `ClusterAssumption`, `HomeAssumption`, `ScriptAssumption`,
`PendingAssumption`, `PoolAssumption`, `RequestAssumption`, `ListingAssumption`,
`RepositoryAssumption`); no theorem has a hypothesis beyond them.
`FeedInv` and the analyzer's `WalkInv`, the longest of the strengthened
invariants, were also model-checked.

The pipeline (`PipelineProofs`, `PipelineQueueProofs`):

* `TypeCorrect`: `Spec => []TypeOK`.
* `JobNameIsALock`: `Spec => []OneMonitorPerJob`. The invariant is inductive
  with `TypeOK`: a monitor starts only with a create that found no Job, and
  then no other monitor is alive, since each of those would have its Job; and a
  Job is deleted only by the monitor that ends with it.
* `NothingDeployedWithoutImage`: `Spec => []DeployedHasImage`. Not inductive:
  Deploying is written by a monitor two calls after it saw the Job succeed, and
  Running by the controller long after it saw Deploying. The strengthening says
  that a Job that has succeeded, a monitor past the gate and a pending `Running`
  verdict each imply the image, and that a worker writes Deploying only for a
  rollback. `SuccessIsRecordedOfImages` (`[]SuccessHasImage`) follows from it.
* `NoJobIsLeftAlone`: `Spec => []NoOrphanJob`. Inductive; what the proof adds is
  that failures do not go away, so that a step after which nothing has failed is
  one in which every call answered.
* `SettledMeansHandled`: `Spec => []SettledIsHandled`. The strengthening
  (`HandledInv`) records what a worker knows at each step: at `skip` the row has
  left Queued or a rollback wrote it, at `ack` a Job was created, at `dlq` and
  `dlqAck` Failed was written; and since no writer ever writes Queued, what left
  Queued never comes back. It also needs that a message exists only for a row
  that was inserted.
* `StreamIsAQueue`: `Spec => QueueOrder`, the safety half of the refinement of
  `WorkQueue`. `QueueInv` says that a request still to be sent is not in the
  stream, hence nothing is in it twice, and that what is pending was delivered;
  each step of the pipeline is then a Send, a HandOut of the next few, a Settle or
  a stutter. `AcceptedMeansEnqueued` (`[]AcceptedIsEnqueued`) comes from the
  same invariant.
* `DeliveredOnceIsBuiltOnce`: `Spec => []DeliveredOnceBuildsOnce`. `OnceInv`:
  until it is claimed an entry is in the hands of at most one worker, in its batch
  or in front of it and not both, in nobody's before its delivery, and while
  somebody holds it no Job was created.
* `StatesComeInOrder`: `Spec => LifecycleOrder`, an action property. `OrderInv`
  says, of a deployment delivered once in a run without failed calls so far, who
  has it in hand and which states its row can be in there: untouched while a
  worker works on it, what its monitor's step says once it is watched, given up
  once it is in the dead letter stream. A controller's verdict never is in the
  way, as it only follows Deploying or Running.

Projects and controller (`TenantProofs`):

* `TenantTypes`: `Spec => []TypeOK`.
* `NothingIsLeft`, `Isolation`, `ReadyMeansNamespace`:
  `Spec => []GoneLeavesNothing`, `[]TenantsIsolated`, `[]ReadyHasNamespace`,
  whichever projects share a namespace. The three follow from one invariant, `TenantInv`. A tick acts on statuses that may be stale by then,
  and what makes that safe differs with the status. One that was seen Terminating
  still is Terminating, because only the controller takes a row out of it
  (`EndingSeen`), and it takes a row away only in the project's own turn
  (`RowsSeen`), after it has seen the namespace gone; so a namespace is there only
  while some row names it (`NamespaceHasRow`), and what was deployed of a project
  goes with its row (`GoneIsBare`). A namespace that terminates without drift is
  one of a deleted project (`EndingIsFinal`), and between the look at the
  namespace and the write of Ready nothing takes it away but drift or the
  deletion of another project of that namespace (`ReadyIsActive`).
* `RunningMeansUp`: `Spec => []RunningIsUp`, on top of `TenantInv`. The
  controller promotes by a listing and removes orphans by rows it read before
  that. `UpInv`: only it writes Running, so a row it has read in another state
  becomes Running by its own promotion alone, and no orphan is Running when it is
  removed (`Unserved`, `TasksServed`); and resources that go with a namespace
  belong to a project that can never be Ready again (`Doomed`).

The status of a deployment (`StateMachineProofs`, `StatusFeedProofs`):

* `StateMachineImplements`: `Spec => ImplementsWriters`. The abstract call raises,
  or loses its write in a transaction nobody commits, only when some call has
  failed before; the invariant `FaultInv` says that whatever makes a thread find
  the shared connection unusable (lost, closed, dropped, without autocommit, or a
  second attempt) has such a failure behind it. That the first connection is
  there and configured before any monitor runs is part of `Init`:
  `process_message` reads the row first (`worker/main.py:250`).
* `PageNeverGoesBack`: `Spec => NeverGoesBack`. Every step of the feed writes, or
  looks, or leaves row and page alone. It holds for arbitrary scripts, since the
  page shows what it reads and not what it is told.
* `FeedTypes`: `Spec => []TypeOK`.
* `PageMissesNothing`: `Spec => []NothingMissed`, for arbitrary scripts. What the
  property leaves out is a row that came back to a passing state, as a redelivered
  build makes it do. There the page can stay behind: it has handled the message
  `Building`, its socket drops, the row is read as `Deploying`, the second build
  writes `Building` while no session is subscribed, and the first message of the
  next session, `Building`, is ignored because the last one said the same.
  `FeedInv`: a row the page does not show is wanted, being read, on its way to the
  session, or still to be published by who wrote it (`NoticedInv`); what lets the
  page drop a message is that a state it has been told of has not come again
  (`SeenInv`, `PassingInv`).

The API (`ApiProofs`). Each step of a request
is first reduced to its effect on the tables and the secret, and on the pool;
the invariants are proved of the effects.

* `ServiceTypes`: `Spec => []TypeOK`.
* `PoolLosesNothing`: `Spec => []NoConnLost`. `NoConnLost` is about the pool in
  use; when a second one is made in a race, connections of the first are put into
  the second, which raises. `PoolInv`: each pool counts as lent at least what the
  threads hold of it, the one in use exactly that, and a connection never goes
  back to a pool older than its own.
* `RequestsAreEntitled`: `[]ActsEntitled`. `Rights`: whoever is past the check,
  or carries the role admin, was entitled at some time since his request began.
* `OwnerIsKept`: `[]OwnerStays`. `Ownership`: the project is created once, and who
  is about to be removed is not its owner; nobody becomes one later.
* `FirstUsersFound`: `[]Founded`. `Founding`: who is about to be inserted as a
  plain user has seen one, and who is about to be inserted as an admin when there
  are some already was under way when the first one was.
* `VariablesAreKept`: `[]VariablesKept`. `Variables`: what a request without
  others beside it has read is what is in the secret.

The list and the analyzer (`ListingProofs`, `AnalyzerProofs`):

* `ListTypes`: `Spec => []TypeOK`.
* `WalkIsExact`: `Spec => []ListedOnce`. `WalkInv`: a row nobody has written has
  been listed exactly if it is not older than the cursor; the keys are totally
  ordered, which is where the id in the comparison is needed.

* `AnalyzerTypes`, `ServicesAreRight`, `NothingElseIsMissed`:
  `Spec => []TypeOK`, `[]ReportedRight`, `[]MissedBesideInvalid`, for every
  repository that is a tree (`RepositoryAssumption`; without symbolic links a
  file system is one), up to Python's recursion limit, which `Analyzer` does not
  have. What is reported is right because the stable sort of the candidates amounts to a fixed order of
  preference (`BestIsPreferred`). Nothing else is missed by `WalkInv`, an
  invariant about the recursion that needs none: every visible directory that is
  not yet reported, nor beside an invalid one, has on its path (itself
  included) a directory that some loop on the stack has still to come to. The
  path is defined without recursion, as what all sets share that hold the
  directory and are closed under "the directory above" (`PathThroughChild`).

Only model-checked: liveness under fairness (`EverySettles`, `MonitorsEnd`,
`ImplementsQueue`, `OrphansGo`, `MissingIsMade`, `TerminatingEnds`,
`FinalIsShown`). Liveness and ENABLED are outside the proof system's reach; the
safety half of `ImplementsQueue` is `StreamIsAQueue`. Every invariant and every
action property of the passing runs is a theorem.

## 7. Not modelled

* The two log streams: they forward lines nobody reads back. (Their sockets are
  only closed from outside.)
* The other lists, builds, logs and audit endpoints: one query, one answer.
* `enforce_retention_policy`, which nothing calls.
* The builders' manifests: string templates. What matters of a Job is in
  `BuildCluster`; the quotas, policies and RBAC of a tenant are not followed.
* Metrics and dashboards, the other pages of the web UI, Terraform, CI: nothing
  in them changes the state the models are about.

## 8. Plan

Done: the pipeline, projects and controller, the status feed, request handlers,
pool, list and analyzer, with the abstract specifications `WorkQueue`,
`StatusWriters` and `LaggingView`, and the theorems of section 6.

Left:

1. A second API pod in `ApiService`: the tables are shared, the pools are not.
2. The overlap of two controllers during a rolling update.
