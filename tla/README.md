# RepoWorker: TLA+ models, checks and proofs

RepoWorker gives an MCP client authority over one Git repository: it copies the
live tree into *generations*, lets one lease holder change a generation and run
processes in an isolated container, and integrates the result into the live
tree after verification and an operator's confirmation. This directory models
the parts of it whose correctness depends on order, failure and restart.

Everything is translated from the Go code; source lines per definition are in
`PROJECT.json` ("map"), and so are the findings and the hazards.

## 1. Inventory

Paths are below `internal/` unless they start with `cmd/`.

| Component | State | Operations | Used by / uses |
|---|---|---|---|
| Workspace authority `workspace/workspace.go` | per generation a directory, `.generation.json`, `.lease.json`, `.runtime-owner.json`; the counter `.fence`; a flock | open, recover, materialize, discard, acquire, renew, release and assert a lease, refresh, reserve and release a runtime | control plane, runtime manager |
| Integration `workspace/integration.go` | one journal file per integration; the live root | plan, apply step by step, replay when opened | control plane; the same mutex as the authority |
| Runtime manager `runtime/runtime.go` | map and `.runtime.json` per generation; containers | create, start, stop, delete, recover, lookup | control plane; asserts leases; adapters run the container command line |
| Control plane `controlplane/plane.go` | cached workspace records, session, processes, loop goroutines | one method per tool, open, close | everything below; called by the MCP server |
| Autonomous runs `controlplane/automation.go` | run configuration in events, `loopCancels` | start, pause, resume, approve, verify | loop controller, event store, workspace |
| Loop controller `loop/loop.go` | phase, retry count, failed actions, in `loop.state` events | phases inspect to checkpoint, diagnose and retry | model and authority interfaces, event store |
| Event store `events/store.go` | SQLite: runs, events, checkpoints, artifacts; artifact files | append, list, update status, add artifact, collect garbage | loop, automation |
| Scheduler `scheduler/scheduler.go` | submitted jobs; counters local to a run | submit, run | callers' job functions |
| Security engine `security/policy.go` | sessions and nonces, enrollments, confirmations, trusted references, audit log | create session, authorise, confirm, consume | control plane, operator channel |
| Replay cache `security/request_replay.go` | recent request identities | accept | MCP transport |
| Authentication `security/auth.go` | none | check a credential | MCP server |
| Operator channel `operator/channel.go` | socket, seen nonces | accept a signed approval, close | security engine |
| Process supervisor `process/` | chunks in memory or spilled, outcome | start, read from a cursor, cancel, wait | control plane |
| Task state `taskstate/` | tasks with revisions, in JSON files or SQLite | create, update, read, migrate | MCP server |
| Environment cache `environment/` | environment identities and manifests | create an identity, look up and publish (unused) | control plane |
| Intelligence `intelligence/` | none | plan a verification | control plane |
| Publication `publication/` | none; a remote repository | plan, dry run, publish | control plane |
| File tools `repo/` | a mutex; the tree | read, search, patch, create | MCP server, control plane |
| Verification runner `verify/` | one helper process | run a preset with a timeout | MCP server |
| Memory `memory/store.go` | SQLite entries | append, search | MCP server |
| MCP server `cmd/repoworker/` | flags, transport sequence | one handler per tool | control plane |

### What is hard, and what makes each part correct

* **Workspace authority.** Every operation is a handful of file writes, and the
  process can end between any two. `AssertLease` locks and unlocks the mutex;
  refreshing and reserving lock it again. A fence must name one ownership epoch
  for ever; a restart must leave nobody with authority; quarantine must hold.
* **Integration.** The journal is the only thing a crash leaves. It must always
  say what is in the live tree; it must only move forward; edits of the live
  tree and of the candidate interleave with every read.
* **Runtime manager.** Three copies of a runtime's state (map, file, container)
  and a command line that may fail after its effect. No second container may
  run for a generation, nothing may be resurrected, STOPPED must be true.
* **Scheduler.** One loop, one goroutine per job, an errgroup that cancels on
  its own, and a `select` that is free to prefer cancellation over results. No
  budget may be overdrawn, dependencies come first, everything is drained.
* **Loop and automation.** Phase and retries are an event log; run status, run
  binding, candidate snapshot and the plane's plans live in four more places. A
  pause, a crash, a second resumption or shutdown meets any combination of them.
  Only a verified run may complete, retrying must converge, and nothing may be
  written once the plane is closed.
* **Confirmation.** What is offered, what is approved, what is presented and
  what is executed are computed at four times, from a candidate that others
  write to. An approval must let its own action through, at most once.
* **Security engine.** The nonce is kept by the engine and by the caller; a
  denial changes only one copy.
* **Process supervisor.** Readers, wait, timeout, cancellation and clients that
  read by cursor all run at once. Nothing may be lost, repeated or changed after
  the outcome, and Wait must return whatever the process does.
* **Task state.** One store takes over the files of another; a crash may come
  anywhere, and no task may be lost, duplicated or left GREEN after its head
  moved.
* **Event store, environment cache, replay cache, publication.** See section 6.

The sources of these difficulties are listed one by one, at their lines, under
"hazards" in `PROJECT.json`.

## 2. Plan

Written in this order, the most important first:

1. `WorkspaceLease` with its abstraction `FenceAuthority`; `IntegrationJournal`;
   `Scheduler`; `RuntimeManager`. Proofs for the first three.
2. `AutonomousRun`: the loop controller composed with the authority, the client's
   calls and the shutdown of `automation.go` and `plane.go`.
3. `OperatorConfirmation` with its abstraction `OneTimeApproval`: the session's
   nonce, offers, approvals, confirmations, integration and publication.
4. `SupervisedProcess`: readers, wait, kill, spill file, cursor reads.
5. `TaskStore` with its abstraction `TaskTable`: both stores and the migration.
6. Proofs for `OperatorConfirmation`, `AutonomousRun`, `TaskStore` and
   `RuntimeManager`.
7. Proofs for `SupervisedProcess`, the budgets of the scheduler, and what the
   newest journal says of the live root. With them every invariant and action
   property of the passing runs is a theorem.

Left: a `Materialize` that walks the tree step by step; two processes over one
state directory.

## 3. Modules

Each component has a module with its actions, a `...Props` module with the
properties, an `MC...` module with the values for TLC, and where there are
theorems a `...Proofs` module. A property's comment says which behaviour of the
code it is about. Operators named as a variation of another (`FenceNotAdvanced`
before `NextFence`, `PassedAll` before `Passed`) are plausible mistakes, placed
beside the definition they would replace; each property is known to catch one.

Where two components interact, one module holds both: the loop with the plane's
plans and shutdown (`AutonomousRun`), the plane with the security engine and the
operator (`OperatorConfirmation`), the runtime manager with leases and the
plane's opening (`RuntimeManager`), supervisor with container starter
(`SupervisedProcess`). What the one needs of the others is reduced to it: an
expired lease is an operation that fails, a snapshot is the tree's content.

### WorkspaceLease (workspace.go)

`dir[g]` is the directory of a generation together with the `State` in its
metadata; `lease` and `reservation` are the two owner files, `fence` the counter
file. `handles` are the leases that callers hold in memory; `pending[c]` is a
call between `AssertLease` and its second critical section. One action stands
for one critical section under `r.mu`, split where the process may end between
two writes (`AcquireLeaseFails`, `RecoverInterrupted`, `MaterializeCrashes`,
`DiscardCrashes`). `Crash` loses `handles` and `pending` and nothing else. Time
is `clock`; a lease expires when the clock reaches it, with no step of the
program. `openFence` is history: the counter when the repository was opened.

`FenceAuthority` is what the files promise: a resource is free, or held under a
fence greater than all fences before. `WorkspaceLeaseProps` maps `last` to the
counter file and `held` to the fences in the lease files.

### IntegrationJournal (integration.go)

`live` has regular files and directories, so that a path can be a file in one
tree and a directory in another. `planning` is a plan being computed, `applying`
the call that holds the mutex and which of its four sub-steps is next, `journal`
the files, `todo` what the opening has yet to replay. `WriteStep` is the unlink
or rename itself; `WriteStepFails` everything that can happen instead, with the
parents made or not. `EditLive` and `EditCandidate` are other programs. A digest
is identified with the content it digests, so a plan holds contents; the staged
blob is a field of its own because it is read at another time.

### Scheduler (scheduler.go)

`at` is where the loop of `Run` stands (`top`, `dispatch`, `select`, `wait`),
`state`, `used` and the counters are its local variables, `goroutine[j]` is the
job's goroutine (executing, its result sent, ended). The errgroup's first error
and its cancellation happen in `End`, after the result was sent, as in the code.
`Budget` unites the nine limits: each is a set of jobs that count, a cost and a
limit, and `Fits` compares all of them. `Pressure` lets the host pass over any
job, which stands for load and thermal sampling.

### RuntimeManager (runtime.go with its callers in plane.go)

`mem`, `file` and `container` are the three copies; every adapter call and every
write is an action, and each has its failing disjuncts, for adapter calls with
and without the effect. `call[c]` is where a caller stands, holding `m.mu` while
`at` is in `Locked`. The lease files are reduced to a fence per generation with
`Expire`, `Attach` and `Discard`. `Open` to `Serve` is the opening of the control
plane in its order: load the runtimes, recover them, then clear all leases.

### AutonomousRun (loop.go, automation.go, parts of plane.go and store.go)

`tree` is the candidate; `record`, `plans`, `run`, `config`, `log` and
`checkpoints` are the places that know something about it. `loop[l]` is a
goroutine of `launchLoop`: where it stands in `Controller.Run`, the binding of
its request and of its model, its `State`. A step ends where another goroutine,
the client, an editor, a crash or `Close` can come between: verification has two
(`StartVerification`, `EndVerification`), the patch phase five (`ApplyPatch`,
`RefreshGeneration`, `Replan`, `Rebind`, `UpdateRunBinding`). `AuthorityFails`
and `ModelFails` are failures without an effect, `AuthorityRefuses` the checks
that look at state. `client` is one client call, and two goroutines may run on
one run because `ResumeLoop` accepts a run that is running.

A binding is identified with its snapshot: repository and policy are fixed, and
the environment's identity is computed from the tree. The log is reduced to the
set of bindings in it and its last state, which is all `load` looks at. The real
model always proposes the same plan, so that every diagnosis ends the run; the
module allows any plan, which is what the controller is written for.
`ApplyPatch` is one step; that of the runtime which a resumption may have to
replace is `ClientFails`.

### OperatorConfirmation (policy.go, plane.go, automation.go, channel.go)

`session`, `expired` and `inStep` are the session and whether the plane's nonce
is the engine's. `pending` is the plane's map of offers, one per class.
`approval[a]` goes from `sent` over `taken` (no longer pending, not yet issued)
to `live` and `over`; request, nonce and token have one identity. `call[c]` is a
tool call between its check and its build, or before its authorisation. A
denial leaves the session out of step until the process restarts
(`FallOutOfStep`). `Exported` says whether two exported methods that only tests
call are called as well. `verified` and `performed` are history.

`OneTimeApproval` is the promise: an approval names one action, is used at most
once, and lapses. `OperatorConfirmationProps` maps `usable` to the confirmations
that are live in the engine.

### SupervisedProcess (process.go, container.go)

`child` is the process with its exit code, `written` and `taken` what it wrote to
and what was read from each stream, `pipes` the reading ends. `reader[s]` is a
reader goroutine, with what it holds between `Read` and `appendChunk`; `waiter`
the goroutine in `Wait`; `supervisor` where `supervise` stands; `memory`,
`spill` and `spilled` the output. `client` is the list of cursors a client has
got. A line of the spill file may be missing or half written, since the errors
of `writeChunk` are ignored, or longer than the scanner takes (`long`).
`Cmd.Wait` closing the pipes, and `CommandContext` killing, are modelled as
package os/exec documents them.

### TaskStore (taskstate.go, sqlite_store.go)

`files` and `moved` are the JSON files and the renamed ones, `version`, `marker`
and `rows` the database, `app` how far opening has come, `call` the call in the
store's mutex, between the two questions to Git. `release` is which store the
program uses: the first may have run for any time before the second. A
transaction is one step, and so is replacing a file by renaming. Only one
process runs, under the lock of the workspace authority (plane.go:129-134).

`TaskTable` is the promise: tasks only get added, move their head and become RED
with it, or are verified. `TaskStoreProps` reads the table from the row where
there is one and from the file otherwise, so that the whole migration is a
stutter.

## 4. Runs

| Run | Question | Result |
|---|---|---|
| `workspace_lease` | fences, restarts, quarantine, reservations; refinement of `FenceAuthority` | holds |
| `journal_crash` | does the newest journal describe the live tree after any crash? | holds |
| `journal_edits` | which edits slip in; openings; do calls and openings end? | holds |
| `journal_size` | does a finished journal stop an opening? | yes: when longer than 64 KiB |
| `scheduler` | budgets, dependencies, draining, nil, termination | holds |
| `runtime_manager` | resurrection, two containers, STOPPED, reservations | holds |
| `autonomous_run` | completed means verified; failed actions; convergence; nothing after Close | holds |
| `operator_confirmation` | one use per approval (refinement of `OneTimeApproval`); what is integrated was verified | holds |
| `publication_never` | does an approved publication pass? | no: the approved and the executed binding differ |
| `supervised_process` | reading by cursor, finality of the outcome, does Wait return? | holds |
| `process_output` | is the output of a process complete? | no: `Cmd.Wait` closes the pipes under the readers |
| `task_store` | refinement of `TaskTable` through the migration; commits of main; refusals | holds |

The three runs that fail each state a sentence of the documentation or what a
test expects; the finding in `PROJECT.json` quotes it.

Two of the properties that hold say exactly how far the code goes.
`IntegratesVerifiedUnlessEdited`: check and build are separate steps in both the
plan and the integration, so that a candidate edited at the right moment of both
is integrated without having been verified; one edit is never enough.
`TasksAreOfMainUnlessStrayed`: a checkout between the two questions of a snapshot
stores a commit of another branch; nothing else does.

### What the models show beside the runs

Behaviours a maintainer may not expect, which no document excludes and which
therefore have no run:

* A lease is asserted in one critical section and used in the next: a refresh
  may write under a lease that has expired meanwhile (workspace.go:467).
* The staged blob is read after the digest of the plan (integration.go:129).
* Replay quarantines an integration of which no step was begun
  (integration.go:334).
* When the failing job's result and the cancellation it causes race, the
  scheduler may return "context canceled" (scheduler.go:243).
* A process may be started under a lease that has just expired (plane.go:620).
* Recovery stops only containers recorded RUNNING; one recorded READY or FAILED
  may run on, and is never joined by a second (runtime.go:283). `Recover`
  quarantines a runtime whose generation is gone without asking the container
  service (`RecoverUnbound`).
* A run interrupted after its patch cannot be resumed: the events before the
  patch carry the other binding (loop.go:284-286).
* An opening interrupted between the import and the last renaming of a task file
  leaves a store that every later opening refuses (sqlite_store.go:284-288).
* After one denial every call of the session is refused (policy.go:425,
  plane.go:302).
* `killGroup` always takes its full half second, since what it waits for is
  closed by its own caller, and then signals a group that may be gone
  (process.go:318-330); `processGroup` in container.go is never set.

### Bounds

Bounds are constants used in guards (`MaxFence`, `MaxClock`, `MaxJournal`,
`MaxLiveEdit`, `MaxCandidateEdit`, `MaxQueued`, `MaxFaults`, `MaxCalls`,
`MaxSession`, `MaxEdits`, `MaxOutput`, `MaxMoves`). In the first four modules
crashes and failures are never bounded.

* `workspace_lease`: two generations share the counter, so fences of one are
  spent between those of the other; two fences allow one epoch before and one
  after a restart; two callers race between the two halves of an operation; a
  clock of three values with a time to live of two allows a lease to be renewed
  with a later expiry and to expire. One owner: the control plane has one
  principal, and epochs of one owner are told apart by their fences.
* `journal_crash`: paths `a`, `a/b` and `c`, so that trees can disagree about
  what is a directory, and one step is left after and one before any other. Two
  integrations, the second of which starts where a crash left the first. Nobody
  edits the live tree, for then the journal cannot describe it.
* `journal_edits`: two edits, the least with which one can be undone; journals
  of which some cannot be read again.
* `scheduler`: four jobs, of which two pairs exclude each other by two different
  budgets, one depends on another; all closed graphs of up to three of them.
* `runtime_manager`: one generation, since runtimes of different generations
  share only `m.mu`; four leases, so that a runtime may be created, stopped,
  replaced and met again after restarts; two callers.
* `autonomous_run`: two goroutines, the least with which one overwrites the
  other's entry of `loopCancels`; two contents, so that a patch changes the
  binding and an edit does or undoes it; two plans, so that one can be retried
  and one repeated; one failure or edit, three client calls (plan, start,
  resume), any number of restarts and closings.
* `operator_confirmation`: two calls race for one token; both classes; two
  contents, two sessions and two edits, with which an unverified candidate can
  just be integrated. The proof covers any number of approvals.
* `supervised_process`: two streams of two units, chunks of one or two, memory
  for two: the file is opened with something and with nothing in memory, and
  there is output after it. `process_output` needs one unit only.
* `task_store`: two tasks, so that a crash can come between two renamings; four
  moves and three faults, of which a crash in the migration and one before or
  after it are two.

Model values are symmetric where the definitions do not order them (contents,
generations, callers, loops, approvals, tasks, commits); no run with liveness
properties uses symmetry. Deadlock is checked everywhere but in
`OperatorConfirmation`, where calls and edits are bounded and the last session
may have expired with nothing left to do.

### Fairness

* `IntegrationJournal`: a call that has the mutex continues, and so does an
  opening (weak fairness of `PlanStep`, `ApplyStep`, `RecoverStep`). No caller
  has to start, no editor has to stop, and crashes may end anything.
* `Scheduler`: the loop and the job goroutines run (weak fairness); jobs end.
  `Receive` has strong fairness: with the context done, both cases of the
  `select` are ready again and again, and Go chooses among ready cases at
  random, so a result is not passed over for ever. With weak fairness only,
  `RunReturns` would fail by a loop that takes `ContextDone` for ever.
* `SupervisedProcess`: the call that starts the process, its deadline (every
  process has one), the kill by `CommandContext`, `Cmd.Wait`, the supervisor and
  each reader run while they can. Nothing is assumed of the process but that a
  kill ends it, and nothing of the client.
* `AutonomousRun` has no fairness: `Converges` bounds the steps of a loop by a
  measure that falls with every state persisted, which holds on every prefix.

## 5. Proofs

The theorems hold for every value of the constants. No assumption is made
besides the named ones in the modules: the kinds of the constants, that `None`,
`Absent` and `Damaged` are none of the data, and that `Above` is a directory
relation (irreflexive and transitive).

**WorkspaceLeaseProofs.** `LeaseInv` is the inductive invariant. Fence uniqueness
is not inductive alone: a new fence is unique because the counter bounds every
fence in files, memories and reservations (`FencesSpent`), which in turn needs
the counter to be written first. A restart inherits nothing because recovery has
cleaned what it has passed (`RecoveryProgress`) and callers hold only leases of
this opening (`MemoryIsFresh`). Quarantine holds because the lease file that
caused it is still there (`LeaseFiles`) and discarding looks for that file. From
it follow the type invariant, `FenceNamesOneEpoch`, `NoInheritedAuthority`, three
action properties, and that every step maps to a step or a stutter of
`FenceAuthority` (`StepSimulation`).

**IntegrationJournalProofs.** `Inv` joins `JournalInv` (types; only one call works
on a journal and that one is not final; recovery covers all that is not
committed; committed means no step left), `PlansAreStaged` (no blob for a
deleted path, without which a rename could put a file below no directory), the
shape of the live tree, and `EditsAreNoticed`. The heart is `StepMoves`: whatever
the step, a journal `Advances`, and a new one is PREPARED from a plan whose base
is the live tree. Proved are the type invariant with the shape of the tree,
`JournalMovesForward`, `OpenOnlyWhenFinished` and, for any number of edits,
`OnlyUndoneEditsSlipIn`. `JournalDescribesLiveRoot` needs `LiveDescribed`: journals
are written in the order of their numbers; a call applies only the newest, and is
about to advance past a step only when the path is as planned (`NewestApplies`);
and the newest describes the live root as long as nobody else has edited it. The
theorem says so with `edits.live = 0`, where the run has `MaxLiveEdit = 0`; the
candidate may be edited at any time in both. `CommittedIsApplied` draws the consequence a reader wants: with
the newest journal COMMITTED, the live files are the planned ones.

**SchedulerProofs.** `SchedulerInv`: the loop's view and the goroutines agree
(`ViewsAgree`), what was launched had its dependencies done, and no error goes
unrecorded. Proved are `DependenciesFirst`, `ReturnsDrained` and
`NilMeansAllSucceeded`. Since the counters are what the running jobs cost, the
type invariant and `BudgetsHold` are about sums over finite sets: a sum is the
number of the units its jobs take (`Cardinality` of a set of pairs), which the
fold computes by an induction with a smallest exception. A launched job was
compared with all nine limits, and an ended one gives back what it took.

**RuntimeManagerProofs.** None of the four safety properties is inductive. `Inv`
says what each step of a call may rely on (`CallsExpect`: which runtime, in which
state, a call at that step finds in the map, which the mutex protects); what map
and file agree on, although each is written without the other (`CopiesAgree`: the
same runtime, the same container, and no STOPPED on disk before the map has it);
that a container runs only under the identity in the file (`ContainersRecorded`);
what recovery has passed (`RecoveryInv`); and that a call which has reserved and
not yet succeeded is the only one, with nothing READY or RUNNING beside it
(`ReservationInv`). The lemma `StepKeeps` proves it once for every step that
holds the mutex, `RecoverKeeps` once for every step of recovery, from what the
step writes to map, file and container. Proved are the type invariant and all
four properties of the run, for any number of generations and leases.

**AutonomousRunProofs.** The hazard is that memory, log, plans and run status are
written one after the other. `Inv` says that every state in memory or in the log
is `Sound` (no failed action before a plan, the plan in hand not among the failed
ones, the binding of a state that came through verification passed its steps),
that a goroutine that is to write such a state has verified the binding it holds,
and that once the plane is closed no goroutine has got further than to ask the
closed stores (`ClosedMeansQuiet`). From
it follow the properties of the run; `Converges` needs in addition
`NearerIsLess`, which orders the states by retries left and phase.

**OperatorConfirmationProofs.** `Inv` is the type invariant, that an approval names
something only once it was sent (`NamesSomething`), and that tokens in calls were
issued (`TokensWereIssued`). From it, every step maps to a step or a stutter of
`OneTimeApproval` (`StepSimulation`). `EditInv` is the argument that one edit
never gets an unverified candidate integrated: an offer made for contents that
were not verified has cost one edit (`OffersNotice`), since the check just before
it passed on others, and the execution of it a second one (`ActsNotice`).

**TaskStoreProofs.** `Inv` joins the migration's invariant (without a complete
marker there are no rows; with one, every file that is left has its row, so that
renaming loses nothing), that what a call has loaded is still what is stored
(`CallInv`, which the store's mutex gives), and that tasks name commits of main
until the branch strays. It proves the type invariant, `RefusedOnlyHalfRenamed`,
`TasksAreOfMainUnlessStrayed` and the refinement of `TaskTable`: the import is a
stutter because table and rows are the same records.

**SupervisedProcessProofs.** `ReadsInOrder` speaks of a client and of what is kept;
neither is inductive without the readers. `Inv` says that what a reader holds is
the end of what it took (`Taking`); that chunks are in memory or in the file but
not in both, and in memory fit (`Storing`); that the kept chunks are in the order
of their cursors and of their streams, all before what the readers still hold,
with nothing behind a broken line (`Keeping`); that a client has got every kept
chunk up to the cursor it asks from (`Following`); that without a failure a
chunk's place is its cursor (`NothingLost`); and that nobody is left to write
when `supervise` is done (`Final`). Whatever the file does to the lines it is
given, the result is a thinning of them: some missing, the last perhaps broken,
the rest in order (`LineThins`, `FilesThin`). Sums, filters and files are folds
over sequences; what they compute is shown by an induction over positions
(`UpTo`) whose predicate is a set, because the library's induction theorems take
an operator. Proved are the type invariant, `ReadsInOrder` and
`FinishedIsFinal`, for any sizes and any number of streams.

**Model-checked only.** The liveness properties (`ApplyReturns`, `OpeningEnds`,
`RunReturns`, `WaitReturns`): they need fairness, hence ENABLED, for which the
proof system has no rules here. The three properties that fail stay with TLC,
which shows how.

## 6. Not modelled

Left out of the modules, as data the properties do not tell apart: file modes,
path syntax, digests and encodings. The copy loop of `Materialize` is one action.
Operations that are in flight when `Close` releases the state lock would need two
processes over one state directory. `Delete` of the runtime manager has no caller
but a test. `Run` of the scheduler is modelled once: each call has counters of
its own. Further:

* **Event store**: artifacts, garbage collection and `LatestCheckpoint`, which
  nothing outside the package's tests calls. The rest is in `AutonomousRun`.
* **Security engine**: `RevokeSession` and the audit log; quotas of a session.
* **Operator channel**: socket, MAC and cache of nonces. A request reaches the
  engine at most once, which is what `OperatorConfirmation` uses.
* **Autonomous runs**: the runtime that a resumption may have to replace is a
  client call that fails.
* **Control plane**: the order in which `Open` opens stores that have no recovery,
  and listings.
* **Repository intelligence** is in `AutonomousRun` as the plan the model proposes
  and the steps of a verification; indexing and search are pure functions.
* **File tools**: `ApplyPatch` is a change of the candidate; path checks, search
  and text limits have no state.

Components of which nothing is modelled:

* **Runtime adapters**: argument lists and output parsing; the container service
  is external to `RuntimeManager`.
* **Replay cache** and **bearer authentication**: one call under one mutex, or no
  state; no step of another actor comes between.
* **Environment cache**: constructed, and none of its operations is called.
* **Publication adapter**: never reached, as the run `publication_never` shows.
* **Verification runner**: the shape of the process supervisor without cursors.
* **Memory store**: single SQL statements behind a mutex.
* **MCP server and tools**: flags, schemas and one delegating handler per tool.
* **Build and images**: no behaviour of the program.
