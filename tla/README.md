# Cliostra in TLA+

Cliostra is a daemon, `cliostrad`, that runs coding agents (Claude Code, agy, Codex,
OpenCode) as local jobs, and the clients that hand it work: a CLI, an MCP server and an
OpenCode plugin. Clients speak JSON lines over a Unix socket; every job has one durable
record that all of them read. This directory models what is hard about it: the
interleavings of Start, Cancel, the workers and the agents' processes; failing writes;
crashes of the daemon in the middle of anything; clients that poll a daemon which may
restart, over frames that may not fit; jobs whose worktrees, diffs and answers can go wrong
while they still succeed. Paths below are relative to the repository (`src/` is its root).

## 1. Inventory

| Part | Source | State it keeps | Operations |
|---|---|---|---|
| Job state machine | `internal/runtime/state.go` | none (pure) | `Transition`, `IsTerminal` |
| Store | `internal/runtime/store.go` | `<id>.json`, `<id>.json.tmp` | `Save`, `Load`, `LoadAll` |
| Runtime | `internal/runtime/runtime.go`, `worker.go` | queue + condition variable, `closed`, table `procs` | `Start`, `Status`, `Cancel`, `Close`, `New`/`recover`, `workerLoop`/`execute` |
| Process supervision | `process.go`, `process_posix.go`, `process_windows.go` | cancel channel, output buffer, process group | `runProcess`, `signalCancel`, overflow kill |
| Worktrees, git | `git.go`, `worktree.go` | a worktree per job (no registered adapter uses it), the modes of its files | add, strip/restore write, diff, remove |
| RPC | `internal/api/api.go`, `handlers.go`, the plugin's `rpc.js` | one connection, a frame each way | `Call`, `Serve`, `ReadFrame`, `WriteFrame`, four handlers |
| Daemon | `cmd/cliostrad/main.go` | the socket and its name | remove the name, recover, listen, chmod, accept; the sync in the background |
| MCP server | `internal/mcp/server.go`, `delegate.go` | calls and background goroutines | `run`, `wait`, `status`, `result`, `cancel`, `delegate` |
| Notification | `internal/notify/claudecode.go` | none | `Send` |
| OpenCode plugin | `plugins/opencode/src` | background promises | `cliostra_delegate` |
| Adapters | `internal/adapters` | none | `Capabilities`, `Build`, `Result` |
| mcpsync | `internal/mcpsync/agy.go` | two files of another program | `SyncAgy` |
| CLI, paths | `cmd/cliostra`, `internal/daemonpath` | none | one RPC per process |

How they interact. A handler goroutine (one per connection) calls the Runtime. `Start`
saves the record and appends a task under `queueMu`; `Signal` wakes one worker. A worker
takes the head, saves "preparing" and "running", registers a `procHandle`, runs the agent
and saves the outcome. `Cancel` loads the record, then looks for the job in the queue, then
in `procs`, saves "canceling", closes the handle's channel and polls the record for 10
seconds. A registered adapter's agent works in the user's repository; any other one gets a
worktree, created before `Build` and removed, errors ignored, after the record was written.
Worker and Cancel share three things under three different regimes: the queue
(one mutex), the table of processes (another), and the record on disk (none).

Hard behaviours: `Cancel` acts on a record it loaded earlier; `Save` calls of one job are
not serialised; every `Save` can fail before or after its rename; the daemon can die
between any two steps while agents keep running; clients poll over separate connections and
report long after they polled; nothing but the order of `main`'s steps separates two daemons;
an answer may not fit its frame; `os.Chmod` follows links; the agent may commit, make links and set
modes in its worktree, outlive its cancellation, or print a line the scanner does not take; a child of the sync outlives the
daemon. `PROJECT.json` lists each hazard at its line, with the
properties that guard it or the reason none does.

What makes each part correct: one owner per task and no second launch (Runtime); a record
that follows its worker, and only along known edges (Runtime); after recovery no live record
without an owner; the backlog drains, `Close` and `Cancel` end; `Save` is atomic and durable
(Store); a final report is the truth, a delegated job is not lost, a call ends (clients);
whoever answers has recovered, a final state it told is lost in known ways only, and it comes
back over what a dead daemon left (startup, service); the barrier of a read-only worktree
stands until the agent itself or the cleanup takes it down, a worktree does not outlive its
job, a diff and an answer show what was done and said (execution); the user's own entries survive the sync (mcpsync).

## 2. Modules

| Module | Role |
|---|---|
| `JobStates` | states, edges, `Transition` of `state.go` |
| `JobLifecycle` | abstract: each record is born queued and moves along a given set of edges |
| `Runtime` | the daemon: one action per step of `Start`, `Cancel`, `execute`, `runProcess`, `recover`, `Close` |
| `RuntimeProperties` | its invariants, refinements, liveness, and the comments the code does not keep |
| `RuntimeTypes`, `RuntimeProofs`, `RuntimeRefinement` | proofs about it |
| `AtomicRecord` | abstract: `Save` replaces the record in one durable step |
| `Store` | `Save` and `Load` system call by system call |
| `StoreProperties`, `StoreProofs` | the refinement of `AtomicRecord`, and its proof |
| `Delegation` | `run`, `wait`, `delegate`, the plugin, over a daemon that lives, dies and recovers |
| `DelegationProperties`, `DelegationProofs` | its properties and proofs |
| `Startup` | `main` of cliostrad, by several processes over one socket name and one set of records |
| `Framing` | one call over one connection: `Call` or `rpc.js` at one end, `Serve` at the other |
| `Service` | both together with the handlers, as a client meets the daemon |
| `ServiceProperties`, `ServiceProofs` | its properties and proofs |
| `AgentOutput` | pure: what each `Adapter.Result` makes of the agent's lines |
| `Worktree` | pure: what `stripWrite` and `restoreWrite` do to the modes of a tree with links |
| `McpSync` | `SyncAgy` and the children it starts |
| `Execution` | `execute` between its Saves, over the three modules above |
| `ExecutionProperties`, `ExecutionProofs` | its properties and proofs |
| `AnswerProofs` | proofs about `AgentOutput`, for outputs of any length |
| `MCRuntime`, `MCStore`, `MCDelegation`, `MCService`, `MCExecution` | small instances for TLC |

The families form a stack. `Store` implements `AtomicRecord`; `Runtime` takes `Save`
as one such step (it succeeds, fails having changed nothing, or fails having replaced the
record); `Runtime` implements `JobLifecycle`; `Delegation` uses `JobLifecycle` as its daemon.
`Service` refines what `Delegation` takes for granted, that a call fails or is answered, and
what `Runtime` takes for granted, that nobody calls before recovery is over. `Execution` opens
the steps `Prepare`, `Exited` and the deferred cleanup of `Runtime`.

### Runtime

Variables and code: `store` is the directory of records (state and `Truncated`; results,
reasons and times are abstracted); `queue`, `closed`, `procs` are the fields of the same
name; `wpc`/`wjob`/`wtrunc` are a worker's place, task and pending flag; `signalled` is the
set of closed `cancel` channels; `proc` is what the operating system knows of the agent;
`hpc`/`hjob`/`hrec`/`hsup` are a handler's place and locals; `daemon` is up, down or inside
`New`. Granularity: an action is what happens between two points at which another goroutine
can interfere, so everything under one mutex is one action, and each `Save` and `Load` is its
own. `select` with both branches ready takes either. `Prepare` stands for the repository
checks and `adapter.Build`, which succeed or fail. `proc` survives a crash of the daemon:
agents are not killed with it.

Startup: a job's calls are served only when `daemon = "up"`, since the socket is opened after
`New`. In `cmd/cliostrad` the deferred `Close` is never reached (the accept loop does not end
and `log.Fatalf` skips it); `MayClose` models the Runtime's API as tests and embedders use it.

### Store

A table of inodes with cached contents, the set `flushed` of those on the medium, a directory
of two names, and the set `dirs` of directories a power loss may leave (all since its last
fsync). A failing write leaves any first part of the bytes. `MayOverlap` says whether two
`Save`s of the record may be in progress. The first never overlaps: nobody has the id yet.

### Delegation

A call is a tool call or the goroutine it leaves behind: `kind` is run, wait, delegate or
watch (the plugin). The record is polled with `result`; every poll is a new connection. A
request may fail because the daemon is not up, or because a connection breaks; an answer may
be lost after the request was served. `known` and `told` are what the host has learnt. `wait`
is called with ids the host knows. A timeout may expire after any poll, whatever its length.

### Service

`phase[d]` is a process's place in `main`, `sock` whose socket the name leads to (living or
dead: neither a kill nor `log.Fatalf` removes it), `rec` the records, `loaded` what a recovery
has yet to rewrite. `task[d][j]` says where a daemon has a job: saved and not yet queued, in
the queue, with a worker before or after Cancel can find its process, or there after a Save
that failed. `wrote[d]` is what a process has saved since it was launched and is read by the
properties alone. A `Save` renames the record, or fails before or after that (`Saved`,
`SaveFails`, at most `MaxFaults`). `cpc` and `spc` are the two ends of a connection, `up` and
`down` the frames on the wire with a size and how much of it arrived: whole, without its
newline, or cut. A size is counted in units of 32 KiB, so that a frame holds 8 with its
newline and a result within `MaxResultSize` is 6 before it is escaped.

The start, result and cancel handlers act on these records in the steps another connection can
see: Start's Save and its append to the queue; Cancel's load, its look at the queue and at the
processes, its Save of "canceled" or "canceling", and its polls (`cancel[c]` is how far it
got). A worker's steps are here in outline (`TakeTask`, `Advance`, `EndTask`, `FailTask`):
`rec` tells a live record from each of the final ones ("ended" for what the worker first meant,
"failed" for what `fail()` writes after it, "canceled" for a task taken back from the queue,
"restarted"), and `Runtime` has the rest. `OthersStart` is the start of a client whose own connection is not
followed. `CallsEnd` says that in the end no call waits: each is made once.

### Execution

One job of one adapter. `stage` is the worker's place, `mode` the modes of the worktree's
files (readable, writable, enterable), `link` where its links lead, `changes` what the agent
did and did not commit, `tampered` the paths whose mode or link it changed, `outcome` the
record to be written. "managed" is any adapter that `directRepoAdapters` does not name, as the
fake one of the tests; the others work in the user's repository. The agent is external and runs
as the user. That a job is to read only is said to a registered adapter's agent by flags,
environment or a prefix of its prompt (agy.go:58), which bind nobody, and an agent may leave
the directory it was given (agy.go:49): so nothing is claimed of what it does there, and what
happens outside a managed worktree is no state of the model. In a managed worktree it finds
the modes `stripWrite` left, which it may take as they are (`AgentWrites`) or set anew
(`AgentChmods`), and it may make links where it can write (`AgentLinks`); both walks then meet
what it made. `Walked` is `filepath.Walk`: five visits in lexical order, the first error the
last. An agent may outlive its cancellation (process.go:111). The sync shares the daemon's
life and the binary `agy` with the job: without it neither runs.

## 3. Runs

| Run | Instance | What it shows |
|---|---|---|
| `save_errors` | 2 jobs (1 cancelable), 2 workers, 2 handlers, 1 failing Save | ownership, records follow workers, a "canceled" reply is final |
| `crash` | 2 jobs (1 cancelable), 2 workers, 1 handler, 2 crashes, 2 Saves that fail before the rename | types, single owner, no second launch, recovery leaves no orphan; `Runtime` implements `JobLifecycle`, with the documented edges for jobs that cannot be cancelled and with `ObservedEdges` for all |
| `liveness` | 2 jobs, 2 workers, 1 handler, `Close` | no lost wakeup, the backlog drains, `Close` and `Cancel` return |
| `store_atomic` | 2 savers in turn, 1 reader, 2 records of different length, 5 inodes, 2 failures, 2 crashes or power losses | `Store` implements `AtomicRecord` |
| `delegation` | 1 job, 2 calls, 2 deaths of the daemon, 1 broken connection | reports stay true, no job is abandoned, calls end |
| `service` | 1 process launched again and again over whatever earlier ones left, 1 job, a Go call and a plugin's, starts of others, requests that fit or not, results at the limit and beyond, 1 death, 1 failing Save | whoever answers has recovered; what was answered lasts but for two losses; a live record is in somebody's hands while no Save has failed; frames at the limit are read; calls end; a restarted daemon comes to serve |
| `execution` | 1 job of each adapter, read-only or not, all outputs of 2 lines, 36 trees with up to 2 links, an agent that changes a mode or a link, 1 git failure, 1 crash, a sync of 2 servers | the barrier of a read-only worktree; when a worktree is left behind; the diff and the answer; the sync is additive and complete |

Five more runs exhibit statements of the repository that the code does not keep:
`terminal_final` (a stale `Cancel` writes "canceling" over a terminal record),
`store_overlap` (two overlapping Saves leave a torn record, which `Status` reports as not
found and recovery skips), `result_arrives` (a poll of `delegate` that fails during a restart
ends its wait, and the job's result never arrives), `single_daemon` (a second cliostrad takes over the name and both serve),
`results_fit` (a result within its limit is refused by `WriteFrame` and can never be read).
`PROJECT.json` quotes each. Further comments the code does not keep are described with the
hazards and show in passing runs as what a property must excuse or leaves out: `supported=true` for a job
that was not cancelled (runtime.go:244), a queued job cancelled although its adapter cannot
(runtime.go:184), canceled with `Truncated` (runtime.go:14), a diff against HEAD instead of
the commit the worktree began at (git.go:57), modes changed outside the worktree through a
link (git.go:107).

Why the bounds are enough. The races are between two parties about one job: a worker and a
`Cancel`, two `Cancel`s, a `Cancel` and a crash. Two workers and two handlers give each
pair, and a second job gives a queue with a middle and a wakeup that can go astray. Two
crashes reach a crash inside recovery and one after it; one or two failed Saves reach a
failure followed by the failure of the cleanup. In the store, two records of different
length are what a torn mixture needs, and five inodes run out only when four Saves in a row
ended without the fsync of the directory, that is when both failures and both crashes are
spent. Jobs do not interact in `Delegation`, so one is enough there, shared by two calls;
two jobs and two calls were too many states for a routine run. `Service` starts from any records and any
name that earlier processes may have left, so that one death reaches a death in the middle of
the recovery from another; a job that somebody else started (`OthersStart`), a Cancel and a
poll are what it takes to lose a state that was told, and the two calls are one of each kind of
reader; the failing Save gives the other loss, by `fail()`; sizes 7 and 8 are the last that fits
and the first that does not, 9 is a request beyond the reader's limit. In `Execution` an
answer that differs from what was said needs two lines (an earlier message and a later one, or
one hidden behind a long line); the two links sort before and after the directory, and lead to
the root, the directory, the file in it, outside or nowhere, which are all the ways a chmod can
go; one path that the agent changes makes, with a link of the repository, each of the causes
that stop a walk, and `SomeBits` leaves out only modes that lack two bits at once; one crash
gives two syncs, with a child of the first in the middle of the second; `MaxResult`
and `MaxDiff` are 1 so that two texts or two files exceed them. With agy installed only agy's
job is run (`Used`): the others share nothing with the sync. `CHECK_DEADLOCK FALSE` is
given where all jobs end and the bounded ids run out; clients and crashes are bounded by
`MaxFaults` and `MaxCrashes`, which appear only in guards.

What the properties excuse, because the code does it and the hazards say so. `NoOrphanRecord`
and `LiveHasHolder` are claimed while no Save has failed, `NoneAbandoned` while nothing broke:
otherwise the code does leave orphans. `LiveHasHolder` and `FinalAnswersLast` name the record
over which a Cancel, that had loaded it while it was live, wrote "canceling" (runtime.go:249):
a client may have read the final state that is lost, and nobody holds the record that replaced
it. `FinalAnswersLast` also names the success that `fail()` replaces when its Save failed after
the rename (worker.go:170). "canceled" from the queue and "daemon_restart" are not lost at all.
`BarrierStands` ends where the agent has set a mode or a link of its own (git.go:93 calls it no
sandbox), and where `restoreWrite` has come to the tree of a cancelled agent that still lives.
`NothingLeftBehind` lists its causes, the links and modes the agent made among them;
`DiffShowsWork` is about what was not committed, and excuses a git that failed and modes the
agent set.

## 4. Fairness

`Runtime`: workers and handlers are goroutines, so each enabled step of one is eventually
taken (weak fairness per goroutine); condition-variable wakeups are part of the steps of
those who signal. The agents' processes are assumed to end, and recovery to go on (there is
no timeout on a job: this is an assumption about the environment, listed as a hazard). Saves
do not fail and the daemon does not die in the liveness run; jobs that can be cancelled are
excluded from `DrainsBacklog` because a stale `Cancel` may leave them in "canceling" for
ever.
`Delegation`: goroutines go on, and a wait that keeps polling meets its deadline (strong
fairness of `Deadline`, since time passes while it polls). Nothing is assumed of the daemon
or the jobs, except in `DelegatedResultArrives`, whose premise is that jobs end.
`Service`: a living process goes on with `main`, `Serve` goes on with its connection, a client
reads what has arrived (weak fairness each). Nobody is assumed to launch a daemon, to die, or
to finish a job; `ComesBack` speaks of a daemon that was launched when no more will die.
`Execution` states no fairness: its properties are about safety.

## 5. Proofs

All are for every value of the constants that satisfies the modules' assumptions.

*Runtime.* `Ownership` is inductive together with the types and the fact that the queue, the
workers, the table of processes and the calls are empty while the daemon is not up. Its
parts: a queued task is fresh (record "queued", never launched); a handler that has just
saved or removed a task is its only holder; the record of a held job matches its worker's
place; a registered process belongs to a worker; a `Cancel` that goes on to write
"canceling" saw the process registered; "canceled", once persisted or loaded, means the job
is out of the queue and its worker is only cleaning up. `SingleOwner`, `RecordTracksWorker`,
`LaunchFresh` and `CanceledReplyIsFinal` follow; none of them is inductive alone (launching
freshly needs the record to match the place, which needs the marks to come after the
registration, which needs the owner to be single).
`RecordsHaveHolders` (`NoOrphanRecord`) needs that, when no Save has failed, a worker about to
forget its job has written the job's last record (`Orphanless`). `NoWakeupLost`
(`WorkConserving`) counts: a task is appended with a wakeup, unless nobody sleeps, and a worker
leaves the loop only with a task or when the queue is empty; while the daemon is not up there
is no queue and nobody sleeps (`Stopped`).
`RuntimeRefinement` maps every step to a step or a stutter of `JobLifecycle`, with the
observed edges for all jobs, and with the documented ones for those that cannot be cancelled
when no Save fails after its rename. `RuntimeTypes` also says what appending, taking the head and
removing from the middle do to a sequence without repetitions.

*Store.* `StoreTypeCorrect`, whether Saves overlap or not: an inode is given to a temporary file
only when it is free. `SavesAreAtomic`: without overlap, `Store` implements `AtomicRecord`. The invariant
says that every inode the final name refers to, now or after a power loss, or that a reader
has open, holds one whole record on the medium and is not the temporary file; and that the
only saver owns the temporary file from its open to its rename.

*Delegation.* `JobsAreNotAbandoned` and `ReportsAreTrue`: past the start handler a call's job
has a record and was its own before; a host knows only jobs with records; background calls
have handed out the id before they poll; an error needs a fault or a crash. `ReportsAreTrue`
assumes that the daemon's edges leave no terminal state. The documented edges do not;
`ObservedEdges` do, and `terminal_final` shows how.

*Service.* `ServiceTypeCorrect` and `AnswersAreReadable` (`WrittenIsReadable`: the frame a
`Serve` has written fits the reader's limit), overlap or not. `ReachableHaveRecovered`,
`LiveRecordsHaveHolders`, `FinalAnswersStay` and `StartsAreRecorded`, for any processes, jobs,
calls and failing Saves, from any records, while no two processes overlap (`MayOverlap = FALSE`). The
invariant (`ServiceInv`): at most one process runs; only a serving one has tasks and only a
recovering one has records loaded; while it recovers every live record is loaded, once it
listens every live record is one it wrote (`Custody`); a task in the queue or with a worker has
a live record, one that `fail()` is about to finish an ended or a live one; a Cancel that took
a task is the only party that has it, and one that is to mark a job found a worker that was
running it (`CancelCustody`); an answer on the wire that names a final state, or that a job was
started, agrees with the record but for the two losses (`AnswersTrue`); a connection that is
not open carries nothing. None of the four is inductive alone: that an answer lasts needs that
a final record is rewritten by nobody but a marking Cancel and `fail()`, which needs who has
what task, which needs that Cancels and workers take it from each other's reach.

*Execution.* `SyncCompletes` and `OwnEntriesStay` rest on an invariant of the sync alone
(`SyncInv`): what it has claimed and not yet written is still to be added, and nothing it
writes has the name of an entry of the user's. `BarriersStand`, `WorktreesGo`, `DiffIsWhole`,
`AnswersAreSaid` and `ExecutionTypeCorrect` share `ExecInv`. Its parts: what the record says at
each stage (`Decided`); an agent lives only while its job runs, was canceled or lost its daemon
(`Attended`); a tree that was stripped to the end is locked until the agent or `restoreWrite`
undoes it (`Barred`); the modes are those of git or those `restoreWrite` leaves where the agent
set none (`Kept`); the diff is taken when the agent has ended (`DiffSeen`); the output is not
written again after `Result` has read it (`Answered`). Below it are lemmas about the walk over
any links and modes: a strip that meets no error leaves nothing that can be written, neither in
the tree nor behind a link (`StripLocks`); a restore over links and modes that do not stop it
leaves every directory readable, writable and enterable (`WalkSweeps`), and so does one over a
tree that is so already, even if a link stops it (`FullStays`). Nothing is assumed of the agent's obedience. None of the
theorems' properties is inductive alone; `NothingLeftBehind` needs `Kept` for the step that
removes the tree.

*Answers.* What `Result` makes of an output is a fold of the community modules over a sequence
of any length. The library's induction theorems cannot be cited (they take an operator), so
`AnswerProofs` states induction about a set of numbers that has 0 and every successor
(`Counting`, from the well-foundedness of `<`), and with it that the function `FoldLeft`
chooses exists (`FoldExists`). Each adapter's fold is then followed line by line: codex has the
last message so far, opencode the messages so far joined, agy its last word and whether a tool
was denied. `AnswersAreSaid` assumes only that an agent prints lines (`Outputs`) and that a line
beyond the scanner's buffer of 1 MiB is longer than `MaxResultSize`, 192 KiB (`MaxResult < LongLine`).

*Only model-checked.* The liveness properties (`DrainsBacklog`, `CloseReturns`, `CancelReturns`,
`CallsEnd`, `ComesBack`): the prover does not handle fairness. Every safety property of a
passing run is a theorem.

## 6. Where the stack is optimistic

`Runtime` takes `Save` as atomic. `SavesAreAtomic` justifies that for `Save`s of one job that
do not overlap, and `store_overlap` shows that a worker's and a `Cancel`'s that do overlap can
leave neither. `Runtime` therefore describes the records when each `Save` runs alone; its
counterexamples do not depend on overlap, its invariants do assume its absence.
`ReportsAreTrue` rests on documented edges, which `Runtime` is proved to keep for jobs that
cannot be cancelled.

`Execution` takes each git command and each chmod walk as one step; an agent that outlives its
cancellation interleaves with them as wholes. The sync takes `agy mcp add` as one write of one
entry; how agy itself rewrites its registry is not in this repository.

## 7. Not modelled

Contents: prompts, results, reasons, timestamps, the text of messages. Argument
vectors, the read-only flags and the prefix of the prompt among them: they ask, and nothing
follows from them; what agents do in the user's repository. Flags and printing of the CLI, XDG paths (functions of the
environment), the system calls of process groups. The status handler is a read that `result`
subsumes. `Serve`'s answers to an unknown method and to a value that does not marshal, which
no client here can cause. An `accept` that fails for ever (main.go:56 retries at once). The
user's edits of agy's registry during a sync. That `rpc.js` sends a request without measuring it
(line 31) and decodes chunk by chunk, so that a character split across two chunks is lost
(line 35), is part of `Framing` (`CallSends`, `ReadAnswer`); no property is about the text. Waiting times (5 s, 2 s, 10 s, the 30 s of the
sync, the poll interval, the timeouts) are steps that may happen at any time. `agy`'s own
registry, git and the operating system are external.

## 8. Plan

1. Done: the Runtime, Store, Delegation, Service and Execution families above.
2. Next models: overlapping Saves of one job composed with `Runtime` (what `store_overlap`
   means for its invariants); a finer `runProcess` with the overflow goroutine, if it tells
   more than the present steps.
3. Next proofs: that a job's answer fits its frame or is refused (`Framing` under `Execution`'s
   `MaxResult`); the lemmas about `Walked` for trees of any shape.
