# Verification of ACOB

ACOB lets programs drive real Chromium browsers. Clients submit *instructions* to a
Django server; a browser extension polls the server, runs what it claims, and
posts results. This directory holds TLA+ models of the parts where order,
concurrency and failure matter, TLC configurations that check them on small
instances, and proofs that TLAPS checks for every instance.

## The system

| Part | State | Operations | Talks to |
| --- | --- | --- | --- |
| **Server** `srv/api` (`views.py`, `models.py`, `recovery.py`, `storage.py`, `schemas.py`) | `Instruction` rows (status, bid, result/error), at most one `Reinstall` row, files under `MEDIA_ROOT` | create, create batch, claim (`next`), complete (`result`), request and acknowledge a reinstall, serve media | clients, extensions, database |
| **Worker** `extension/src/background.ts`, `lifecycle.ts`, `offscreen.ts`, `state.ts` | `activeExecutions`, `reinstallScheduled`, the poll in progress (memory); bid and `pendingReinstallToken` (`chrome.storage.local`) | poll, run, report, restart, acknowledge | server by HTTP, offscreen page by messages |
| **Execution queues** `execution.ts`, `input.ts`, `tabs.ts`, `proxy.ts` | promise chains per tab, for browser input, tab creation and proxy settings | append an operation, run it when the chain settles | the actions |
| **Debugger sessions** `cdp.ts` | attachments per tab with use counts | acquire, release, detach event | Chromium |
| **Recording** `actions.ts` 558–839, `recording.ts`, `background.ts` | sessions and chunks per tab, sinks in the offscreen page | start, frame, finalize, discard | offscreen page, CDP |
| **Console capture** `console.ts`, `consoleUtil.ts` | session per tab and a shim in the page | start, capture, stop, truncate | CDP |
| **JavaScript execution, page actions** `actions.ts`, `wait.ts`, `timeouts.ts` | running executions | run, time out, terminate, reload | CDP |
| **Settings, popup, offscreen page** `storage.ts`, `settings.ts`, `popup.ts`, `lifecycle.ts`, `offscreen.ts` | stored settings, the promises that guard loading them and creating the page, the page's timer | load, normalize, save, create, poll | `chrome.storage`, Chromium, each other by messages |
| **Tabs, proxy, cleanup** | proxy credentials in memory | create within the limit, wait for load, set/unset proxy, clean up | Chromium |
| **Browser id** `bid.ts` | the bid in storage | get or create | storage |
| **Client** `client/acob/client.py` | none between calls | submit, wait, execute, batch, reinstall | server |
| **MCP adapter, nginx, containers, database image, website** | configuration | – | – |

What makes it hard:

* uvicorn gives each request a thread, and only the reinstall handlers open a
  transaction, so the *statements* of claims, completions and reinstalls
  interleave. PostgreSQL at READ COMMITTED and SQLite differ in what a claim sees.
* HTTP responses get lost; the extension gives a fetch up after a timeout although
  the server may handle it later. There are no leases: a row claimed by a lost
  response stays `processing`.
* Chromium kills and restarts the service worker at will; a reinstall restarts it
  on purpose, in the middle of other work, and several browsers share one command.
* Everything in the worker is asynchronous: state is read before an `await` and
  used after it, and actions of overlapping batches share tabs and the one
  browser-wide input focus.
* Worker, offscreen page, popup and the pages of tabs have lives of their own: each
  may be replaced while another still waits for it, or still acts for the one before.
* Chromium's debugger is one per tab and shared, ends when the user likes, and its
  answers and events arrive after the fact.
* Nearly every wait has a timeout, and what was given up goes on: a sink started too
  late, chunks of a video nobody expects, a script whose page does not answer.

What makes each part correct: the server hands an instruction out at most once and
never rewrites a finished row; the worker never runs an action twice, never
exceeds its limit, and reports truthfully which browser ran what; a reinstall
happens once per token, is always acknowledged, and loses no work that was not
marked failed; the queues exclude each other, never deadlock, and keep order; a
debugger stays attached while someone uses it; a recording can be stopped and its
video is whole; a script leaves no trace its caller does not hear of; a console can
always be restored; what a user saves is not written over, and polling never stops. The
`hazards` of `PROJECT.json` list every place where one of these could go wrong.

## The modules

| Module | Models | Extended or instantiated by |
| --- | --- | --- |
| `InstructionLifecycle` | what the server promises about a row: submitted, handed to one eligible caller, ended once | `InstructionQueue` (refinement) |
| `InstructionQueue` | the server, one action per database statement | `MCInstructionQueue`, `InstructionQueue_proofs` |
| `InstructionExecution` | what server and browsers together promise about an instruction: handed out, begun once, ended once by its runner or a reinstall | `AcobStack` (refinement) |
| `AcobStack` | server and several workers joined by HTTP with timeouts, strays, crashes and reloads | `MCAcobStack`, `AcobStack_proofs` |
| `ExclusiveActions` | what the queues promise: actions one after the other, each with its lanes to itself, batches whole | `ExecutionQueues` (refinement) |
| `ExecutionQueues` | the worker's promise-chain queues and the nesting that batches use | `MCExecutionQueues`, `ExecutionQueues_proofs` |
| `DebuggerLease` | what sharing a debugger promises | `DebuggerSessions` (refinement) |
| `DebuggerSessions` | the counted sessions of `cdp.ts` and the browser they talk to | `MCDebuggerSessions`, `DebuggerSessions_proofs` |
| `Recording` | record actions, pipelines, sinks, chunks, cleanup, restarts | `MCRecording`, `Recording_proofs` |
| `ConsoleCapture` | console sessions, the shim in the page, uploads | `PageScripts`, `ConsoleCapture_proofs` |
| `PageScripts` | scripts, their termination, reloads and the reinstall that stops them, composed with `ConsoleCapture` on one page and tab queue | `MCPageScripts`, `PageScripts_proofs` |
| `Startup` | worker, offscreen page and popup: start, stop, settings, polling | `MCStartup`, `Startup_proofs` |

The `MC` modules give the constants values for TLC; each ends where the model begins.
Definitions whose comment begins with "Mutant" are variants of the code that break a
property; no action uses them. The last section of a module with proofs is its
inductive invariant.

### InstructionQueue

A request thread `r` has its local variables in `handler[r]`, whose `pc` says which
statement is next. A poll is `NextInstructions` (the first read of `Reinstall`),
`SelectCandidate` (the head of the `while` loop), and the conditional `UPDATE`:
`ClaimSerially` on SQLite, `ClaimSnapshot` then `ClaimWrite` at READ COMMITTED,
where the `NOT EXISTS (Reinstall)` subquery has the answer of the snapshot and only
the row is rechecked. A result is `SubmitResult` (read, validate, host captures)
then `CompleteInstruction` (conditional `UPDATE`). A reinstall is
`GetOrCreateReinstall` then `CommitReinstall`, its transaction's end;
`AcknowledgeReinstall` locks the `Reinstall` row first and is one step.
`AbandonRequest` is a thread that dies, whose open transaction rolls back.
The `NOT EXISTS` reading of SQLite and PostgreSQL is the constant `ReadCommitted`.
`claimedBy`, `issued` and `retired` are history. The module implements
`InstructionLifecycle` with the identity on the four columns of `table`.

### AcobStack

A handler is one step here, justified by `InstructionQueue`; what is between two
`await`s of the worker is one step too. `poll[w]` is the `poll()` in progress,
`task[w][i]` an `executeInstruction`. A fetch goes from *posting* to *answered*
when the server handles it. `PollFails` and `ResultFails` give a fetch up; if the
server had not handled it yet it becomes a `stray`, which `HandleStray` handles or
`LoseStray` drops at any later time. `Crash` and `Reload` lose everything but
`stored`. `runs` and `reloads` are history. The module implements
`InstructionExecution` with the identity on rows and `runs`: where a response, a task or a
late report is does not show.

### ExecutionQueues

A *lane* is a tab, browser input, tab creation or the proxy settings. `queue[l]` is
the chain of promises of lane `l`: whoever was appended and has not settled. A job
asks for its lanes one inside the other, in the order `First` gives, which is what
the sorted `reduceRight` of `runInTabExecutionQueues` and the nesting in
`runInstruction` come to; `held` are the lanes it is inside, `want` those still to
ask for. `Outer` are the lanes a batch with an input action holds from first to
last, `Needs` those an action asks for itself (`queuesHeld` spares it the outer
ones). The lane numbers only express this order. A batch's actions end with a
result or an error alike, so `SettleAction` does not tell them apart.
`Execute` waits until no job is `between`: promise callbacks are microtasks and run
before the next message handler or timer calls `poll`. The module implements
`ExclusiveActions`, in which nobody waits: an action begins when nobody has what it needs
in use. `RanOf` and `PhaseOf` hide the queues from it: an action has begun with its last
lane, and a batch keeps its tabs and the input from its first action on.

### DebuggerSessions

A user is one `withDebugger`: `Acquire`, then `Release`. `sessions` is the `Map` of
`cdp.ts`; a session's `target` is the object that the code compares by identity, named for the
user who made it. The browser is the other side of two channels per tab, each in order:
`BrowserAttach` attaches or refuses, `BrowserDetach` detaches, `Lose` ends the attachment
(the user cancels, the tab closes) and sends the event that `OnDetach` handles, perhaps
long after the fact. `attached` is the truth that only the browser knows. The
module implements `DebuggerLease`: the lease is `attached`, its holders are those with
the target that is attached, from the moment the browser attaches.
Nobody acquires while another attach of the same tab is unanswered, since the tab's queue
serializes its actions and a recording is started inside one. The exception the model
leaves out is a recording whose start timed out while its attach was unanswered.

### Recording

`op[t]` is the record action of a tab (one at a time, by the tab's queue), `session`
and `chunks` are the worker's two maps, `pipe[r]` the pipeline of recording `r`. The
page's messages are `inbox[t]`, its sinks `sink[t]`. All of these are found by tab id,
as in the code. The recording named in a message, a sink or an operation stands for the
promise or object that the code's closures hold; no lookup uses it. `StartTimesOut`, `FinalizeTimesOut` and
`StopTimesOut` give up; `CaptureFails` covers a capture or frame that times out and
a lost debugger; `Restart` replaces the worker, whose old page still sends chunks until
`RecreateOffscreen`. Single frames are not steps: they change nothing that the properties
tell apart. Assumed: messages between worker and page keep their order; an
attach is answered; the discard timer's 30 seconds of grace outlast a capture (10 s) and a
frame (10 s) in progress. `StartedCanBeStopped` says nothing of a tab once a stop timed out
there, when the code really may drop a later session (`Settle`, by tab id).

### ConsoleCapture and PageScripts

`ConsoleCapture` has the operations on a page and its console, `PageScripts` puts them
into calls and interleaves those with scripts. In the page, `acob` is the namespace
`__acob__` (`LoadLibraries` replaces it by a frozen one), `acobCapture` and
`windowCapture` are the two places where a shim leaves its state, `console` the shims
around the page's console. Log entries are numbers with a size; `Truncate` is
`truncateToBuffer`, `Search` its loop. `upload` records how the last upload compares with what
the page logged (`complete`), with the longest prefix that fits, computed by its
definition (`longest`), and with the upload before (`cumulative`).
In `PageScripts`, `pc[c]` is a call, `stop[c]` its `stopPromise`, `reloads[w]` a
`reloadTab` with its listener, by a call or by the reinstall for a tab, `live[t]` the
scripts in the page, known only to Chromium. `Loading`, `Commit` and `Complete` are the
loads of a tab, by anyone; `Terminated` ends any part of the scripts in the page, since
`Runtime.terminateExecution` reaches running code but no pending promise.
Assumed: a load that begins ends with a new document; what was sent to a page dies with
it. A capture whose limit is reached drops an entry and still takes later, smaller ones,
as the code does; it is marked truncated from then on. A reinstall while only console
calls run is represented by `Restart`.

### Startup

`chain` is `offscreenPromise` (the calls of `ensureOffscreenDocument` behind each other),
`promise` is `configurationPromise`, `load[s]` a `getConfiguration` from its message
to its answer, `page`, `timer` and `interval` are the offscreen page's, `popup` the
popup's. `stored` is what `chrome.storage.local` has; `Normalized` is what loading makes of
it, and writes back if it differs. Assumed: Chromium stops only an idle worker (no
extension call pending, the page waiting for its timer) and wakes it for any message;
a popup whose form is not filled cannot submit (its fields are required);
`runtime.reload` may come at any point.

## The runs

| Run | Question | Bounds |
| --- | --- | --- |
| `queue_postgres` | one claim per instruction, tokens used once, finished rows sealed, refinement, every request answered | 2 threads, 2 instructions, 1 browser and the anonymous caller, 1 reinstall, READ COMMITTED |
| `queue_sqlite` | hosted captures exist; nothing claimed or processing during a reinstall | 3 threads, 1 instruction (a capture), 2 browsers, 2 reinstalls, serial statements |
| `queue_claim_race` | violation: a claim during a pending reinstall | 2 threads, READ COMMITTED |
| `queues` | mutual exclusion, no circular wait, order of single actions, refinement, every job ends | 3 instructions, 2 tabs, plans of every shape over every lane |
| `queues_order` | violation: batches keep the claim order on a tab | 3 instructions, 2 tabs |
| `stack` | actions run at most once, results name the runner, one reload per token, no claimed work lost without a fault, refinement | 2 browsers with 2 slots, 2 instructions, 2 upsets (reinstalls or faults) |
| `stack_full` | the limit; reinstalls are acknowledged with faults anywhere, instructions end without | 1 browser whose only slot is taken, 2 instructions, 3 upsets |
| `recording` | frames and finalizations reach their own sinks, videos are complete, the started can be stopped, cleanup spares recordings, everything ends | 1 tab, 2 recordings, 2 chunks per video |
| `recording_chunks` | violation: a video has only its own chunks | as `recording` |
| `debugger` | exact counts, sessions follow the browser, the lease | 1 tab, 4 users |
| `scripts` | no silent script, none beside a reinstall, one shim, faithful uploads | 1 tab, 3 calls, entries of size 1 and 2, limits 3 and 5, 2 entries |
| `startup` | one document, saves stay, polling goes on at the stored interval | 3 calls at a time, 2 pending `ensureOffscreenDocument`, 1 save, 1 failed fetch, 1 reload |

Why the bounds are enough. Every race in the server is between two threads and a
reinstall; a third thread adds a waiting poll, and a reinstall can overlap the
previous one's acknowledgement only with two tokens. Two upsets are needed for a lost
acknowledgement followed by a crash. Two tabs are the least that can be asked for in
two orders, and a third instruction is needed to starve or to overtake. Debuggers,
recordings and pages share no state between tabs, so one tab shows all there is: two users
of a session, one who finds it detached and one who attaches meanwhile; a late
recording and the next one, with chunks that arrive on either side of a timeout; two
calls that meet in the page and one that comes after both, and entries of which one, two
or none fit. In `startup` the page's and the popup's load
can both meet the first one. The bounds are constants of the modules or sets the `.cfg`
gives them: `MaxUpsets`, `MaxReinstalls`, `MaxLogs`, `Slots`, `MaxChain`, `MaxFailures`,
`MaxReloads` and the finite sets of instructions, users, recordings and calls; no other
guard is a bound. Symmetry is used for threads, browsers and users, in safety runs only.
`debugger` and `recording` may stop: every user and recording is used once.

### Disagreements with the documentation

* `queue_claim_race`: the README says that nothing is claimed while a reinstall is
  pending. At READ COMMITTED an `UPDATE` whose snapshot predates the reinstall's
  commit still claims its row; the row fails when the reinstall is acknowledged (as
  `srv/README.md` says), although its action may have run. On SQLite it holds, and
  is proved.
* `queues_order`: `extension/README.md` says that a batch keeps its order relative
  to other instructions on the same tab. A batch asks for a tab when it gets there,
  so a later instruction may run on the tab before it. Single actions keep the order.
* `recording_chunks`: the README says that a stop delivers the video of its recording.
  When finalizing times out the worker drops the chunks that came, but the page sends
  the others, and they lead the tab's next video. What is delivered is complete all the
  same (`VideosAreComplete`): its own chunks are its last ones, in one piece.

One sentence is stricter than the code without a run of its own: README.md 661–664 says
that collection stops at the size limit, while a smaller entry is still appended
after one that did not fit. The upload is marked truncated either way.

## Fairness

* `RequestsAnswered` assumes that the thread of a request keeps running (`WF` of `Run`);
  the loop of a poll may still lose every candidate to others, and ends because each
  candidate it loses has left `pending` and the table is finite.
* `EveryInstructionEnds` and `ReinstallsEnd` assume that the offscreen page keeps
  polling (it schedules the next poll after every answer and every error; `Startup`
  checks that), that requests are handled, that actions end and that a scheduled reload
  happens. The second holds with faults too; the first only until one strikes: with a
  lost claim the code has no lease to recover by.
* `EveryJobEnds` assumes that promise callbacks run and actions end. Actions that wait
  for a page have timeouts; calls of the `chrome` API are assumed to answer.
* `RecordingsEnd` assumes that timers fire, that the debugger's calls answer, that the
  page handles its messages and that a restarted worker replaces the page. It does not
  assume that anybody stops a recording, nor that a capture fails: `MaxDuration` and
  the discard timer are what ends things.
* `PollsFollowSettings` assumes that calls of the worker and the page's timer proceed. It
  does not assume that anyone saves, that a worker is restarted or that a fetch fails.

`DebuggerSessions` and `PageScripts` promise no progress: pages may hang for ever.

## What is proved

Eight modules, for every value of the constants that satisfies the named assumptions; the
theorems are listed in `PROJECT.json`. Each proof module shows `Init => IInv` and
`IInv /\ [Next]_vars => IInv'`, the latter action by action, and takes the properties from
`IInv`; `ConsoleCapture_proofs` has the console's part for `PageScripts_proofs`.

`InstructionQueue_proofs`, both databases. `IInv` adds to the properties what threads
remember (`ThreadsOK`: a prepared capture is on disk, a row about to be completed has
left `pending`, and whether it was untargeted stays true while it is processing) and what
transactions hold (`ReinstallOK`: one uncommitted `Reinstall` row at most, with the newest
token, never acknowledged). One claim follows only together with the disjointness of
responses, as both rest on the conditional `UPDATE`. From it every safety property, the
refinement `ServerImplementsLifecycle` (each statement is a step of the lifecycle or a
stutter) and, from that, `TerminalRowsStaySealed`; with `~ReadCommitted` that nothing is
claimed or processing during a reinstall.

`ExecutionQueues_proofs`, every plan. A queue holds, once each, those who asked for
its lane and have not settled; whoever is inside is its head; a job is inside the lanes it
is due and asks for the rest in ascending order (`JobOK`, `LaneOK`). Exclusion follows, as
a queue has one head, and so does `QueuesNeverDeadlock`: the head of the highest lane
anyone waits for would wait for a higher one. `SinglesBeginInClaimOrder` needs `ClaimsOK`
beside it: of two single actions on a tab the earlier is ahead in the queue or has begun.
The refinement `QueuesImplementExclusiveActions` needs both: what an observer sees in use
is held, so its holder is the head of its queue and nobody else can begin on it, and a
single action that begins on a tab has no earlier one behind it in the tab's queue. Asking
for a lane, and getting one that is not the last, are stutters.

`AcobStack_proofs`, any number of browsers, upsets and instructions. `RunsOK`, `BatchesOK`,
`TasksOK` and `StraysOK` say where an instruction is after its claim: in one response, then in
one task, and later reports come from there; `CountsOK` bounds the counter by the room
that a poll in progress has asked for; `TokensOK` and `ReloadsOK` follow a token from
command to acknowledgement; `QuietOK` says that nothing is processing while a reinstall is
pending, which is what lets a worker drop its work without losing any. All five safety
properties and the types follow, and the refinement `StackImplementsExecution`: claiming a
batch is `HandOut` whoever reads the response, `TakeWork` is `Begin`, a report that the
server takes in is `Report` whether it is on time or late (`StraysOK`: it comes from the
browser that ran the action), and both reinstall handlers are `Interrupt` or change nothing.

`DebuggerSessions_proofs`, per tab: who has whose target (`UserOK`), what may be on the
wires (`WireOK`: an attach is the last request, its answer the only one), what a session
excludes (`SessionOK`), then `CountOK` and `FollowOK`. The refinement maps the step at
which the browser attaches to `Grant`, not the one at which the worker hears of it.

`Recording_proofs`: `SessionOK` (what runs has its session, unless a stop timed out), `SinkOK` (a sink
serves the recording it was started for), `InboxOK` and `FinalizingOK` (one
finalization is on its way per tab, and its message, sink or answer is there),
`ChunksOK` (the last chunks of a tab are those its pipeline waits for) with `OpOK` and
`RecreatingOK`. The point of it is that although everything is found by tab id, a pipeline
between attach and finalization has its tab's sink for itself.

`ConsoleCapture_proofs` begins with the data: `Bytes` and `Search` are recursive
functions, and what they compute is proved by least counterexamples (a set of numbers
that is not empty has a least element, from the well-foundedness of the order on the
naturals). Sizes grow with the prefix, so the search's two ends stay on both sides of the
limit, and `TruncateKeepsLongest` follows for every list of entries and every limit.
Then what each operation on a console does to `ConsoleInv` and `UploadInv`.

`PageScripts_proofs`: `ShimOK` for the console; `LiveOK`, `ReloadsOK` (a reload that saw
a load begin replaces the page it was asked for) and `ReinstallOK` (a reinstall knows
every script in progress) for the scripts. `UploadsAreFaithful` is not inductive: it
needs `CaptureOK` (the capture that a page's shim finds is that page's and active, it has all
that was logged since its start or says that it has not, and what was last uploaded of it is
its beginning) and `NotInstalled` (before a call installs its shim, no page and no upload
has its capture, so a start never goes on with somebody's entries).

`Startup_proofs`: `ChainOK`; `AnswersOK`; `SeedingOK` (while stored settings are out
of date, one load at most deals with them, the first, and nobody can save) and
`SeededOK` (afterwards no load writes).

The assumptions are those the modules state for their constants: ids are numbers, the
null bid is not a bid, sets of browsers, instructions and users are finite where they are counted,
lanes are numbered in the order they are asked for and any set of them has a lowest and a
highest, a plan that is no batch has one action, every recording and call has a tab.

Model-checked only: all liveness (`RequestsAnswered`, `EveryJobEnds`,
`EveryInstructionEnds`, `ReinstallsEnd`, `RecordingsEnd`, `PollsFollowSettings`), since
fairness and `ENABLED` are beyond the prover; and the three violations. Every invariant,
action property and refinement of the passing runs has its theorem. The types of
`AcobStack` and `Recording` are only proved. No module uses
`RECURSIVE` operators.

## What is not modelled

* Payload shapes and their validation on either side: valid or invalid is a choice where it
  matters.
* Clicks, keys, scrolls, waits, screenshots: they drive the page in a straight line
  and keep no state; what they share with others (queues, debugger, page) is modelled.
* Of tabs and the proxy: the tab limit, the listener of a navigation and proxy
  credentials. Each is one operation inside a queue that `ExecutionQueues` shows to be
  exclusive; the hazards name what remains and why no property states it.
* The browser id: one key, read and written without a lock; no code depends on two first
  calls agreeing.
* The Python client and the MCP tools: no state beyond a call, no retry of a
  submission.
* nginx, images, the website, and what Chromium does inside.
* Liveness with faults, which the code does not promise.
