------------------------------ MODULE AcobStack ------------------------------
(***************************************************************************)
(* The server and the extensions of several browsers, joined by HTTP.      *)
(*                                                                         *)
(* A request handler is one step here; InstructionQueue has the handlers   *)
(* statement by statement.  The extension (extension/src/background.ts,    *)
(* execution.ts, lifecycle.ts) runs on one JavaScript thread, so a step    *)
(* lasts from one await to the next.  A fetch is sent, handled and         *)
(* answered; it can be given up (AbortSignal.timeout, a restart) while the *)
(* request still travels: it is then a stray that the server may handle    *)
(* later and whose response nobody reads.                                  *)
(***************************************************************************)
EXTENDS Naturals, Sequences, FiniteSets

CONSTANTS
  Instructions,    \* ids, in the order of created_at
  Browsers,        \* each is its bid
  NoBrowser,       \* null
  MaxConcurrent,   \* maxConcurrentExecutions
  PerPoll,         \* instructionsPerPoll
  RetryAttempts,   \* resultRetryAttempts
  MaxUpsets        \* bound: new reinstall tokens, timeouts and crashes in one behaviour

ASSUME StackAssumption ==
  /\ Instructions \subseteq Nat /\ IsFiniteSet(Instructions)
  /\ NoBrowser \notin Browsers
  /\ {MaxConcurrent, PerPoll, RetryAttempts} \subseteq Nat \ {0}
  /\ MaxUpsets \in Nat

VARIABLES
  status, bid, outcome,   \* Instruction rows
  reinstall,              \* the Reinstall row's token, or NoToken
  issued,                 \* tokens issued so far
  stray,                  \* requests that travel although nobody waits for them
  poll,                   \* poll[w]: the poll() in progress, and its fetch
  active,                 \* state.activeExecutions
  scheduled,              \* state.reinstallScheduled
  task,                   \* task[w][i]: executeInstruction(i) in progress at w
  stored,                 \* chrome.storage.local: pendingReinstallToken
  runs,                   \* history: the browsers that ran i, in order
  reloads,                \* history: the tokens w called runtime.reload() for
  faults                  \* bound: faults so far

NoToken == 0
rows == <<status, bid, outcome>>
server == <<status, bid, outcome, reinstall, issued>>
worker == <<poll, active, scheduled, task, stored>>
vars == <<status, bid, outcome, reinstall, issued, stray, poll, active, scheduled,
          task, stored, runs, reloads, faults>>

Terminal == {"completed", "failed"}

\* Steps of poll(): waiting for the acknowledgement, about to ask for work,
\* waiting for work, answered, and executeReinstallCommand.
NoPoll == [step |-> "idle", limit |-> 0, batch |-> {}]

\* Steps of executeInstruction: running the action, POSTing its result, answered.
\* counted is FALSE for a refused surplus instruction, which only reports.
NoTask == [step |-> "none", attempt |-> 0, body |-> "none", ok |-> TRUE, counted |-> FALSE]

Init ==
  /\ status  = [i \in Instructions |-> "absent"]
  /\ bid     = [i \in Instructions |-> NoBrowser]
  /\ outcome = [i \in Instructions |-> "none"]
  /\ reinstall = NoToken
  /\ issued = 0
  /\ stray = {}
  /\ poll = [w \in Browsers |-> NoPoll]
  /\ active = [w \in Browsers |-> 0]
  /\ scheduled = [w \in Browsers |-> FALSE]
  /\ task = [w \in Browsers |-> [i \in Instructions |-> NoTask]]
  /\ stored = [w \in Browsers |-> NoToken]
  /\ runs = [i \in Instructions |-> <<>>]
  /\ reloads = [w \in Browsers |-> <<>>]
  /\ faults = 0

-----------------------------------------------------------------------------
(***************************************************************************)
(* Clients                                                                 *)
(***************************************************************************)
CreateInstruction(i, b) ==
  /\ status[i] = "absent"
  /\ \A j \in Instructions : j < i => status[j] # "absent"
  /\ status' = [status EXCEPT ![i] = "pending"]
  /\ bid' = [bid EXCEPT ![i] = b]
  /\ UNCHANGED <<outcome, reinstall, issued, stray, worker, runs, reloads, faults>>

\* The UPDATE of both reinstall handlers.
FailProcessing ==
  /\ status'  = [i \in Instructions |->
                   IF status[i] = "processing" THEN "failed" ELSE status[i]]
  /\ outcome' = [i \in Instructions |->
                   IF status[i] = "processing" THEN "reinstalled" ELSE outcome[i]]
  /\ UNCHANGED bid

\* Mutant: the request leaves processing rows to the acknowledgement.
RequestReinstallOnly ==
  /\ reinstall = NoToken
  /\ issued + faults < MaxUpsets
  /\ issued' = issued + 1
  /\ reinstall' = issued + 1
  /\ UNCHANGED <<rows, stray, worker, runs, reloads, faults>>

RequestReinstall ==
  /\ IF reinstall = NoToken
       THEN /\ issued + faults < MaxUpsets
            /\ issued' = issued + 1
            /\ reinstall' = issued + 1
       ELSE UNCHANGED <<issued, reinstall>>
  /\ FailProcessing
  /\ UNCHANGED <<stray, worker, runs, reloads, faults>>

-----------------------------------------------------------------------------
(***************************************************************************)
(* The server's side of a fetch                                            *)
(***************************************************************************)
\* Mutant: rows in progress are handed out again.
CandidatesAgain(w) ==
  {i \in Instructions : status[i] \in {"pending", "processing"} /\ bid[i] \in {NoBrowser, w}}

Candidates(w) ==
  {i \in Instructions : status[i] = "pending" /\ bid[i] \in {NoBrowser, w}}

\* The n lowest of a set of ids.
Oldest(n, S) == {i \in S : Cardinality({j \in S : j < i}) < n}

\* next_instructions: nothing is claimed while a reinstall is pending.
Batch(w, n) == IF reinstall # NoToken THEN {} ELSE Oldest(n, Candidates(w))

ClaimBatch(w, n) ==
  status' = [i \in Instructions |->
               IF i \in Batch(w, n) THEN "processing" ELSE status[i]]

\* complete_instruction: whether the response is ok, and what is written.
Accepts(i) == status[i] \in Terminal \cup {"processing"}

\* Mutant: the executor is not recorded.
StoreResultOnly(w, i, body) ==
  IF status[i] = "processing"
    THEN /\ status' = [status EXCEPT ![i] = IF body = "error" THEN "failed" ELSE "completed"]
         /\ outcome' = [outcome EXCEPT ![i] = body]
         /\ UNCHANGED bid
    ELSE UNCHANGED rows

\* Mutant: a late report takes a row back from a reinstall.
StoreResultLate(w, i, body) ==
  IF Accepts(i)
    THEN /\ status' = [status EXCEPT ![i] = IF body = "error" THEN "failed" ELSE "completed"]
         /\ outcome' = [outcome EXCEPT ![i] = body]
         /\ bid' = [bid EXCEPT ![i] = IF @ = NoBrowser THEN w ELSE @]
    ELSE UNCHANGED rows

StoreResult(w, i, body) ==
  IF status[i] = "processing"
    THEN /\ status' = [status EXCEPT ![i] = IF body = "error" THEN "failed" ELSE "completed"]
         /\ outcome' = [outcome EXCEPT ![i] = body]
         /\ bid' = [bid EXCEPT ![i] = IF @ = NoBrowser THEN w ELSE @]
    ELSE UNCHANGED rows

\* acknowledge_reinstall: 204 without a row or for its token, else 409.
Acknowledge(t) ==
  IF reinstall = t
    THEN FailProcessing /\ reinstall' = NoToken
    ELSE UNCHANGED <<rows, reinstall>>

\* Mutant: a 409 ends the poll and leaves the token stored.
HandlePollMatching(w) ==
  LET p == poll[w]
  IN /\ \/ /\ p.step = "acknowledging"
           /\ Acknowledge(stored[w])
           /\ poll' = IF reinstall \in {NoToken, stored[w]}
                        THEN [poll EXCEPT ![w].step = "acknowledged"]
                        ELSE [poll EXCEPT ![w] = NoPoll]
        \/ /\ p.step = "asking"
           /\ poll' = IF reinstall # NoToken
                        THEN [poll EXCEPT ![w].step = "commanded", ![w].limit = reinstall]
                        ELSE [poll EXCEPT ![w].step = "answered", ![w].batch = Batch(w, p.limit)]
           /\ ClaimBatch(w, p.limit)
           /\ UNCHANGED <<bid, outcome, reinstall>>
     /\ UNCHANGED <<issued, stray, active, scheduled, task, stored, runs, reloads, faults>>

\* The server handles the fetch that poll() of w waits for.  The command that
\* answers a poll while a reinstall is pending carries the token of that moment.
HandlePoll(w) ==
  LET p == poll[w]
  IN /\ \/ /\ p.step = "acknowledging"
           /\ Acknowledge(stored[w])
           /\ poll' = [poll EXCEPT ![w].step = "acknowledged"]
        \/ /\ p.step = "asking"
           /\ poll' = IF reinstall # NoToken
                        THEN [poll EXCEPT ![w].step = "commanded", ![w].limit = reinstall]
                        ELSE [poll EXCEPT ![w].step = "answered", ![w].batch = Batch(w, p.limit)]
           /\ ClaimBatch(w, p.limit)
           /\ UNCHANGED <<bid, outcome, reinstall>>
     /\ UNCHANGED <<issued, stray, active, scheduled, task, stored, runs, reloads, faults>>

\* The server handles a result POST that w waits for.
HandleResult(w, i) ==
  /\ task[w][i].step = "posting"
  /\ StoreResult(w, i, task[w][i].body)
  /\ task' = [task EXCEPT ![w][i].step = "answered", ![w][i].ok = Accepts(i)]
  /\ UNCHANGED <<reinstall, issued, stray, poll, active, scheduled, stored, runs,
                 reloads, faults>>

\* The server handles a request whose sender has given up.
HandleStray(m) ==
  /\ m \in stray
  /\ stray' = stray \ {m}
  /\ \/ /\ m.kind = "poll"
        /\ ClaimBatch(m.from, m.arg)
        /\ UNCHANGED <<bid, outcome, reinstall>>
     \/ /\ m.kind = "acknowledge"
        /\ Acknowledge(m.arg)
     \/ /\ m.kind = "result"
        /\ StoreResult(m.from, m.arg, m.body)
        /\ UNCHANGED reinstall
  /\ UNCHANGED <<issued, worker, runs, reloads, faults>>

LoseStray(m) ==
  /\ m \in stray
  /\ stray' = stray \ {m}
  /\ UNCHANGED <<server, worker, runs, reloads, faults>>

-----------------------------------------------------------------------------
(***************************************************************************)
(* poll() in background.ts                                                 *)
(***************************************************************************)

\* Mutant: work is asked for before the stored token is acknowledged.
StartPollAtOnce(w) ==
  /\ poll[w].step = "idle"
  /\ ~scheduled[w]
  /\ poll' = [poll EXCEPT ![w].step = "ready"]
  /\ UNCHANGED <<server, stray, active, scheduled, task, stored, runs, reloads, faults>>

\* The offscreen page sends a poll message.  The stored token comes first.
StartPoll(w) ==
  /\ poll[w].step = "idle"
  /\ ~scheduled[w]
  /\ poll' = [poll EXCEPT ![w].step = IF stored[w] # NoToken THEN "acknowledging" ELSE "ready"]
  /\ UNCHANGED <<server, stray, active, scheduled, task, stored, runs, reloads, faults>>

\* 204 and 409 both mean that this token is dealt with.
Acknowledged(w) ==
  /\ poll[w].step = "acknowledged"
  /\ stored' = [stored EXCEPT ![w] = NoToken]
  /\ poll' = [poll EXCEPT ![w].step = "ready"]
  /\ UNCHANGED <<server, stray, active, scheduled, task, runs, reloads, faults>>

\* Mutant: the limit does not count what is already running.
RoomForAll(w) == IF PerPoll < MaxConcurrent THEN PerPoll ELSE MaxConcurrent

\* Mutant: the last slot is never used.
RoomBelowLimit(w) ==
  LET available == MaxConcurrent - active[w]
  IN IF active[w] + 1 >= MaxConcurrent THEN 0
     ELSE IF PerPoll < available THEN PerPoll ELSE available

\* How many instructions a poll may ask for.
Room(w) ==
  LET available == MaxConcurrent - active[w]
  IN IF active[w] >= MaxConcurrent THEN 0
     ELSE IF PerPoll < available THEN PerPoll ELSE available

AskForWork(w) ==
  /\ poll[w].step = "ready"
  /\ poll' = [poll EXCEPT ![w] = IF Room(w) = 0 THEN NoPoll
                                 ELSE [NoPoll EXCEPT !.step = "asking", !.limit = Room(w)]]
  /\ UNCHANGED <<server, stray, active, scheduled, task, stored, runs, reloads, faults>>

\* The loop over the response.  An instruction within the limit starts to run
\* (executeInstruction up to its first await), a surplus one is reported as an
\* error, and one for another browser is dropped.
TakeWork(w) ==
  LET p == poll[w]
      mine == {i \in p.batch : bid[i] \in {NoBrowser, w}}
      taken == Oldest(p.limit, mine)
      Started(i) == [NoTask EXCEPT !.step = "running", !.counted = TRUE]
      Surplus(i) == [NoTask EXCEPT !.step = "posting", !.attempt = 1, !.body = "error"]
  IN /\ p.step = "answered"
     /\ task' = [task EXCEPT ![w] = [i \in Instructions |->
                   IF i \in taken THEN Started(i)
                   ELSE IF i \in mine THEN Surplus(i) ELSE @[i]]]
     /\ active' = [active EXCEPT ![w] = @ + Cardinality(taken)]
     /\ runs' = [i \in Instructions |-> IF i \in taken THEN Append(runs[i], w) ELSE runs[i]]
     /\ poll' = [poll EXCEPT ![w] = NoPoll]
     /\ UNCHANGED <<server, stray, scheduled, stored, reloads, faults>>

\* executeReinstallCommand: the token is stored, then the worker stops taking and
\* reporting work, then it stops the JavaScript it runs and reloads.
StoreCommand(w) ==
  /\ poll[w].step = "commanded"
  /\ stored' = [stored EXCEPT ![w] = poll[w].limit]
  /\ poll' = [poll EXCEPT ![w].step = "reinstalling"]
  /\ UNCHANGED <<server, stray, active, scheduled, task, runs, reloads, faults>>

ScheduleReinstall(w) ==
  /\ poll[w].step = "reinstalling"
  /\ ~scheduled[w]
  /\ scheduled' = [scheduled EXCEPT ![w] = TRUE]
  /\ UNCHANGED <<server, stray, poll, active, task, stored, runs, reloads, faults>>

-----------------------------------------------------------------------------
(***************************************************************************)
(* executeInstruction and sendResult in execution.ts                       *)
(***************************************************************************)

\* executeInstruction settles: the finally handler gives its slot back.
EndTask(w, i) ==
  /\ task' = [task EXCEPT ![w][i] = NoTask]
  /\ active' = [active EXCEPT ![w] = IF task[w][i].counted THEN @ - 1 ELSE @]

\* The action ends with a result or an error, which is reported unless the
\* worker is about to restart.
FinishAction(w, i, body) ==
  /\ task[w][i].step = "running"
  /\ IF scheduled[w]
       THEN EndTask(w, i)
       ELSE /\ task' = [task EXCEPT ![w][i].step = "posting", ![w][i].attempt = 1,
                                    ![w][i].body = body]
            /\ UNCHANGED active
  /\ UNCHANGED <<server, stray, poll, scheduled, stored, runs, reloads, faults>>

\* The POST is answered, or has failed: done, or another attempt after a delay.
ResultAnswered(w, i) ==
  /\ task[w][i].step = "answered"
  /\ IF task[w][i].ok \/ scheduled[w] \/ task[w][i].attempt = RetryAttempts
       THEN EndTask(w, i)
       ELSE /\ task' = [task EXCEPT ![w][i].step = "posting", ![w][i].attempt = @ + 1]
            /\ UNCHANGED active
  /\ UNCHANGED <<server, stray, poll, scheduled, stored, runs, reloads, faults>>

-----------------------------------------------------------------------------
(***************************************************************************)
(* Restarts and faults                                                     *)
(***************************************************************************)

\* The requests of w that the server has not handled yet.
Unhandled(w) ==
  LET p == poll[w]
  IN (IF p.step = "asking"
        THEN {[kind |-> "poll", from |-> w, arg |-> p.limit, body |-> "none"]} ELSE {})
     \cup (IF p.step = "acknowledging"
        THEN {[kind |-> "acknowledge", from |-> w, arg |-> stored[w], body |-> "none"]} ELSE {})
     \cup {[kind |-> "result", from |-> w, arg |-> i, body |-> task[w][i].body] :
             i \in {j \in Instructions : task[w][j].step = "posting"}}

\* A new worker: everything but chrome.storage.local is gone.
Restart(w) ==
  /\ stray' = stray \cup Unhandled(w)
  /\ poll' = [poll EXCEPT ![w] = NoPoll]
  /\ active' = [active EXCEPT ![w] = 0]
  /\ scheduled' = [scheduled EXCEPT ![w] = FALSE]
  /\ task' = [task EXCEPT ![w] = [i \in Instructions |-> NoTask]]
  /\ UNCHANGED <<server, stored, runs>>

\* chrome.runtime.reload()
Reload(w) ==
  /\ scheduled[w]
  /\ reloads' = [reloads EXCEPT ![w] = Append(@, stored[w])]
  /\ Restart(w)
  /\ UNCHANGED faults

Fault == issued + faults < MaxUpsets /\ faults' = faults + 1

\* The browser or its service worker is killed.
Crash(w) ==
  /\ Fault
  /\ Restart(w)
  /\ UNCHANGED reloads

\* poll()'s fetch times out or fails before or after the server handled it.
PollFails(w) ==
  /\ Fault
  /\ poll[w].step \in {"acknowledging", "acknowledged", "asking", "answered", "commanded"}
  /\ stray' = stray \cup {m \in Unhandled(w) : m.kind # "result"}
  /\ poll' = [poll EXCEPT ![w] = NoPoll]
  /\ UNCHANGED <<server, active, scheduled, task, stored, runs, reloads>>

\* A result POST times out or fails, before or after the server handled it.
ResultFails(w, i) ==
  /\ Fault
  /\ task[w][i].step \in {"posting", "answered"}
  /\ stray' = stray \cup {m \in Unhandled(w) : m.kind = "result" /\ m.arg = i}
  /\ task' = [task EXCEPT ![w][i].step = "answered", ![w][i].ok = FALSE]
  /\ UNCHANGED <<server, poll, active, scheduled, stored, runs, reloads>>

-----------------------------------------------------------------------------
PollStep(w) ==
  \/ HandlePoll(w)
  \/ StartPoll(w)
  \/ Acknowledged(w)
  \/ AskForWork(w)
  \/ TakeWork(w)
  \/ StoreCommand(w)
  \/ ScheduleReinstall(w)
  \/ Reload(w)

TaskStep(w, i) ==
  \/ HandleResult(w, i)
  \/ \E body \in {"value", "error"} : FinishAction(w, i, body)
  \/ ResultAnswered(w, i)

Client ==
  \/ \E i \in Instructions, b \in Browsers \cup {NoBrowser} : CreateInstruction(i, b)
  \/ RequestReinstall

Next ==
  \/ Client
  \/ \E w \in Browsers : PollStep(w) \/ Crash(w) \/ PollFails(w)
  \/ \E w \in Browsers, i \in Instructions : TaskStep(w, i) \/ ResultFails(w, i)
  \/ \E m \in stray : HandleStray(m) \/ LoseStray(m)

Spec == Init /\ [][Next]_vars

\* The offscreen page keeps polling, requests are handled, every action ends (each
\* is bounded by a timeout) and a scheduled reload happens.
FairSpec ==
  /\ Spec
  /\ \A w \in Browsers : WF_vars(PollStep(w))
  /\ \A w \in Browsers, i \in Instructions : WF_vars(TaskStep(w, i))
-----------------------------------------------------------------------------
TypeOK ==
  /\ status \in [Instructions -> {"absent", "pending", "processing"} \cup Terminal]
  /\ bid \in [Instructions -> Browsers \cup {NoBrowser}]
  /\ outcome \in [Instructions -> {"none", "value", "error", "reinstalled"}]
  /\ reinstall \in 0 .. MaxUpsets
  /\ issued \in 0 .. MaxUpsets
  /\ \A w \in Browsers : active[w] \in Nat /\ stored[w] \in 0 .. issued

\* Server and extensions together do for each instruction what InstructionExecution
\* promises, over reinstalls, restarts, retries and requests that arrive late.
Execution == INSTANCE InstructionExecution
ImplementsExecution == Execution!Spec

\* No browser, restart, retry or reinstall makes an instruction's action run twice.
RanAtMostOnce == \A i \in Instructions : Len(runs[i]) <= 1

\* A reported outcome comes from the one browser that ran the action, and the row
\* names that browser, whoever the target was and however the report arrived.
ResultNamesRunner ==
  \A i \in Instructions : outcome[i] \in {"value", "error"} => runs[i] = <<bid[i]>>

\* A worker never runs more than maxConcurrentExecutions actions, although it
\* computes its limit before it waits for the response, and its counter agrees
\* with the actions in progress.
ConcurrencyBound ==
  \A w \in Browsers :
    /\ active[w] = Cardinality({i \in Instructions : task[w][i].counted})
    /\ active[w] <= MaxConcurrent

\* A browser reloads at most once for a token, also when its acknowledgement or
\* the answer to it is lost.
ReloadsOncePerToken ==
  \A w \in Browsers : \A j, k \in 1 .. Len(reloads[w]) :
    reloads[w][j] = reloads[w][k] => j = k

\* A row that a live worker is still going to report.
Reporting(i) ==
  \E w \in Browsers : i \in poll[w].batch \/ task[w][i].step \in {"running", "posting"}

\* Without faults no claimed work is lost: whatever is processing is on its way to
\* a worker or being worked on, through any number of reinstalls and browsers.
NoLostWork ==
  faults = 0 => \A i \in Instructions : status[i] = "processing" => Reporting(i)

\* Rows that are submitted for a browser that exists, or for any, end, unless a
\* message or a worker is lost: reinstalls, full workers and other browsers delay
\* them only.
EveryInstructionEnds ==
  \A i \in Instructions : status[i] = "pending" ~> (status[i] \in Terminal \/ faults > 0)

\* A reinstall request is acknowledged, whatever is lost on the way: also when the
\* answer to an acknowledgement is, and a worker comes back with an outdated token.
ReinstallsEnd == \A t \in 1 .. MaxUpsets : reinstall = t ~> reinstall # t
-----------------------------------------------------------------------------
(***************************************************************************)
(* The inductive invariant.                                                *)
(***************************************************************************)
Bodies == {"value", "error"}

Polls == [step : {"idle", "acknowledging", "acknowledged", "ready", "asking", "answered",
                  "commanded", "reinstalling"},
          limit : Nat, batch : SUBSET Instructions]

Tasks == [step : {"none", "running", "posting", "answered"}, attempt : Nat,
          body : Bodies \cup {"none"}, ok : BOOLEAN, counted : BOOLEAN]

Requests == [kind : {"poll", "acknowledge", "result"}, from : Browsers, arg : Nat,
             body : Bodies \cup {"none"}]

Types ==
  /\ status \in [Instructions -> {"absent", "pending", "processing"} \cup Terminal]
  /\ bid \in [Instructions -> Browsers \cup {NoBrowser}]
  /\ outcome \in [Instructions -> Bodies \cup {"none", "reinstalled"}]
  /\ reinstall \in {NoToken, issued}
  /\ issued \in 0 .. MaxUpsets
  /\ stray \in SUBSET Requests
  /\ poll \in [Browsers -> Polls]
  /\ active \in [Browsers -> Nat]
  /\ scheduled \in [Browsers -> BOOLEAN]
  /\ task \in [Browsers -> [Instructions -> Tasks]]
  /\ stored \in [Browsers -> Nat]
  /\ runs \in [Instructions -> Seq(Browsers)]
  /\ reloads \in [Browsers -> Seq(Nat)]
  /\ faults \in Nat

\* A row whose instruction was handed out.
Claimed(i) == status[i] \in Terminal \cup {"processing"}

\* An instruction runs in one browser, which it is for; only that reports it.
RunsOK ==
  \A i \in Instructions :
    \/ runs[i] = <<>> /\ outcome[i] \notin Bodies
    \/ \E w \in Browsers :
         /\ runs[i] = <<w>> /\ Claimed(i) /\ bid[i] \in {NoBrowser, w}
         /\ outcome[i] \in Bodies => bid[i] = w

\* What a worker was handed is its own, in no other response, has not run, and is
\* no more than it asked for.
BatchesOK ==
  \A w \in Browsers : \A i \in poll[w].batch :
    /\ poll[w].step = "answered"
    /\ runs[i] = <<>> /\ Claimed(i) /\ bid[i] \in {NoBrowser, w}
    /\ \A v \in Browsers \ {w} : i \notin poll[v].batch
    /\ Cardinality({j \in poll[w].batch : j < i}) < poll[w].limit

\* A worker is only busy with what it ran itself; from the command to reinstall on
\* with nothing that is still processing.
TasksOK ==
  \A w \in Browsers, i \in Instructions :
    \/ task[w][i] = NoTask
    \/ /\ task[w][i].step # "none" /\ task[w][i].counted /\ runs[i] = <<w>>
       /\ task[w][i].step # "running" => task[w][i].body \in Bodies
       /\ poll[w].step \in {"commanded", "reinstalling"} => status[i] \in Terminal

\* A late report is one of the browser that ran the instruction.  Only a fault leaves
\* other requests behind.
StraysOK ==
  \A m \in stray :
    \/ m.kind = "result" /\ m.arg \in Instructions /\ m.body \in Bodies /\ runs[m.arg] = <<m.from>>
    \/ m.kind # "result" /\ faults > 0

\* The counter, and the room a worker has asked for.
CountsOK ==
  \A w \in Browsers :
    /\ active[w] = Cardinality({i \in Instructions : task[w][i].counted})
    /\ active[w] <= MaxConcurrent
    /\ poll[w].step \in {"asking", "answered"} => active[w] + poll[w].limit <= MaxConcurrent

\* Where a token is between its command and its acknowledgement.
TokensOK ==
  \A w \in Browsers :
    /\ stored[w] <= issued
    /\ poll[w].step \in {"ready", "asking", "answered", "commanded"} => stored[w] = NoToken
    /\ poll[w].step \in {"acknowledging", "acknowledged"} => stored[w] # NoToken
    /\ poll[w].step = "acknowledged" => reinstall # stored[w]
    /\ poll[w].step = "commanded" => /\ poll[w].limit \in 1 .. issued
                                     /\ \A k \in 1 .. Len(reloads[w]) : reloads[w][k] # poll[w].limit
    /\ poll[w].step = "reinstalling" => /\ stored[w] # NoToken
                                        /\ \A k \in 1 .. Len(reloads[w]) : reloads[w][k] # stored[w]
    /\ scheduled[w] => poll[w].step = "reinstalling"

\* A token that w reloaded for is past, or the one that w is to acknowledge.
ReloadsOK ==
  \A w \in Browsers : \A k \in 1 .. Len(reloads[w]) :
    /\ reloads[w][k] \in 1 .. issued
    /\ reinstall # reloads[w][k] \/ stored[w] = reloads[w][k]
    /\ \A j \in 1 .. Len(reloads[w]) : reloads[w][j] = reloads[w][k] => j = k

\* Nothing is in progress while a reinstall is pending.
QuietOK == reinstall # NoToken => \A i \in Instructions : status[i] # "processing"

IInv ==
  /\ Types
  /\ RunsOK
  /\ BatchesOK
  /\ TasksOK
  /\ StraysOK
  /\ CountsOK
  /\ TokensOK
  /\ ReloadsOK
  /\ QuietOK
  /\ NoLostWork
=============================================================================
