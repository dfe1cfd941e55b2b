------------------------------- MODULE Startup --------------------------------
(***************************************************************************)
(* How the worker, the offscreen page that polls for it and the popup      *)
(* start, stop and share the settings: lifecycle.ts, storage.ts,           *)
(* background.ts, offscreen.ts and popup.ts.                               *)
(*                                                                         *)
(* A call of getConfiguration occupies a slot until its answer is handled. *)
(* Settings are "nothing", "old" (an earlier version's, not normalized),   *)
(* "seed", "upgraded" (what "old" becomes) or what a user saves.  Chromium *)
(* stops only an idle worker, and wakes it for any message.                *)
(***************************************************************************)
EXTENDS Naturals, Sequences, SequencesExt, FiniteSets

CONSTANTS
  Slots,        \* bound: calls of getConfiguration at a time
  Saves,        \* what users save in the popup, each once
  MaxChain,     \* bound: pending calls of ensureOffscreenDocument
  MaxFailures,  \* bound: failed fetches of settings.json
  MaxReloads    \* bound: reinstalls

ASSUME StartupAssumption ==
  /\ Saves \cap {"nothing", "old", "seed", "upgraded", "default"} = {}
  /\ {MaxChain, MaxFailures, MaxReloads} \subseteq Nat

VARIABLES
  worker,    \* "up" or "down"
  chain,     \* offscreenPromise: the calls of ensureOffscreenDocument in order
  promise,   \* configurationPromise: "null", "pending" or "resolved"
  load,      \* calls of getConfiguration
  page,      \* the offscreen document: "none", "loading" or "open"
  timer,     \* the page's next poll is scheduled
  interval,  \* the page's pollIntervalMs, by the settings it comes from
  popup,     \* "closed", "loading", "failed" or "filled"
  stored,    \* the settings in chrome.storage.local
  saved, failures, reloads

bounded == <<saved, failures, reloads>>
vars == <<worker, chain, promise, load, page, timer, interval, popup, stored, bounded>>

Ensure(recreate) == [recreate |-> recreate, step |-> "contexts"]
NoLoad == [pc |-> "free", for |-> "nobody", first |-> FALSE, read |-> "nothing"]

\* What may be stored, and what is up to date.
Settings == {"nothing", "old", "seed", "upgraded"} \cup Saves
Current == {"seed", "upgraded"} \cup Saves

Loads == [pc: {"free", "reading", "waiting", "fetching", "writing", "answered", "rejected"},
          for: {"nobody", "page", "poll", "popup"}, first: BOOLEAN, read: Settings]

TypeOK ==
  /\ worker \in {"up", "down"}
  /\ chain \in Seq([recreate: BOOLEAN, step: {"contexts", "close", "create"}])
  /\ promise \in {"null", "pending", "resolved"}
  /\ load \in [Slots -> Loads]
  /\ page \in {"none", "loading", "open"} /\ timer \in BOOLEAN
  /\ interval \in {"default"} \cup Current
  /\ popup \in {"closed", "loading", "failed", "filled"}
  /\ stored \in Settings
  /\ saved \subseteq Saves /\ failures \in 0 .. MaxFailures /\ reloads \in 0 .. MaxReloads
  /\ worker = "down" => chain = <<>> /\ promise = "null" /\ \A s \in Slots : load[s].pc = "free"
  /\ timer => page = "open"

\* An installation, an update or a start of the browser.
Init ==
  /\ worker = "up" /\ chain = <<Ensure(TRUE)>> /\ promise = "null"
  /\ load = [s \in Slots |-> NoLoad]
  /\ page = "none" /\ timer = FALSE /\ interval = "default" /\ popup = "closed"
  /\ stored \in {"nothing", "old", "seed"}
  /\ saved = {} /\ failures = 0 /\ reloads = 0

----------------------------------------------------------------------------
(* The offscreen document *)

\* onInstalled, onStartup, or a recording that starts.
EnsureDocument ==
  /\ worker = "up" /\ Len(chain) < MaxChain
  /\ chain' = Append(chain, Ensure(FALSE))
  /\ UNCHANGED <<worker, promise, load, page, timer, interval, popup, stored, bounded>>

\* Mutant: operations do not wait for one another.
TurnAtOnce(i) == i \in DOMAIN chain
\* An operation starts when the one before it in the chain has settled.
Turn(i) == i = 1 /\ chain # <<>>

Proceed(i, step) == chain' = [chain EXCEPT ![i].step = step]
End(i) == chain' = RemoveAt(chain, i)
Deaf(client) == [s \in Slots |-> IF load[s].for = client THEN [load[s] EXCEPT !.for = "nobody"] ELSE load[s]]

GetContexts(i) ==
  /\ Turn(i) /\ chain[i].step = "contexts"
  /\ CASE chain[i].recreate /\ page # "none" -> Proceed(i, "close")
       [] page = "none" -> Proceed(i, "create")
       [] OTHER -> End(i)
  /\ UNCHANGED <<worker, promise, load, page, timer, interval, popup, stored, bounded>>

CloseDocument(i) ==
  /\ Turn(i) /\ chain[i].step = "close"
  /\ Proceed(i, "create")
  /\ page' = "none" /\ timer' = FALSE /\ interval' = "default"
  /\ load' = Deaf("page")
  /\ UNCHANGED <<worker, promise, popup, stored, bounded>>

\* Chromium refuses a second document.
CreateDocument(i) ==
  /\ Turn(i) /\ chain[i].step = "create"
  /\ page' = IF page = "none" THEN "loading" ELSE page
  /\ End(i)
  /\ UNCHANGED <<worker, promise, load, timer, interval, popup, stored, bounded>>

DocumentStep == \E i \in 1 .. MaxChain : GetContexts(i) \/ CloseDocument(i) \/ CreateDocument(i)

----------------------------------------------------------------------------
(* The worker's side of the settings *)

\* Mutant: every call loads the settings by itself, at once.
CallUngated(client) == [NoLoad EXCEPT !.pc = "reading", !.for = client, !.first = promise = "null"]
\* The first call loads the settings; one that comes meanwhile waits for it,
\* and then loads them as every later one does.
Call(client) ==
  [NoLoad EXCEPT !.pc = IF promise = "pending" THEN "waiting" ELSE "reading",
                 !.for = client, !.first = promise = "null"]

Called == promise' = IF promise = "null" THEN "pending" ELSE promise

Free == {s \in Slots : load[s].pc = "free"}
FreeSlot == CHOOSE s \in Free : TRUE

\* A message wakes the worker, whose script recreates the page first.
Wake ==
  /\ worker' = "up"
  /\ chain' = IF worker = "down" THEN <<Ensure(TRUE)>> ELSE chain

SendGetConfiguration(client) ==
  /\ Free # {}
  /\ load' = [load EXCEPT ![FreeSlot] = Call(client)]
  /\ Called /\ Wake

Normalized(values) ==
  CASE values = "nothing" -> "seed"   \* of settings.json
    [] values = "old" -> "upgraded"
    [] OTHER -> values

\* The load of s ends with pc; if it was the first, those that wait go on
\* or fail with it.
Settle(s, pc, read) ==
  /\ promise' = IF ~load[s].first THEN promise ELSE IF pc = "rejected" THEN "null" ELSE "resolved"
  /\ load' = [o \in Slots |->
       CASE o = s -> [load[s] EXCEPT !.pc = pc, !.read = read]
         [] load[o].pc = "waiting" /\ load[s].first ->
              [load[o] EXCEPT !.pc = IF pc = "rejected" THEN "rejected" ELSE "reading"]
         [] OTHER -> load[o]]

ReadStored(s) ==
  /\ load[s].pc = "reading"
  /\ IF Normalized(stored) = stored
       THEN Settle(s, "answered", stored)
       ELSE /\ load' = [load EXCEPT ![s].pc = IF stored = "nothing" THEN "fetching" ELSE "writing",
                                    ![s].read = stored]
            /\ UNCHANGED promise
  /\ UNCHANGED <<stored, failures>>

FetchSettings(s) ==
  /\ load[s].pc = "fetching"
  /\ load' = [load EXCEPT ![s].pc = "writing"]
  /\ UNCHANGED <<promise, stored, failures>>

FetchFails(s) ==
  /\ load[s].pc = "fetching" /\ failures < MaxFailures
  /\ failures' = failures + 1
  /\ Settle(s, "rejected", load[s].read)
  /\ UNCHANGED stored

WriteBack(s) ==
  /\ load[s].pc = "writing"
  /\ stored' = Normalized(load[s].read)
  /\ Settle(s, "answered", stored')
  /\ UNCHANGED failures

LoadConfiguration(s) ==
  /\ ReadStored(s) \/ FetchSettings(s) \/ WriteBack(s)
  /\ UNCHANGED <<worker, chain, page, timer, interval, popup, saved, reloads>>

FailConfiguration(s) ==
  /\ FetchFails(s)
  /\ UNCHANGED <<worker, chain, page, timer, interval, popup, saved, reloads>>

Settled(s) == load[s].pc \in {"answered", "rejected"}

\* poll() has its configuration, or whoever asked is gone.
EndCall(s) ==
  /\ Settled(s) /\ load[s].for \in {"poll", "nobody"}
  /\ load' = [load EXCEPT ![s] = NoLoad]
  /\ UNCHANGED <<worker, chain, promise, page, timer, interval, popup, stored, bounded>>

----------------------------------------------------------------------------
(* The page *)

\* The page's script runs and asks at once.
LoadPage ==
  /\ page = "loading" /\ page' = "open"
  /\ SendGetConfiguration("page")
  /\ UNCHANGED <<timer, interval, popup, stored, bounded>>

FireTimer ==
  /\ timer /\ timer' = FALSE
  /\ SendGetConfiguration("page")
  /\ UNCHANGED <<page, interval, popup, stored, bounded>>

\* Mutant: the next poll is scheduled only after a successful one.
ScheduledOnSuccess(s) == load[s].pc = "answered" \/ timer
\* schedulePoll, after an error too.
Scheduled(s) == TRUE

\* requestInstructions goes on: it takes the interval over, sends "poll" and
\* schedules the next round; poll() returns at once if one is in progress.
RequestInstructions(s) ==
  /\ Settled(s) /\ load[s].for = "page"
  /\ interval' = IF load[s].pc = "answered" THEN load[s].read ELSE interval
  /\ timer' = Scheduled(s)
  /\ IF \E o \in Slots : load[o].for = "poll"
       THEN load' = [load EXCEPT ![s] = NoLoad] /\ UNCHANGED promise
       ELSE load' = [load EXCEPT ![s] = Call("poll")] /\ Called
  /\ UNCHANGED <<worker, chain, page, popup, stored, bounded>>

----------------------------------------------------------------------------
(* The popup *)

\* Calls of the popup leave a slot to the page.
OpenPopup ==
  /\ popup = "closed" /\ popup' = "loading"
  /\ Cardinality(Free) > 1 /\ SendGetConfiguration("popup")
  /\ UNCHANGED <<page, timer, interval, stored, bounded>>

FillPopup(s) ==
  /\ Settled(s) /\ load[s].for = "popup"
  /\ popup' = IF load[s].pc = "answered" THEN "filled" ELSE "failed"
  /\ load' = [load EXCEPT ![s] = NoLoad]
  /\ UNCHANGED <<worker, chain, promise, page, timer, interval, stored, bounded>>

\* The fields are required, so that only a filled form can be submitted.
\* "settingsUpdated" reschedules the page's timer, also during a round.
SubmitSettings(v) ==
  /\ popup = "filled" /\ v \notin saved
  /\ saved' = saved \cup {v}
  /\ stored' = v
  /\ IF page = "open" THEN interval' = v /\ timer' = TRUE ELSE UNCHANGED <<interval, timer>>
  /\ Wake
  /\ UNCHANGED <<promise, load, page, popup, failures, reloads>>

ClosePopup ==
  /\ popup # "closed" /\ popup' = "closed"
  /\ load' = Deaf("popup")
  /\ UNCHANGED <<worker, chain, promise, page, timer, interval, stored, bounded>>

----------------------------------------------------------------------------
(* Chromium *)

\* An idle worker is stopped; the page waits for its timer by then.
StopWorker ==
  /\ worker = "up" /\ chain = <<>> /\ Free = Slots /\ timer
  /\ worker' = "down" /\ promise' = "null"
  /\ UNCHANGED <<chain, load, page, timer, interval, popup, stored, bounded>>

\* runtime.reload ends worker, page and popup, at any point.
Reload ==
  /\ worker = "up" /\ reloads < MaxReloads /\ reloads' = reloads + 1
  /\ chain' = <<Ensure(TRUE)>> /\ promise' = "null" /\ load' = [s \in Slots |-> NoLoad]
  /\ page' = "none" /\ timer' = FALSE /\ interval' = "default" /\ popup' = "closed"
  /\ UNCHANGED <<worker, stored, saved, failures>>

----------------------------------------------------------------------------
Serve(s) == LoadConfiguration(s) \/ EndCall(s) \/ RequestInstructions(s) \/ FillPopup(s)

Next ==
  \/ EnsureDocument \/ DocumentStep \/ LoadPage \/ FireTimer
  \/ \E s \in Slots : Serve(s) \/ FailConfiguration(s)
  \/ OpenPopup \/ ClosePopup \/ \E v \in Saves : SubmitSettings(v)
  \/ StopWorker \/ Reload

Spec == Init /\ [][Next]_vars
FairSpec ==
  /\ Spec
  /\ WF_vars(DocumentStep) /\ WF_vars(LoadPage) /\ WF_vars(FireTimer)
  /\ \A s \in Slots : WF_vars(Serve(s))

----------------------------------------------------------------------------
(* Properties *)

\* createDocument, which Chromium refuses while a document exists, is only
\* called without one, whatever events ensured the document meanwhile.
OneOffscreenDocument ==
  \A i \in 1 .. Len(chain) : chain[i].step = "create" => page = "none"

\* What a user saved is only replaced by what a user saves: no load writes
\* back what it read, or found missing, before the save.
SavedSettingsStay == [][(stored \in Saves) => (stored' \in Saves)]_vars

\* Polling never ends, through failed loads, stops of the worker, recreated
\* pages and reloads, and again and again at the interval that is stored.
PollsFollowSettings == []<><<interval' = stored /\ \E s \in Slots : RequestInstructions(s)>>_vars

----------------------------------------------------------------------------
(* The inductive invariant *)

\* Only the first call of the chain has begun, and it creates into nothing.
ChainOK ==
  /\ \A i \in DOMAIN chain : i # 1 => chain[i].step = "contexts"
  /\ OneOffscreenDocument

\* A page that waits for its configuration is there; answers are up to date.
AnswersOK ==
  \A s \in Slots :
    /\ load[s].for = "page" => page = "open"
    /\ load[s].pc = "answered" => load[s].read \in Current

Busy(s) == load[s].pc \in {"reading", "fetching", "writing"}

\* As long as the stored settings are not up to date, one call at most deals
\* with them, the first; nobody has an answer and nothing can be saved.
SeedingOK ==
  stored \notin Current =>
    /\ popup # "filled" /\ promise # "resolved"
    /\ \A s \in Slots :
         /\ load[s].pc # "answered"
         /\ Busy(s) => load[s].first /\ promise = "pending" /\ \A o \in Slots : Busy(o) => o = s

\* Afterwards no call writes.
SeededOK == stored \in Current => \A s \in Slots : load[s].pc \notin {"fetching", "writing"}

IInv == TypeOK /\ ChainOK /\ AnswersOK /\ SeedingOK /\ SeededOK
=============================================================================
