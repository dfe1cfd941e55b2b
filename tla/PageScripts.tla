----------------------------- MODULE PageScripts ------------------------------
(***************************************************************************)
(* The actions that run scripts in a page: JavaScript executions           *)
(* (executeJavaScript, withTerminationOnTimeout, reloadTab), the reinstall *)
(* that stops them (executeReinstallCommand), and the console calls of     *)
(* ConsoleCapture, with which they share the page and the tab's queue.     *)
(*                                                                         *)
(* A script that is started lives in its page until it ends, is terminated *)
(* (which reaches running code, not pending promises) or the page is       *)
(* replaced.  A load, once it begins, ends with a new document.            *)
(***************************************************************************)
EXTENDS ConsoleCapture

CONSTANT Kinds   \* what each call may be

ASSUME ScriptsAssumption == Calls \cap Tabs = {}

VARIABLES
  pc,       \* where a call is, or how it ended
  stop,     \* the termination of a call's script: stopPromise
  reloads,  \* reloadTab, by a call that timed out or by the reinstall for a tab
  live,     \* per tab: calls whose script is in the page
  status,   \* per tab: chrome.tabs status; "committed" when the new page is there
  phase,    \* of the reinstall
  stopping  \* the executions the reinstall found active

scriptVars == <<pc, stop, reloads, live, status, phase, stopping>>
vars == <<consoleVars, scriptVars>>

Running   == {"installing", "running", "terminating", "reloading"}
Script    == {"assets", "attaching"} \cup Running
Console   == {"starting", "capturing", "stopping", "restoring"}
\* "timeout": stopped and reloaded; "unstopped": the error says what failed;
\* "detached": the debugger was lost; "gone": the worker was restarted.
Ended     == {"ok", "error", "timeout", "unstopped", "detached", "gone"}

ScriptTypes ==
  /\ pc \in [Calls -> {"new"} \cup Script \cup Console \cup Ended]
  /\ stop \in [Calls -> {"none", "sent", "ok", "failed"}]
  /\ reloads \in [Calls \cup Tabs -> {"none", "asked", "loading", "ok", "failed"}]
  /\ live \in [Tabs -> SUBSET Calls]
  /\ status \in [Tabs -> {"complete", "loading", "committed"}]
  /\ phase \in {"idle", "stopping", "reloading", "finishing", "restarted"}
  /\ stopping \subseteq Calls
  /\ \A c \in Calls :
       /\ (pc[c] \in {"terminating", "reloading"} \/ c \in stopping) => stop[c] # "none"
       /\ pc[c] = "reloading" => reloads[c] # "none"

TypeOK == ConsoleTypeOK /\ ScriptTypes

Init ==
  /\ ConsoleInit
  /\ pc = [c \in Calls |-> "new"]
  /\ stop = [c \in Calls |-> "none"]
  /\ reloads = [w \in Calls \cup Tabs |-> "none"]
  /\ live = [t \in Tabs |-> {}]
  /\ status = [t \in Tabs |-> "complete"]
  /\ phase = "idle" /\ stopping = {}

Goto(c, where) == pc' = [pc EXCEPT ![c] = where]

Reinstalling == phase \in {"stopping", "reloading", "finishing"}

\* Mutant: the flag is not looked at again when the libraries are in the page.
ScheduledBefore(c) == Reinstalling /\ pc[c] # "installing"
\* state.reinstallScheduled, as a call sees it.
Scheduled(c) == Reinstalling

\* state.activeJavaScriptExecutions: from `add` to the `finally`.
Active == {c \in Calls : pc[c] \in Running}

\* The tab's queue: one call at a time, in the order of their numbers.
ItsTurn(c) ==
  \A d \in Calls : TabOf[d] = TabOf[c] => pc[d] \in IF d < c THEN Ended ELSE {"new"}

----------------------------------------------------------------------------
(* executeJavaScript *)

Begin(c, kind, where) ==
  /\ pc[c] = "new" /\ kind \in Kinds[c] /\ ItsTurn(c) /\ ~Scheduled(c)
  /\ Goto(c, where)
  /\ UNCHANGED <<consoleVars, stop, reloads, live, status, phase, stopping>>

ExecuteJavaScript(c) == Begin(c, "javascript", "assets")

\* Libraries read, debugger attached (or not): the flag is looked at again.
Prepare(c) ==
  /\ pc[c] \in {"assets", "attaching"}
  /\ \/ Goto(c, "error")
     \/ ~Scheduled(c) /\ Goto(c, IF pc[c] = "assets" THEN "attaching" ELSE "installing")
  /\ UNCHANGED <<consoleVars, stop, reloads, live, status, phase, stopping>>

\* The libraries are in the page: the script is sent.
Installed(c) ==
  /\ pc[c] = "installing"
  /\ LoadLibraries(TabOf[c])
  /\ IF Scheduled(c)
     THEN Goto(c, "error") /\ UNCHANGED live
     ELSE Goto(c, "running") /\ live' = [live EXCEPT ![TabOf[c]] = @ \cup {c}]
  /\ UNCHANGED <<sessions, budget, capture, upload, stop, reloads, status, phase, stopping>>

\* They timed out, and may have come into the page, or the debugger failed.
InstallFails(c) ==
  /\ pc[c] = "installing"
  /\ LoadLibraries(TabOf[c]) \/ UNCHANGED page
  /\ Goto(c, "error")
  /\ UNCHANGED <<sessions, budget, capture, upload, stop, reloads, live, status, phase, stopping>>

\* The script ends by itself, or is answered with an error when it is gone.
Evaluated(c) ==
  /\ pc[c] = "running"
  /\ Goto(c, IF c \in live[TabOf[c]] THEN "ok" ELSE "error")
  /\ live' = [live EXCEPT ![TabOf[c]] = @ \ {c}]
  /\ UNCHANGED <<consoleVars, stop, reloads, status, phase, stopping>>

\* The debugger is detached: the command is answered, the script goes on.
Detached(c) ==
  /\ pc[c] = "running"
  /\ Goto(c, "detached")
  /\ UNCHANGED <<consoleVars, stop, reloads, live, status, phase, stopping>>

\* Mutant: the promise is set, the command is not sent.
StopUnsent(calls) == stop
\* stopPromise ??= ...: one termination for a script, whoever asks for it.
Stop(calls) == [c \in Calls |-> IF c \in calls /\ stop[c] = "none" THEN "sent" ELSE stop[c]]

TimesOut(c) ==
  /\ pc[c] = "running"
  /\ Goto(c, "terminating")
  /\ stop' = Stop({c})
  /\ UNCHANGED <<consoleVars, reloads, live, status, phase, stopping>>

\* Runtime.terminateExecution ends what runs in the page, pending promises stay.
Terminated(c) ==
  /\ stop[c] = "sent"
  /\ stop' = [stop EXCEPT ![c] = "ok"]
  /\ \E ended \in SUBSET live[TabOf[c]] : live' = [live EXCEPT ![TabOf[c]] = @ \ ended]
  /\ UNCHANGED <<consoleVars, pc, reloads, status, phase, stopping>>

\* It is not answered in time, or refused.
StopFails(c) ==
  /\ stop[c] = "sent"
  /\ stop' = [stop EXCEPT ![c] = "failed"]
  /\ UNCHANGED <<consoleVars, pc, reloads, live, status, phase, stopping>>

Settled(c) == stop[c] \in {"ok", "failed"}

\* Terminated or not, the tab is reloaded.
ReloadAfterTimeout(c) ==
  /\ pc[c] = "terminating" /\ Settled(c)
  /\ Goto(c, "reloading")
  /\ reloads' = [reloads EXCEPT ![c] = "asked"]
  /\ UNCHANGED <<consoleVars, stop, live, status, phase, stopping>>

\* The timeout is reported, with what failed if the reload did.
Report(c) ==
  /\ pc[c] = "reloading" /\ reloads[c] \in {"ok", "failed"}
  /\ Goto(c, IF reloads[c] = "ok" THEN "timeout" ELSE "unstopped")
  /\ UNCHANGED <<consoleVars, stop, reloads, live, status, phase, stopping>>

----------------------------------------------------------------------------
(* The page: loads, and reloadTab's listener *)

Waiters(t) == {c \in Calls : TabOf[c] = t} \cup {t}

\* A load begins: a reload, or the page or the user navigates.  Chromium
\* reports it unless another was in progress.
Loading(t) ==
  /\ status' = [status EXCEPT ![t] = "loading"]
  /\ \E seen \in BOOLEAN :
       /\ status[t] = "complete" => seen
       /\ reloads' = [w \in DOMAIN reloads |->
            IF w \in Waiters(t) /\ reloads[w] = "asked" /\ seen THEN "loading" ELSE reloads[w]]
  /\ UNCHANGED <<consoleVars, pc, stop, live, phase, stopping>>

Commit(t) ==
  /\ status[t] = "loading"
  /\ status' = [status EXCEPT ![t] = "committed"]
  /\ live' = [live EXCEPT ![t] = {}]
  /\ ReplacePage(t)
  /\ UNCHANGED <<pc, stop, reloads, phase, stopping>>

\* Mutant: a listener takes any "complete".
AnyComplete(w) == reloads[w] \in {"asked", "loading"}
\* The listener has seen the load begin.
SawLoading(w) == reloads[w] = "loading"

Complete(t) ==
  /\ status[t] = "committed"
  /\ status' = [status EXCEPT ![t] = "complete"]
  /\ reloads' = [w \in DOMAIN reloads |->
       IF w \in Waiters(t) /\ SawLoading(w) THEN "ok" ELSE reloads[w]]
  /\ UNCHANGED <<consoleVars, pc, stop, live, phase, stopping>>

\* The reload times out, or Chromium refuses it.
ReloadFails(w) ==
  /\ reloads[w] \in {"asked", "loading"}
  /\ reloads' = [reloads EXCEPT ![w] = "failed"]
  /\ UNCHANGED <<consoleVars, pc, stop, live, status, phase, stopping>>

----------------------------------------------------------------------------
(* executeReinstallCommand, stopActiveJavaScriptExecutions *)

\* Bound: while only console calls are in progress, Restart stands for it.
Reinstall ==
  /\ phase = "idle" /\ \E c \in Calls : pc[c] \in Script
  /\ phase' = "stopping"
  /\ stopping' = Active
  /\ stop' = Stop(Active)
  /\ UNCHANGED <<consoleVars, pc, reloads, live, status>>

\* Mutant: only tabs whose script could not be terminated are reloaded.
TabsUnstopped(calls) == {TabOf[c] : c \in {d \in calls : stop[d] = "failed"}}
\* The tabs of the executions found active.
TabsOf(calls) == {TabOf[c] : c \in calls}

ReloadTabs ==
  /\ phase = "stopping" /\ \A c \in stopping : Settled(c)
  /\ phase' = "reloading"
  /\ reloads' = [w \in DOMAIN reloads |-> IF w \in TabsOf(stopping) THEN "asked" ELSE reloads[w]]
  /\ UNCHANGED <<consoleVars, pc, stop, live, status, stopping>>

AwaitFinished ==
  /\ phase = "reloading" /\ \A t \in Tabs : reloads[t] \notin {"asked", "loading"}
  /\ phase' = "finishing"
  /\ UNCHANGED <<consoleVars, pc, stop, reloads, live, status, stopping>>

\* A new worker: all it knew is gone, the pages are not.
NewWorker ==
  /\ pc' = [c \in Calls |-> IF pc[c] \in {"new"} \cup Ended THEN pc[c] ELSE "gone"]
  /\ stop' = [c \in Calls |-> "none"]
  /\ reloads' = [w \in DOMAIN reloads |-> "none"]
  /\ stopping' = {}
  /\ sessions' = {}
  /\ UNCHANGED <<budget, page, capture, upload, live, status>>

\* The executions have finished, or are no longer waited for:
\* chrome.runtime.reload.
RuntimeReload ==
  /\ phase = "finishing"
  /\ phase' = "restarted"
  /\ NewWorker

\* Chromium restarts the worker, in the middle of whatever it does; a
\* reinstall is then asked for again.
Restart ==
  /\ \E c \in Calls : pc[c] \notin {"new"} \cup Ended
  /\ phase' = IF phase = "restarted" THEN phase ELSE "idle"
  /\ NewWorker

----------------------------------------------------------------------------
(* Console calls *)

ConsoleStart(c) == ~HasSession(TabOf[c]) /\ Begin(c, "start", "starting")
ConsoleRead(c) ==
  /\ HasSession(TabOf[c])
  /\ Begin(c, "capture", "capturing") \/ Begin(c, "stop", "stopping")

ConsoleAnswered(c) ==
  LET t == TabOf[c] IN
  /\ \/ pc[c] = "starting" /\ Started(c) /\ Goto(c, "ok")
     \/ pc[c] = "starting" /\ StartFailed(c) /\ Goto(c, "error")
     \/ pc[c] \in {"capturing", "stopping"} /\ ReadFailed(t) /\ Goto(c, "error")
     \/ pc[c] = "capturing" /\ Captured(t) /\ Goto(c, "ok")
     \/ pc[c] = "stopping" /\ Captured(t) /\ Goto(c, "restoring")
     \/ pc[c] = "restoring" /\ Restored(t) /\ Goto(c, "ok")
  /\ UNCHANGED <<stop, reloads, live, status, phase, stopping>>

ConsoleOfPage ==
  /\ \/ \E t \in Tabs, size \in Sizes : Log(t, size)
     \/ \E c \in Calls : Deadline(c)
     \/ \E b \in Budgets : SaveBudget(b)
  /\ UNCHANGED scriptVars

----------------------------------------------------------------------------

Next ==
  \/ \E c \in Calls :
       \/ ExecuteJavaScript(c) \/ Prepare(c) \/ Installed(c) \/ InstallFails(c)
       \/ Evaluated(c) \/ Detached(c) \/ TimesOut(c)
       \/ Terminated(c) \/ StopFails(c) \/ ReloadAfterTimeout(c) \/ Report(c)
       \/ ConsoleStart(c) \/ ConsoleRead(c) \/ ConsoleAnswered(c)
  \/ \E t \in Tabs : Loading(t) \/ Commit(t) \/ Complete(t)
  \/ \E w \in Calls \cup Tabs : ReloadFails(w)
  \/ Reinstall \/ ReloadTabs \/ AwaitFinished \/ RuntimeReload \/ Restart
  \/ ConsoleOfPage

Spec == Init /\ [][Next]_vars

----------------------------------------------------------------------------

\* A script is in a page only while its call is in progress, or after an end
\* that says so: a call reported as done, failed or timed out has left
\* nothing behind.
NoSilentScripts ==
  \A t \in Tabs : \A c \in live[t] :
    pc[c] \in (Running \ {"installing"}) \cup {"unstopped", "detached", "gone"}

\* Once a reinstall has listed the executions to stop, no script starts.
NoScriptsBesideReinstall ==
  [][Reinstalling => \A t \in Tabs : live'[t] \subseteq live[t]]_vars

\* When the worker reloads itself, every script it knew is gone, unless the
\* reload of the tab has failed.
ReinstallStopsScripts ==
  [][phase' = "restarted" /\ phase # "restarted" =>
       \A c \in Active : c \in live[TabOf[c]] => reloads[TabOf[c]] = "failed"]_vars

----------------------------------------------------------------------------
(* The inductive invariant *)

LiveOK ==
  /\ \A t \in Tabs : \A c \in live[t] : TabOf[c] = t
  /\ NoSilentScripts

\* A reload that has seen a load begin waits for that load or a later one; when it
\* is done, none of these scripts is left.
Replaces(w, t, calls) ==
  /\ reloads[w] = "loading" =>
       status[t] # "complete" /\ (status[t] = "committed" => live[t] \cap calls = {})
  /\ reloads[w] = "ok" => live[t] \cap calls = {}

ReloadsOK ==
  /\ \A c \in Calls : pc[c] = "reloading" => Replaces(c, TabOf[c], {c})
  /\ \A t \in Tabs :
       IF phase \in {"reloading", "finishing"} THEN Replaces(t, t, Calls) ELSE reloads[t] = "none"

\* A reinstall knows every script that is in progress, and what became of the
\* reload of its tab.
ReinstallOK ==
  /\ Reinstalling => \A c \in Active : c \in live[TabOf[c]] => c \in stopping
  /\ phase \in {"reloading", "finishing"} => \A t \in TabsOf(stopping) : reloads[t] # "none"
  /\ phase = "finishing" => \A t \in Tabs : reloads[t] \notin {"asked", "loading"}

\* A call installs its shim once: before, no page and no upload has its capture.
NotInstalled ==
  \A c \in Calls : pc[c] \in {"new", "starting"} =>
    \A t \in Tabs : c # Found(page[t]) /\ c # upload[t].of

UploadInv == UploadTypes /\ CaptureOK /\ NotInstalled
ScriptInv == ScriptTypes /\ LiveOK /\ ReloadsOK /\ ReinstallOK
IInv == ConsoleInv /\ UploadInv /\ ScriptInv
=============================================================================
