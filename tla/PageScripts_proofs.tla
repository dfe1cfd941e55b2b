-------------------------- MODULE PageScripts_proofs ---------------------------
(***************************************************************************)
(* Proofs about PageScripts: its inductive invariant IInv, that no script  *)
(* is left behind silently or started beside a reinstall, that a reinstall *)
(* stops the scripts there are, that every shim of the console can be      *)
(* undone, and that uploads are faithful.  The parts of the console, of    *)
(* the uploads and of the scripts are invariants of their own: all that    *)
(* they share is that a new document ends what was in a page, and that a   *)
(* call which is still to begin has nothing in any page.                   *)
(***************************************************************************)
EXTENDS PageScripts, ConsoleCapture_proofs

(***************************************************************************)
(* The console's part of the invariant.                                    *)
(***************************************************************************)

\* What the page and the user's settings do.
LEMMA ConsoleOfPageKeeps ==
  ASSUME ConsoleInv, ConsoleOfPage
  PROVE  ConsoleInv'
<1>1. ASSUME NEW b \in Budgets, SaveBudget(b) PROVE ConsoleInv'
  <2>1. UNCHANGED <<page, capture>> /\ sessions' \subseteq Tabs /\ budget' \in Budgets
    BY <1>1, ConsoleParts DEF SaveBudget
  <2>2. QED
    BY <2>1, ConsoleUntouched
<1>2. QED
  BY <1>1, LogKeeps, DeadlineKeeps DEF ConsoleOfPage

LEMMA ConsoleAnsweredKeeps ==
  ASSUME ConsoleInv, NEW c \in Calls, ConsoleAnswered(c)
  PROVE  ConsoleInv'
<1> DEFINE t == TabOf[c]
<1>1. t \in Tabs /\ sessions \subseteq Tabs /\ budget \in Budgets
  BY ConsoleAssumption, ConsoleParts
<1>2. ASSUME Started(c) PROVE ConsoleInv'
  <2>1. Install(c, page[TabOf[c]]) /\ sessions' \subseteq Tabs /\ UNCHANGED budget
    BY <1>1, <1>2 DEF Started
  <2>2. QED
    BY <2>1, InstallKeeps
<1>3. ASSUME StartFailed(c) PROVE ConsoleInv'
  <2>1. /\ sessions' \subseteq Tabs /\ UNCHANGED budget /\ budget' \in Budgets
        /\ Install(c, page[TabOf[c]]) \/ UNCHANGED <<page, capture>>
    BY <1>1, <1>3 DEF StartFailed
  <2>2. QED
    BY <2>1, InstallKeeps, ConsoleUntouched
<1>4. ASSUME ReadFailed(t) \/ Captured(t) PROVE ConsoleInv'
  <2>1. UNCHANGED <<page, capture>> /\ sessions' \subseteq Tabs /\ budget' \in Budgets
    BY <1>1, <1>4 DEF ReadFailed, Captured
  <2>2. QED
    BY <2>1, ConsoleUntouched
<1>5. ASSUME Restored(t) PROVE ConsoleInv'
  <2>1. /\ sessions' \subseteq Tabs /\ UNCHANGED budget /\ budget' \in Budgets
        /\ Restore(t) \/ UNCHANGED <<page, capture>>
    BY <1>1, <1>5 DEF Restored
  <2>2. QED
    BY <1>1, <2>1, RestoreKeeps, ConsoleUntouched
<1>6. Started(c) \/ StartFailed(c) \/ ReadFailed(t) \/ Captured(t) \/ Restored(t)
  BY DEF ConsoleAnswered
<1>7. QED
  BY <1>2, <1>3, <1>4, <1>5, <1>6

\* The steps that leave the console alone.
LEMMA OthersLeaveConsole ==
  /\ \A c \in Calls :
       (\/ ExecuteJavaScript(c) \/ Prepare(c) \/ Evaluated(c) \/ Detached(c) \/ TimesOut(c)
        \/ Terminated(c) \/ StopFails(c) \/ ReloadAfterTimeout(c) \/ Report(c)
        \/ ConsoleStart(c) \/ ConsoleRead(c)) => UNCHANGED consoleVars
  /\ \A t \in Tabs : Loading(t) \/ Complete(t) => UNCHANGED consoleVars
  /\ \A w \in Calls \cup Tabs : ReloadFails(w) => UNCHANGED consoleVars
  /\ Reinstall \/ ReloadTabs \/ AwaitFinished \/ UNCHANGED vars => UNCHANGED consoleVars
<1>1. ASSUME NEW c \in Calls,
             \/ ExecuteJavaScript(c) \/ Prepare(c) \/ Evaluated(c) \/ Detached(c) \/ TimesOut(c)
             \/ Terminated(c) \/ StopFails(c) \/ ReloadAfterTimeout(c) \/ Report(c)
             \/ ConsoleStart(c) \/ ConsoleRead(c)
      PROVE  UNCHANGED consoleVars
  BY <1>1 DEF ExecuteJavaScript, Prepare, Evaluated, Detached, TimesOut, Terminated, StopFails,
              ReloadAfterTimeout, Report, ConsoleStart, ConsoleRead, Begin
<1>2. ASSUME NEW t \in Tabs, Loading(t) \/ Complete(t) PROVE UNCHANGED consoleVars
  BY <1>2 DEF Loading, Complete
<1>3. ASSUME NEW w \in Calls \cup Tabs, ReloadFails(w) PROVE UNCHANGED consoleVars
  BY <1>3 DEF ReloadFails
<1>4. ASSUME Reinstall \/ ReloadTabs \/ AwaitFinished \/ UNCHANGED vars
      PROVE  UNCHANGED consoleVars
  BY <1>4 DEF Reinstall, ReloadTabs, AwaitFinished, vars
<1>5. QED
  BY <1>1, <1>2, <1>3, <1>4

\* The console's part of the invariant.
LEMMA ConsoleKeeps ==
  ASSUME ConsoleInv, [Next]_vars
  PROVE  ConsoleInv'
<1>1. ASSUME UNCHANGED consoleVars PROVE ConsoleInv'
  BY <1>1, ConsoleUntouched, ConsoleParts DEF consoleVars
<1>2. ASSUME NEW c \in Calls, Installed(c) \/ InstallFails(c) PROVE ConsoleInv'
  <2>1. TabOf[c] \in Tabs
    BY ConsoleAssumption
  <2>2. /\ UNCHANGED <<sessions, budget, capture>>
        /\ LoadLibraries(TabOf[c]) \/ UNCHANGED page
    BY <1>2 DEF Installed, InstallFails
  <2>3. QED
    BY <2>1, <2>2, LoadLibrariesKeeps, ConsoleUntouched, ConsoleParts
<1>3. ASSUME NewWorker PROVE ConsoleInv'
  <2>1. UNCHANGED <<page, capture>> /\ sessions' \subseteq Tabs /\ budget' \in Budgets
    BY <1>3, ConsoleParts DEF NewWorker
  <2>2. QED
    BY <2>1, ConsoleUntouched
<1>4. ASSUME NEW t \in Tabs, Commit(t) PROVE ConsoleInv'
  BY <1>4, ReplacePageKeeps DEF Commit
<1>5. ASSUME RuntimeReload \/ Restart PROVE ConsoleInv'
  BY <1>3, <1>5 DEF RuntimeReload, Restart
<1>6. QED
  BY <1>1, <1>2, <1>4, <1>5, ConsoleAnsweredKeeps, ConsoleOfPageKeeps, OthersLeaveConsole DEF Next

(***************************************************************************)
(* The scripts.                                                            *)
(***************************************************************************)

Steps == {"new"} \cup Script \cup Console \cup Ended

\* A call goes on without a word to the page, its script or a reload.
LEMMA StepKeeps ==
  ASSUME ScriptInv, NEW c \in Calls, NEW where \in Steps, Goto(c, where),
         UNCHANGED <<stop, reloads, live, status, phase, stopping>>,
         where \notin {"running", "terminating", "reloading"},
         c \in live[TabOf[c]] => where \in {"unstopped", "detached"}
  PROVE  ScriptInv'
<1>1. /\ pc \in [Calls -> Steps] /\ live \in [Tabs -> SUBSET Calls]
      /\ pc' = [pc EXCEPT ![c] = where]
  BY DEF ScriptInv, ScriptTypes, Goto, Steps
<1>2. pc'[c] = where /\ \A d \in Calls : d # c => pc'[d] = pc[d]
  BY <1>1
<1>3. ScriptTypes'
  <2>1. pc' \in [Calls -> Steps]
    BY <1>1
  <2>2. QED
    BY <1>2, <2>1 DEF ScriptInv, ScriptTypes, Steps
<1>4. LiveOK'
  <2>1. ASSUME NEW t \in Tabs, NEW d \in live[t]
        PROVE  /\ TabOf[d] = t
               /\ pc'[d] \in (Running \ {"installing"}) \cup {"unstopped", "detached", "gone"}
    <3>1. d \in Calls /\ TabOf[d] = t
          /\ pc[d] \in (Running \ {"installing"}) \cup {"unstopped", "detached", "gone"}
      BY <1>1 DEF ScriptInv, LiveOK, NoSilentScripts
    <3>2. QED
      BY <1>2, <3>1
  <2>2. QED
    BY <2>1 DEF LiveOK, NoSilentScripts
<1>5. ReloadsOK'
  <2>1. ASSUME NEW d \in Calls, pc'[d] = "reloading"
        PROVE  Replaces(d, TabOf[d], {d})
    BY <1>2, <2>1 DEF ScriptInv, ReloadsOK
  <2>2. QED
    BY <2>1 DEF ScriptInv, ReloadsOK, Replaces
<1>6. ReinstallOK'
  <2>1. ASSUME NEW d \in Active', d \in live[TabOf[d]]
        PROVE  d \in Active
    <3>1. d \in Calls /\ pc'[d] \in Running
      BY <2>1 DEF Active
    <3>2. d # c
      BY <1>2, <2>1, <3>1 DEF Running
    <3>3. QED
      BY <1>2, <3>1, <3>2 DEF Active
  <2>2. QED
    BY <2>1 DEF ScriptInv, ReinstallOK, Reinstalling, TabsOf
<1>7. QED
  BY <1>3, <1>4, <1>5, <1>6 DEF ScriptInv

LEMMA ScriptsUntouched ==
  ASSUME ScriptInv, UNCHANGED scriptVars
  PROVE  ScriptInv'
BY DEF ScriptInv, scriptVars, ScriptTypes, LiveOK, NoSilentScripts, ReloadsOK, Replaces, ReinstallOK,
       Reinstalling, TabsOf, Active

\* What the invariant says of one call and of one tab.
LEMMA ScriptFacts ==
  ASSUME ScriptInv
  PROVE  /\ pc \in [Calls -> Steps] /\ live \in [Tabs -> SUBSET Calls]
         /\ stop \in [Calls -> {"none", "sent", "ok", "failed"}]
         /\ reloads \in [Calls \cup Tabs -> {"none", "asked", "loading", "ok", "failed"}]
         /\ status \in [Tabs -> {"complete", "loading", "committed"}]
         /\ \A c \in Calls : TabOf[c] \in Tabs /\ c \notin Tabs
         /\ \A t \in Tabs : \A c \in live[t] :
              /\ c \in Calls /\ TabOf[c] = t
              /\ pc[c] \in (Running \ {"installing"}) \cup {"unstopped", "detached", "gone"}
BY ConsoleAssumption, ScriptsAssumption
   DEF ScriptInv, ScriptTypes, Steps, LiveOK, NoSilentScripts

\* The steps that only go on.
LEMMA GoesOnKeeps ==
  ASSUME ScriptInv, NEW c \in Calls,
         \/ ExecuteJavaScript(c) \/ Prepare(c) \/ InstallFails(c) \/ Detached(c) \/ Report(c)
         \/ ConsoleStart(c) \/ ConsoleRead(c) \/ ConsoleAnswered(c)
  PROVE  ScriptInv'
<1>1. c \in live[TabOf[c]] =>
        pc[c] \in (Running \ {"installing"}) \cup {"unstopped", "detached", "gone"}
  BY ScriptFacts
<1>2. ASSUME NEW where \in Script \cup Console, NEW kind, Begin(c, kind, where),
             where \notin {"running", "terminating", "reloading"}
      PROVE  ScriptInv'
  <2>1. /\ pc[c] = "new" /\ Goto(c, where)
        /\ UNCHANGED <<stop, reloads, live, status, phase, stopping>>
    BY <1>2 DEF Begin
  <2>2. c \notin live[TabOf[c]] /\ where \in Steps
    BY <1>1, <2>1 DEF Running, Steps
  <2>3. QED
    BY <1>2, <2>1, <2>2, StepKeeps
<1>3. ASSUME Prepare(c) PROVE ScriptInv'
  <2>1. /\ pc[c] \in {"assets", "attaching"}
        /\ Goto(c, "error") \/ Goto(c, "attaching") \/ Goto(c, "installing")
        /\ UNCHANGED <<stop, reloads, live, status, phase, stopping>>
    BY <1>3 DEF Prepare
  <2>2. c \notin live[TabOf[c]]
    BY <1>1, <2>1 DEF Running
  <2>3. {"error", "attaching", "installing"} \subseteq Steps
    BY DEF Steps, Script, Running, Ended
  <2>4. QED
    BY <2>1, <2>2, <2>3, StepKeeps
<1>4. ASSUME InstallFails(c) PROVE ScriptInv'
  <2>1. /\ pc[c] = "installing" /\ Goto(c, "error")
        /\ UNCHANGED <<stop, reloads, live, status, phase, stopping>>
    BY <1>4 DEF InstallFails
  <2>2. c \notin live[TabOf[c]] /\ "error" \in Steps
    BY <1>1, <2>1 DEF Running, Steps, Ended
  <2>3. QED
    BY <2>1, <2>2, StepKeeps
<1>5. ASSUME Detached(c) PROVE ScriptInv'
  <2>1. /\ Goto(c, "detached") /\ "detached" \in Steps
        /\ UNCHANGED <<stop, reloads, live, status, phase, stopping>>
    BY <1>5 DEF Detached, Steps, Ended
  <2>2. QED
    BY <2>1, StepKeeps
<1>6. ASSUME Report(c) PROVE ScriptInv'
  <2>1. /\ pc[c] = "reloading"
        /\ UNCHANGED <<stop, reloads, live, status, phase, stopping>>
        /\ "timeout" \in Steps /\ "unstopped" \in Steps
    BY <1>6 DEF Report, Steps, Ended
  <2>2. CASE reloads[c] = "ok"
    <3>1. Goto(c, "timeout")
      BY <1>6, <2>2 DEF Report
    <3>2. c \notin live[TabOf[c]]
      BY <2>1, <2>2 DEF ScriptInv, ReloadsOK, Replaces
    <3>3. QED
      BY <2>1, <3>1, <3>2, StepKeeps
  <2>3. CASE reloads[c] # "ok"
    <3>1. Goto(c, "unstopped")
      BY <1>6, <2>3 DEF Report
    <3>2. QED
      BY <2>1, <3>1, StepKeeps
  <2>4. QED
    BY <2>2, <2>3
<1>7. ASSUME ConsoleAnswered(c) PROVE ScriptInv'
  <2>1. /\ pc[c] \in Console
        /\ Goto(c, "ok") \/ Goto(c, "error") \/ Goto(c, "restoring")
        /\ UNCHANGED <<stop, reloads, live, status, phase, stopping>>
    BY <1>7 DEF ConsoleAnswered, Console
  <2>2. c \notin live[TabOf[c]]
    BY <1>1, <2>1 DEF Running, Console
  <2>3. {"ok", "error", "restoring"} \subseteq Steps
    BY DEF Steps, Console, Ended
  <2>4. QED
    BY <2>1, <2>2, <2>3, StepKeeps
<1>8. {"assets", "starting", "capturing", "stopping"} \subseteq Script \cup Console
  BY DEF Script, Console
<1>9. QED
  BY <1>2, <1>3, <1>4, <1>5, <1>6, <1>7, <1>8 DEF ExecuteJavaScript, ConsoleStart, ConsoleRead

LEMMA EvaluatedKeeps ==
  ASSUME ScriptInv, NEW c \in Calls, Evaluated(c)
  PROVE  ScriptInv'
<1>1. ScriptTypes'
  BY ScriptFacts DEF ScriptInv, ScriptTypes, Steps, Script, Ended, Running, Evaluated, Goto
<1>2. LiveOK'
  BY ScriptFacts DEF LiveOK, NoSilentScripts, Running, Evaluated, Goto
<1>3. ReloadsOK'
  BY ScriptFacts DEF ScriptInv, ReloadsOK, Replaces, Evaluated, Goto
<1>4. ReinstallOK'
  BY ScriptFacts DEF ScriptInv, ReinstallOK, Reinstalling, TabsOf, Active, Running, Evaluated, Goto
<1>5. QED
  BY <1>1, <1>2, <1>3, <1>4 DEF ScriptInv

LEMMA TimesOutKeeps ==
  ASSUME ScriptInv, NEW c \in Calls, TimesOut(c)
  PROVE  ScriptInv'
<1>1. ScriptTypes'
  BY ScriptFacts DEF ScriptInv, ScriptTypes, Steps, Script, Ended, Running, TimesOut, Goto, Stop
<1>2. LiveOK'
  BY ScriptFacts DEF LiveOK, NoSilentScripts, Running, TimesOut, Goto, Stop
<1>3. ReloadsOK'
  BY ScriptFacts DEF ScriptInv, ReloadsOK, Replaces, TimesOut, Goto, Stop
<1>4. ReinstallOK'
  BY ScriptFacts DEF ScriptInv, ReinstallOK, Reinstalling, TabsOf, Active, Running, TimesOut, Goto, Stop
<1>5. QED
  BY <1>1, <1>2, <1>3, <1>4 DEF ScriptInv

LEMMA TerminatedKeeps ==
  ASSUME ScriptInv, NEW c \in Calls, Terminated(c)
  PROVE  ScriptInv'
<1>1. ScriptTypes'
  BY ScriptFacts DEF ScriptInv, ScriptTypes, Steps, Script, Ended, Running, Terminated
<1>2. LiveOK'
  BY ScriptFacts DEF LiveOK, NoSilentScripts, Running, Terminated
<1>3. ReloadsOK'
  BY ScriptFacts DEF ScriptInv, ReloadsOK, Replaces, Terminated
<1>4. ReinstallOK'
  BY ScriptFacts DEF ScriptInv, ReinstallOK, Reinstalling, TabsOf, Active, Running, Terminated
<1>5. QED
  BY <1>1, <1>2, <1>3, <1>4 DEF ScriptInv

LEMMA StopFailsKeeps ==
  ASSUME ScriptInv, NEW c \in Calls, StopFails(c)
  PROVE  ScriptInv'
<1>1. ScriptTypes'
  BY ScriptFacts DEF ScriptInv, ScriptTypes, Steps, Script, Ended, Running, StopFails
<1>2. LiveOK'
  BY ScriptFacts DEF LiveOK, NoSilentScripts, Running, StopFails
<1>3. ReloadsOK'
  BY ScriptFacts DEF ScriptInv, ReloadsOK, Replaces, StopFails
<1>4. ReinstallOK'
  BY ScriptFacts DEF ScriptInv, ReinstallOK, Reinstalling, TabsOf, Active, Running, StopFails
<1>5. QED
  BY <1>1, <1>2, <1>3, <1>4 DEF ScriptInv

LEMMA ReloadAfterTimeoutKeeps ==
  ASSUME ScriptInv, NEW c \in Calls, ReloadAfterTimeout(c)
  PROVE  ScriptInv'
<1>1. ScriptTypes'
  BY ScriptFacts DEF ScriptInv, ScriptTypes, Steps, Script, Ended, Running, ReloadAfterTimeout, Goto, Settled
<1>2. LiveOK'
  BY ScriptFacts DEF LiveOK, NoSilentScripts, Running, ReloadAfterTimeout, Goto, Settled
<1>3. ReloadsOK'
  BY ScriptFacts DEF ScriptInv, ReloadsOK, Replaces, ReloadAfterTimeout, Goto, Settled
<1>4. ReinstallOK'
  BY ScriptFacts DEF ScriptInv, ReinstallOK, Reinstalling, TabsOf, Active, Running, ReloadAfterTimeout, Goto, Settled
<1>5. QED
  BY <1>1, <1>2, <1>3, <1>4 DEF ScriptInv

\* A load or the reload of a tab goes on: the reinstall knows what it knew.
LEMMA ReinstallKept ==
  ASSUME ScriptInv, UNCHANGED <<pc, live, phase, stopping>>,
         \A t \in Tabs : /\ reloads[t] # "none" => reloads'[t] # "none"
                         /\ reloads'[t] \in {"asked", "loading"} => reloads[t] \in {"asked", "loading"}
  PROVE  ReinstallOK'
<1>1. stopping \subseteq Calls /\ TabsOf(stopping') = TabsOf(stopping)
  BY DEF ScriptInv, ScriptTypes, TabsOf
<1>2. TabsOf(stopping) \subseteq Tabs
  BY <1>1, ScriptFacts DEF TabsOf
<1>3. phase' \in {"reloading", "finishing"} => (\A t \in TabsOf(stopping) : reloads[t] # "none")'
  <2>1. phase \in {"reloading", "finishing"} => \A t \in TabsOf(stopping) : reloads[t] # "none"
    BY DEF ScriptInv, ReinstallOK
  <2>2. phase \in {"reloading", "finishing"} => \A t \in TabsOf(stopping) : reloads'[t] # "none"
    BY <1>2, <2>1
  <2>3. QED
    BY <1>1, <2>2 DEF TabsOf
<1>4. phase' = "finishing" => \A t \in Tabs : reloads'[t] \notin {"asked", "loading"}
  BY DEF ScriptInv, ReinstallOK
<1>5. Reinstalling' => \A d \in Active' : d \in live'[TabOf[d]] => d \in stopping'
  BY DEF ScriptInv, ReinstallOK, Reinstalling, Active
<1>6. QED
  BY <1>3, <1>4, <1>5 DEF ReinstallOK

LEMMA LoadingKeeps ==
  ASSUME ScriptInv, NEW t \in Tabs, Loading(t)
  PROVE  ScriptInv'
<1>1. ScriptTypes'
  BY ScriptFacts DEF ScriptInv, ScriptTypes, Steps, Script, Ended, Running, Loading, Waiters
<1>2. LiveOK'
  BY ScriptFacts DEF LiveOK, NoSilentScripts, Running, Loading, Waiters
<1>3. ReloadsOK'
  BY ScriptFacts DEF ScriptInv, ReloadsOK, Replaces, Loading, Waiters
<1>4. ReinstallOK'
  <2>1. UNCHANGED <<pc, live, phase, stopping>>
        /\ \A w \in Calls \cup Tabs :
             reloads'[w] = reloads[w] \/ (reloads[w] = "asked" /\ reloads'[w] = "loading")
    BY ScriptFacts DEF Loading
  <2>2. QED
    BY <2>1, ReinstallKept
<1>5. QED
  BY <1>1, <1>2, <1>3, <1>4 DEF ScriptInv

LEMMA CommitKeeps ==
  ASSUME ScriptInv, NEW t \in Tabs, Commit(t)
  PROVE  ScriptInv'
<1>1. ScriptTypes'
  BY ScriptFacts DEF ScriptInv, ScriptTypes, Steps, Script, Ended, Running, Commit
<1>2. LiveOK'
  BY ScriptFacts DEF LiveOK, NoSilentScripts, Running, Commit
<1>3. ReloadsOK'
  BY ScriptFacts DEF ScriptInv, ReloadsOK, Replaces, Commit
<1>4. ReinstallOK'
  BY ScriptFacts DEF ScriptInv, ReinstallOK, Reinstalling, TabsOf, Active, Running, Commit
<1>5. QED
  BY <1>1, <1>2, <1>3, <1>4 DEF ScriptInv

LEMMA CompleteKeeps ==
  ASSUME ScriptInv, NEW t \in Tabs, Complete(t)
  PROVE  ScriptInv'
<1>1. ScriptTypes'
  BY ScriptFacts DEF ScriptInv, ScriptTypes, Steps, Script, Ended, Running, Complete, Waiters, SawLoading
<1>2. LiveOK'
  BY ScriptFacts DEF LiveOK, NoSilentScripts, Running, Complete, Waiters, SawLoading
<1>3. ReloadsOK'
  BY ScriptFacts DEF ScriptInv, ReloadsOK, Replaces, Complete, Waiters, SawLoading
<1>4. ReinstallOK'
  <2>1. UNCHANGED <<pc, live, phase, stopping>>
        /\ \A w \in Calls \cup Tabs : reloads'[w] \in {reloads[w], "ok"}
    BY ScriptFacts DEF Complete
  <2>2. QED
    BY <2>1, ReinstallKept
<1>5. QED
  BY <1>1, <1>2, <1>3, <1>4 DEF ScriptInv

LEMMA ReloadFailsKeeps ==
  ASSUME ScriptInv, NEW w \in Calls \cup Tabs, ReloadFails(w)
  PROVE  ScriptInv'
<1>1. ScriptTypes'
  BY ScriptFacts DEF ScriptInv, ScriptTypes, Steps, Script, Ended, Running, ReloadFails
<1>2. LiveOK'
  BY ScriptFacts DEF LiveOK, NoSilentScripts, Running, ReloadFails
<1>3. ReloadsOK'
  BY ScriptFacts DEF ScriptInv, ReloadsOK, Replaces, ReloadFails
<1>4. ReinstallOK'
  BY ScriptFacts DEF ScriptInv, ReinstallOK, Reinstalling, TabsOf, Active, Running, ReloadFails
<1>5. QED
  BY <1>1, <1>2, <1>3, <1>4 DEF ScriptInv

LEMMA ReinstallKeeps ==
  ASSUME ScriptInv, Reinstall
  PROVE  ScriptInv'
<1>1. ScriptTypes'
  BY ScriptFacts DEF ScriptInv, ScriptTypes, Steps, Script, Ended, Running, Reinstall, Stop, Active
<1>2. LiveOK'
  BY ScriptFacts DEF LiveOK, NoSilentScripts, Running, Reinstall, Stop, Active
<1>3. ReloadsOK'
  BY ScriptFacts DEF ScriptInv, ReloadsOK, Replaces, Reinstall, Stop, Active
<1>4. ReinstallOK'
  BY ScriptFacts DEF ScriptInv, ReinstallOK, Reinstalling, TabsOf, Active, Running, Reinstall, Stop, Active
<1>5. QED
  BY <1>1, <1>2, <1>3, <1>4 DEF ScriptInv

LEMMA ReloadTabsKeeps ==
  ASSUME ScriptInv, ReloadTabs
  PROVE  ScriptInv'
<1>1. ScriptTypes'
  BY ScriptFacts DEF ScriptInv, ScriptTypes, Steps, Script, Ended, Running, ReloadTabs, TabsOf, Settled
<1>2. LiveOK'
  BY ScriptFacts DEF LiveOK, NoSilentScripts, Running, ReloadTabs, TabsOf, Settled
<1>3. ReloadsOK'
  BY ScriptFacts DEF ScriptInv, ReloadsOK, Replaces, ReloadTabs, TabsOf, Settled
<1>4. ReinstallOK'
  <2>1. /\ UNCHANGED <<pc, live, stopping>> /\ phase = "stopping" /\ phase' = "reloading"
        /\ reloads' = [w \in Calls \cup Tabs |->
                          IF w \in TabsOf(stopping) THEN "asked" ELSE reloads[w]]
    BY ScriptFacts DEF ReloadTabs
  <2>2. stopping \subseteq Calls /\ TabsOf(stopping') = TabsOf(stopping)
    BY <2>1 DEF ScriptInv, ScriptTypes, TabsOf
  <2>3. TabsOf(stopping) \subseteq Tabs
    BY <2>2, ScriptFacts DEF TabsOf
  <2>4. \A t \in TabsOf(stopping') : reloads'[t] # "none"
    BY <2>1, <2>2, <2>3
  <2>5. \A d \in Active' : d \in live'[TabOf[d]] => d \in stopping'
    BY <2>1 DEF ScriptInv, ReinstallOK, Reinstalling, Active
  <2>6. QED
    BY <2>1, <2>4, <2>5 DEF ReinstallOK
<1>5. QED
  BY <1>1, <1>2, <1>3, <1>4 DEF ScriptInv

LEMMA AwaitFinishedKeeps ==
  ASSUME ScriptInv, AwaitFinished
  PROVE  ScriptInv'
<1>1. ScriptTypes'
  BY ScriptFacts DEF ScriptInv, ScriptTypes, Steps, Script, Ended, Running, AwaitFinished
<1>2. LiveOK'
  BY ScriptFacts DEF LiveOK, NoSilentScripts, Running, AwaitFinished
<1>3. ReloadsOK'
  BY ScriptFacts DEF ScriptInv, ReloadsOK, Replaces, AwaitFinished
<1>4. ReinstallOK'
  BY ScriptFacts DEF ScriptInv, ReinstallOK, Reinstalling, TabsOf, Active, Running, AwaitFinished
<1>5. QED
  BY <1>1, <1>2, <1>3, <1>4 DEF ScriptInv

\* The libraries are in the page: while a reinstall runs, the script is not sent.
LEMMA InstalledKeeps ==
  ASSUME ScriptInv, NEW c \in Calls, Installed(c)
  PROVE  ScriptInv'
<1>1. pc[c] = "installing" /\ UNCHANGED <<stop, reloads, status, phase, stopping>>
  BY DEF Installed
<1>2. c \notin live[TabOf[c]] /\ "error" \in Steps
  BY <1>1, ScriptFacts DEF Running, Steps, Ended
<1>3. CASE Reinstalling
  <2>1. Goto(c, "error") /\ UNCHANGED live
    BY <1>3 DEF Installed, Scheduled
  <2>2. QED
    BY <1>1, <1>2, <2>1, StepKeeps
<1>4. CASE ~Reinstalling
  <2>1. Goto(c, "running") /\ live' = [live EXCEPT ![TabOf[c]] = @ \cup {c}]
    BY <1>4 DEF Installed, Scheduled
  <2>2. pc' \in [Calls -> Steps] /\ pc'[c] = "running" /\ \A d \in Calls : d # c => pc'[d] = pc[d]
    BY <2>1, ScriptFacts DEF Goto, Steps, Script, Running
  <2>3. ScriptTypes'
    BY <1>1, <2>1, <2>2, ScriptFacts DEF ScriptInv, ScriptTypes, Steps
  <2>4. LiveOK'
    BY <2>1, <2>2, ScriptFacts DEF LiveOK, NoSilentScripts, Running
  <2>5. ReloadsOK'
    <3>1. \A d \in Calls : pc'[d] = "reloading" => d # c /\ pc[d] = "reloading"
      BY <2>2
    <3>2. \A d \in Calls : d # c => live'[TabOf[d]] \cap {d} = live[TabOf[d]] \cap {d}
      BY <2>1, ScriptFacts
    <3>3. phase \notin {"reloading", "finishing"}
      BY <1>4 DEF Reinstalling
    <3>4. \A d \in Calls : pc'[d] = "reloading" => Replaces(d, TabOf[d], {d})'
      BY <1>1, <3>1, <3>2 DEF ScriptInv, ReloadsOK, Replaces
    <3>5. QED
      BY <1>1, <3>3, <3>4 DEF ScriptInv, ReloadsOK
  <2>6. ReinstallOK'
    BY <1>1, <1>4 DEF ReinstallOK, Reinstalling
  <2>7. QED
    BY <2>3, <2>4, <2>5, <2>6 DEF ScriptInv
<1>5. QED
  BY <1>3, <1>4

\* A new worker knows of nothing; what is left in the pages was lost with the old one.
LEMMA NewWorkerKeeps ==
  ASSUME ScriptInv, NewWorker, phase' \in {"idle", "restarted"}
  PROVE  ScriptInv'
<1>1. /\ pc' = [c \in Calls |-> IF pc[c] \in {"new"} \cup Ended THEN pc[c] ELSE "gone"]
      /\ stop' = [c \in Calls |-> "none"]
      /\ reloads' = [w \in Calls \cup Tabs |-> "none"]
      /\ stopping' = {} /\ UNCHANGED <<live, status>>
  BY ScriptFacts DEF NewWorker
<1>2. pc' \in [Calls -> Steps] /\ \A c \in Calls : pc'[c] \in {"new"} \cup Ended
  BY <1>1, ScriptFacts DEF Steps, Ended
<1>3. ScriptTypes'
  BY <1>1, <1>2, ScriptFacts DEF ScriptTypes, Steps, Ended
<1>4. LiveOK'
  <2>1. ASSUME NEW t \in Tabs, NEW c \in live[t]
        PROVE  /\ TabOf[c] = t
               /\ pc'[c] \in (Running \ {"installing"}) \cup {"unstopped", "detached", "gone"}
    BY <1>1, ScriptFacts DEF Running, Ended
  <2>2. QED
    BY <1>1, <2>1 DEF LiveOK, NoSilentScripts
<1>5. ReloadsOK'
  BY <1>1, <1>2 DEF ReloadsOK, Ended
<1>6. ReinstallOK'
  BY DEF ReinstallOK, Reinstalling
<1>7. QED
  BY <1>3, <1>4, <1>5, <1>6 DEF ScriptInv

\* The scripts' part of the invariant.
LEMMA ScriptKeeps ==
  ASSUME ScriptInv, [Next]_vars
  PROVE  ScriptInv'
<1>1. ASSUME UNCHANGED vars \/ ConsoleOfPage PROVE ScriptInv'
  BY <1>1, ScriptsUntouched DEF vars, ConsoleOfPage
<1>2. ASSUME RuntimeReload \/ Restart PROVE ScriptInv'
  <2>1. NewWorker /\ phase' \in {"idle", "restarted"}
    BY <1>2 DEF RuntimeReload, Restart
  <2>2. QED
    BY <2>1, NewWorkerKeeps
<1>3. QED
  BY <1>1, <1>2, GoesOnKeeps, InstalledKeeps, EvaluatedKeeps, TimesOutKeeps, TerminatedKeeps,
     StopFailsKeeps, ReloadAfterTimeoutKeeps, LoadingKeeps, CommitKeeps, CompleteKeeps,
     ReloadFailsKeeps, ReinstallKeeps, ReloadTabsKeeps, AwaitFinishedKeeps DEF Next

(***************************************************************************)
(* The uploads' part of the invariant.                                     *)
(***************************************************************************)

\* A call that is still to install its shim was so before.
LEMMA NotBefore ==
  ASSUME ScriptInv, [Next]_vars, NEW c \in Calls, pc'[c] \in {"new", "starting"}
  PROVE  pc[c] \in {"new", "starting"}
<1>1. pc \in [Calls -> Steps]
  BY ScriptFacts
<1>2. CASE UNCHANGED pc
  BY <1>2
<1>3. ASSUME NEW d \in Calls, NEW where, Goto(d, where),
             where \in {"new", "starting"} => pc[d] = "new"
      PROVE  pc[c] \in {"new", "starting"}
  BY <1>1, <1>3 DEF Goto
<1>4. ASSUME NewWorker PROVE pc[c] \in {"new", "starting"}
  BY <1>1, <1>4 DEF NewWorker, Ended
<1>5. ASSUME NEW d \in Calls, ExecuteJavaScript(d) \/ ConsoleStart(d) \/ ConsoleRead(d)
      PROVE  pc[c] \in {"new", "starting"}
  BY <1>3, <1>5 DEF ExecuteJavaScript, ConsoleStart, ConsoleRead, Begin
<1>6. ASSUME NEW d \in Calls,
             \/ Prepare(d) \/ Installed(d) \/ InstallFails(d) \/ Evaluated(d) \/ Detached(d)
             \/ TimesOut(d) \/ ReloadAfterTimeout(d) \/ Report(d) \/ ConsoleAnswered(d)
      PROVE  pc[c] \in {"new", "starting"}
  <2>1. \E where : Goto(d, where) /\ where \notin {"new", "starting"}
    BY <1>6 DEF Prepare, Installed, InstallFails, Evaluated, Detached, TimesOut,
                ReloadAfterTimeout, Report, ConsoleAnswered
  <2>2. QED
    BY <1>3, <2>1
<1>7. ASSUME NEW d \in Calls, Terminated(d) \/ StopFails(d) PROVE UNCHANGED pc
  BY <1>7 DEF Terminated, StopFails
<1>8. ASSUME NEW t \in Tabs, Loading(t) \/ Commit(t) \/ Complete(t) PROVE UNCHANGED pc
  BY <1>8 DEF Loading, Commit, Complete
<1>9. ASSUME NEW w, ReloadFails(w) PROVE UNCHANGED pc
  BY <1>9 DEF ReloadFails
<1>10. ASSUME Reinstall \/ ReloadTabs \/ AwaitFinished \/ ConsoleOfPage \/ UNCHANGED vars
       PROVE  UNCHANGED pc
  BY <1>10 DEF Reinstall, ReloadTabs, AwaitFinished, ConsoleOfPage, scriptVars, vars
<1>11. ASSUME RuntimeReload \/ Restart PROVE NewWorker
  BY <1>11 DEF RuntimeReload, Restart
<1>12. QED
  BY <1>2, <1>4, <1>5, <1>6, <1>7, <1>8, <1>9, <1>10, <1>11 DEF Next

\* No step but the installation of a call's own shim brings its capture into a
\* page, and no upload is of a capture that no page has.
LEMMA StillNotInstalled ==
  ASSUME ScriptInv, UploadInv, [Next]_vars,
         \A c \in Calls : pc'[c] \in {"new", "starting"} =>
           \A t \in Tabs : /\ c = Found(page'[t]) => c = Found(page[t])
                           /\ c = upload'[t].of => c \in {upload[t].of, Found(page[t])}
  PROVE  NotInstalled'
<1>1. ASSUME NEW c \in Calls, pc'[c] \in {"new", "starting"}, NEW t \in Tabs
      PROVE  c # Found(page'[t]) /\ c # upload'[t].of
  <2>1. pc[c] \in {"new", "starting"}
    BY <1>1, NotBefore
  <2>2. c # Found(page[t]) /\ c # upload[t].of
    BY <2>1 DEF UploadInv, NotInstalled
  <2>3. QED
    BY <1>1, <2>2
<1>2. (\A c \in Calls : pc[c] \in {"new", "starting"} =>
         \A t \in Tabs : c # Found(page[t]) /\ c # upload[t].of)'
  BY <1>1
<1>3. QED
  BY <1>2 DEF NotInstalled

LEMMA UploadKeeps ==
  ASSUME ConsoleInv, ScriptInv, UploadInv, [Next]_vars
  PROVE  UploadInv'
<1> DEFINE Kept == UploadTypes' /\ CaptureOK'
           SameFound == \A c \in Calls, t \in Tabs : c = Found(page'[t]) => c = Found(page[t])
           SameOf == \A t \in Tabs : upload'[t].of \in {upload[t].of, Found(page[t])}
<1>1. UploadTypes /\ CaptureOK /\ NotInstalled
  BY DEF UploadInv
<1>2. None \notin Calls /\ \A c \in Calls : TabOf[c] \in Tabs
  BY ConsoleAssumption
<1>3. ASSUME Kept, SameFound, SameOf PROVE UploadInv'
  <2>1. NotInstalled'
    BY <1>3, StillNotInstalled
  <2>2. QED
    BY <1>3, <2>1 DEF UploadInv
<1>4. ASSUME Kept, \A t \in Tabs : Found(page'[t]) \in {Found(page[t]), None}, UNCHANGED upload
      PROVE  UploadInv'
  BY <1>2, <1>3, <1>4
<1>5. ASSUME UNCHANGED <<page, capture, upload>> PROVE UploadInv'
  BY <1>1, <1>4, <1>5, CapturesUntouched
<1>6. ASSUME NEW c \in Calls, Installed(c) \/ InstallFails(c) PROVE UploadInv'
  <2>1. /\ UNCHANGED <<capture, upload>>
        /\ LoadLibraries(TabOf[c]) \/ UNCHANGED page
    BY <1>6 DEF Installed, InstallFails
  <2>2. CASE LoadLibraries(TabOf[c])
    <3>1. Kept /\ \A s \in Tabs : Found(page'[s]) = Found(page[s])
      BY <1>1, <1>2, <2>1, <2>2, LoadLibrariesCaptures
    <3>2. QED
      BY <1>4, <2>1, <3>1
  <2>3. QED
    BY <1>5, <2>1, <2>2
<1>7. ASSUME NEW t \in Tabs, Commit(t) PROVE UploadInv'
  <2>1. ReplacePage(t) /\ UNCHANGED upload
    BY <1>7 DEF Commit, ReplacePage
  <2>2. QED
    BY <1>1, <1>4, <2>1, ReplacePageCaptures
<1>8. ASSUME ConsoleOfPage PROVE UploadInv'
  <2>1. ASSUME NEW t \in Tabs, NEW size \in Sizes, Log(t, size) PROVE UploadInv'
    <3>1. UNCHANGED upload
      BY <2>1 DEF Log
    <3>2. QED
      BY <1>1, <1>4, <2>1, <3>1, LogCaptures
  <2>2. ASSUME NEW c \in Calls, Deadline(c) PROVE UploadInv'
    <3>1. Kept /\ UNCHANGED <<page, upload>>
      BY <1>1, <2>2, DeadlineCaptures
    <3>2. QED
      BY <1>4, <3>1
  <2>3. ASSUME NEW b \in Budgets, SaveBudget(b) PROVE UploadInv'
    BY <1>5, <2>3 DEF SaveBudget
  <2>4. QED
    BY <1>8, <2>1, <2>2, <2>3 DEF ConsoleOfPage
<1>9. ASSUME NEW c \in Calls, ConsoleAnswered(c) PROVE UploadInv'
  <2> DEFINE t == TabOf[c]
  <2>1. ASSUME pc[c] = "starting", Install(c, page[t]), UNCHANGED upload PROVE UploadInv'
    <3>1. c # upload[t].of
      BY <1>1, <1>2, <2>1 DEF NotInstalled
    <3>2. Kept /\ \A s \in Tabs : Found(page'[s]) \in {Found(page[s]), c}
      BY <1>1, <2>1, <3>1, InstallCaptures
    <3>3. pc'[c] \notin {"new", "starting"}
      <4>1. Goto(c, "ok") \/ Goto(c, "error")
        BY <1>9, <2>1 DEF ConsoleAnswered
      <4>2. QED
        BY <4>1, ScriptFacts DEF Goto
    <3>4. \A d \in Calls : pc'[d] \in {"new", "starting"} =>
            \A s \in Tabs : /\ d = Found(page'[s]) => d = Found(page[s])
                            /\ d = upload'[s].of => d \in {upload[s].of, Found(page[s])}
      BY <2>1, <3>2, <3>3
    <3>5. NotInstalled'
      BY <3>4, StillNotInstalled
    <3>6. QED
      BY <3>2, <3>5 DEF UploadInv
  <2>2. ASSUME Captured(t) PROVE UploadInv'
    <3>1. ~Lost(t) /\ Upload(t) /\ UNCHANGED <<page, capture>>
      BY <2>2 DEF Captured
    <3>2. Kept /\ SameOf
      BY <1>1, <1>2, <3>1, UploadCaptures
    <3>3. QED
      BY <1>3, <3>1, <3>2
  <2>3. ASSUME Restored(t) PROVE UploadInv'
    <3>1. UNCHANGED upload /\ (Restore(t) \/ UNCHANGED <<page, capture>>)
      BY <2>3 DEF Restored
    <3>2. ASSUME Restore(t) PROVE UploadInv'
      BY <1>1, <1>2, <1>4, <3>1, <3>2, RestoreCaptures
    <3>3. QED
      BY <1>5, <3>1, <3>2
  <2>4. ASSUME ReadFailed(t) PROVE UploadInv'
    BY <1>5, <2>4 DEF ReadFailed
  <2>5. ASSUME pc[c] = "starting", Started(c) \/ StartFailed(c) PROVE UploadInv'
    <3>1. UNCHANGED upload /\ (Install(c, page[t]) \/ UNCHANGED <<page, capture>>)
      BY <2>5 DEF Started, StartFailed
    <3>2. QED
      BY <1>5, <2>1, <2>5, <3>1
  <2>6. QED
    BY <1>9, <2>2, <2>3, <2>4, <2>5 DEF ConsoleAnswered
<1>10. ASSUME RuntimeReload \/ Restart PROVE UploadInv'
  BY <1>5, <1>10 DEF RuntimeReload, Restart, NewWorker
<1>11. ASSUME UNCHANGED consoleVars PROVE UploadInv'
  BY <1>5, <1>11 DEF consoleVars
<1>12. QED
  BY <1>6, <1>7, <1>8, <1>9, <1>10, <1>11, OthersLeaveConsole DEF Next

LEMMA InitInvariant ==
  ASSUME Init
  PROVE  IInv
<1>1. ConsoleInv
  <2>1. /\ sessions = {} /\ budget \in Budgets
        /\ page = [t \in Tabs |-> FreshPage] /\ capture = [c \in Calls |-> NoCapture]
    BY DEF Init, ConsoleInit
  <2>2. QED
    BY <2>1, NewCaptures, ConsoleParts
<1>2. ScriptInv
  <2>1. ScriptTypes
    BY DEF Init, ScriptTypes, Script, Running, Ended
  <2>2. LiveOK /\ ReloadsOK /\ ReinstallOK
    BY DEF Init, LiveOK, NoSilentScripts, ReloadsOK, ReinstallOK, Reinstalling
  <2>3. QED
    BY <2>1, <2>2 DEF ScriptInv
<1>3. UploadInv
  <2>1. /\ page = [t \in Tabs |-> FreshPage] /\ capture = [c \in Calls |-> NoCapture]
        /\ upload = [t \in Tabs |-> NoUpload]
    BY DEF Init, ConsoleInit
  <2>2. <<>> \in Entries /\ NoUpload \in Uploads /\ Faithful(NoUpload) /\ NoUpload.of = None
    BY DEF Entries, NoUpload, Uploads, Faithful
  <2>3. Found(FreshPage) = None /\ Within(NoCapture)
    BY DEF Found, FreshPage, NoCapture, Within
  <2>4. UploadTypes
    BY <2>1, <2>2 DEF UploadTypes, Uploads
  <2>5. CaptureOK
    BY <2>1, <2>2, <2>3, CaptureParts
  <2>6. NotInstalled
    BY <2>1, <2>2, <2>3, ConsoleAssumption DEF NotInstalled
  <2>7. QED
    BY <2>4, <2>5, <2>6 DEF UploadInv
<1>4. QED
  BY <1>1, <1>2, <1>3 DEF IInv

(***************************************************************************)
(* The theorems.                                                           *)
(***************************************************************************)

\* In every reachable state the console of each page is its own or has the one
\* shim the scripts find, every script in a page is accounted for, and every
\* reload that is done or has seen a load begin has replaced what it is for.
THEOREM ScriptsInvariant == Spec => []IInv
<1>1. Init => IInv
  BY InitInvariant
<1>2. IInv /\ [Next]_vars => IInv'
  BY ConsoleKeeps, UploadKeeps, ScriptKeeps DEF IInv
<1>3. QED
  BY <1>1, <1>2, PTL DEF Spec

\* executeJavaScript leaves no script behind silently: a call that is reported as
\* done, as failed or as stopped at its timeout has nothing left in its page, and
\* what is left has an error that says so (or its worker was lost).
THEOREM NoScriptLeftSilently == Spec => []NoSilentScripts
<1>1. IInv => NoSilentScripts
  BY DEF IInv, ScriptInv, LiveOK
<1>2. QED
  BY <1>1, ScriptsInvariant, PTL

\* Whatever the console calls, the libraries, failures and navigations do to a
\* page, there is at most one shim around its console, and it is the one that the
\* next restore script finds.
THEOREM ShimsCanBeUndone == Spec => []ShimCanBeUndone
<1>1. IInv => ShimCanBeUndone
  BY DEF IInv, ConsoleInv, ShimOK
<1>2. QED
  BY <1>1, ScriptsInvariant, PTL

\* Every variable has its type.
THEOREM ScriptsTypes == Spec => []TypeOK
<1>1. IInv => TypeOK
  BY DEF IInv, ConsoleInv, UploadInv, ScriptInv, TypeOK, ConsoleTypeOK
<1>2. QED
  BY <1>1, ScriptsInvariant, PTL

\* An upload of a console session that is not marked truncated has all that its
\* page logged since the session started; a truncated one has the longest
\* beginning that fits the limit; two uploads of a session are one the beginning
\* of the other; and a page keeps within the limit: for every number of calls and
\* tabs, for all sizes, limits and logs, over restarts, reloads and failures.
THEOREM UploadsFaithful == Spec => []UploadsAreFaithful
<1>1. IInv => UploadsAreFaithful
  BY DEF IInv, UploadInv, CaptureOK
<1>2. QED
  BY <1>1, ScriptsInvariant, PTL

\* From the moment a reinstall has listed the executions it stops until it is
\* over, no script is sent to any page.
THEOREM NoScriptStartsBesideReinstall == Spec => NoScriptsBesideReinstall
<1>1. ASSUME IInv, [Next]_vars, Reinstalling, NEW t \in Tabs
      PROVE  live'[t] \subseteq live[t]
  <2>1. ScriptInv
    BY <1>1 DEF IInv
  <2>2. live \in [Tabs -> SUBSET Calls] /\ \A c \in Calls : TabOf[c] \in Tabs
    BY <2>1, ScriptFacts
  <2>3. ASSUME NEW c \in Calls, Installed(c) PROVE UNCHANGED live
    BY <1>1, <2>3 DEF Installed, Scheduled
  <2>4. ASSUME NEW c \in Calls, Evaluated(c) \/ Terminated(c) PROVE live'[t] \subseteq live[t]
    BY <2>2, <2>4 DEF Evaluated, Terminated
  <2>5. ASSUME NEW s \in Tabs, Commit(s) PROVE live'[t] \subseteq live[t]
    BY <2>2, <2>5 DEF Commit
  <2>6. ASSUME NEW c \in Calls,
               \/ ExecuteJavaScript(c) \/ Prepare(c) \/ InstallFails(c) \/ Detached(c) \/ TimesOut(c)
               \/ StopFails(c) \/ ReloadAfterTimeout(c) \/ Report(c)
               \/ ConsoleStart(c) \/ ConsoleRead(c) \/ ConsoleAnswered(c)
        PROVE  UNCHANGED live
    BY <2>6 DEF ExecuteJavaScript, Prepare, InstallFails, Detached, TimesOut, StopFails,
                ReloadAfterTimeout, Report, ConsoleStart, ConsoleRead, ConsoleAnswered, Begin
  <2>7. ASSUME NEW s \in Tabs, Loading(s) \/ Complete(s) PROVE UNCHANGED live
    BY <2>7 DEF Loading, Complete
  <2>8. ASSUME NEW w \in Calls \cup Tabs, ReloadFails(w) PROVE UNCHANGED live
    BY <2>8 DEF ReloadFails
  <2>9. ASSUME Reinstall \/ ReloadTabs \/ AwaitFinished \/ RuntimeReload \/ Restart
               \/ ConsoleOfPage \/ UNCHANGED vars
        PROVE  UNCHANGED live
    BY <2>9 DEF Reinstall, ReloadTabs, AwaitFinished, RuntimeReload, Restart, NewWorker,
                ConsoleOfPage, scriptVars, vars
  <2>10. QED
    BY <1>1, <2>3, <2>4, <2>5, <2>6, <2>7, <2>8, <2>9 DEF Next
<1>2. IInv /\ [Next]_vars => [Reinstalling => \A t \in Tabs : live'[t] \subseteq live[t]]_vars
  BY <1>1
<1>3. QED
  BY <1>2, ScriptsInvariant, PTL DEF Spec, NoScriptsBesideReinstall

\* chrome.runtime.reload is called by a reinstall only when each script the worker
\* knew of is gone from its page, or the reload of its tab has failed.
THEOREM ReinstallsStopScripts == Spec => ReinstallStopsScripts
<1>1. ASSUME IInv, [Next]_vars, phase' = "restarted", phase # "restarted",
             NEW c \in Active, c \in live[TabOf[c]]
      PROVE  reloads[TabOf[c]] = "failed"
  <2>1. ScriptInv /\ c \in Calls /\ TabOf[c] \in Tabs
    BY <1>1, ScriptFacts DEF IInv, Active
  <2>2. phase = "finishing"
    BY <1>1 DEF Next, ExecuteJavaScript, Prepare, Installed, InstallFails, Evaluated, Detached,
       TimesOut, Terminated, StopFails, ReloadAfterTimeout, Report, ConsoleStart, ConsoleRead,
       ConsoleAnswered, Begin, Loading, Commit, Complete, ReloadFails, Reinstall, ReloadTabs,
       AwaitFinished, RuntimeReload, Restart, ConsoleOfPage, scriptVars, vars
  <2>3. c \in stopping /\ TabOf[c] \in TabsOf(stopping)
    BY <1>1, <2>1, <2>2 DEF ScriptInv, ReinstallOK, Reinstalling, TabsOf
  <2>4. reloads[TabOf[c]] \notin {"none", "asked", "loading"}
    BY <2>1, <2>2, <2>3 DEF ScriptInv, ReinstallOK
  <2>5. reloads[TabOf[c]] # "ok"
    BY <1>1, <2>1, <2>2 DEF ScriptInv, ReloadsOK, Replaces
  <2>6. QED
    BY <2>1, <2>4, <2>5, ScriptFacts
<1>2. IInv /\ [Next]_vars =>
        [phase' = "restarted" /\ phase # "restarted" =>
           \A c \in Active : c \in live[TabOf[c]] => reloads[TabOf[c]] = "failed"]_vars
  BY <1>1
<1>3. QED
  BY <1>2, ScriptsInvariant, PTL DEF Spec, ReinstallStopsScripts
===============================================================================
