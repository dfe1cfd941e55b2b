---------------------------- MODULE ConsoleCapture ----------------------------
(***************************************************************************)
(* Console captures: the sessions the worker keeps per tab (console.ts)    *)
(* and the shim that its install, read and restore scripts keep in the     *)
(* page (consoleUtil.ts).  The page outlives a session that ends early and *)
(* a session outlives the page that is navigated; PageScripts composes     *)
(* them with the JavaScript executions that share page and tab queue.      *)
(*                                                                         *)
(* A capture is named for the call that installed it.  Of a log entry only *)
(* its number in the page and the size of its JSON are kept.               *)
(***************************************************************************)
EXTENDS Naturals, Sequences, FiniteSetsExt, SequencesExt

CONSTANTS
  Tabs, Calls, TabOf,
  None,       \* not a call
  Sizes,      \* sizes of an entry's JSON
  Budgets,    \* values of consoleMaxSizeMiB, in the unit of Sizes
  MaxLogs     \* bound on the entries a page logs under a shim

ASSUME ConsoleAssumption ==
  /\ Calls \subseteq Nat /\ TabOf \in [Calls -> Tabs]
  /\ None \notin Calls
  /\ Sizes \subseteq Nat \ {0} /\ Budgets \subseteq Nat /\ MaxLogs \in Nat

VARIABLES
  sessions,  \* state.consoleSessions: the tabs that have one
  budget,    \* configuration.consoleMaxSizeMiB
  page,      \* per tab: the page's globals, its console, the entries logged so far
  capture,   \* the captureState of every install
  upload     \* per tab: the last upload, and how it compares with what the
             \* page has logged and with the upload before (history)

consoleVars == <<sessions, budget, page, capture, upload>>

FreshPage == [acob |-> "none", acobCapture |-> None, windowCapture |-> None,
              console |-> <<>>, logged |-> <<>>]
NoCapture == [entries |-> <<>>, truncated |-> FALSE, active |-> FALSE, expired |-> FALSE,
              maxBytes |-> 0, originals |-> <<>>, from |-> 0]
NoUpload == [of |-> None, entries |-> <<>>, complete |-> TRUE, longest |-> TRUE, cumulative |-> TRUE]
Entries == Seq([n: 1..MaxLogs, size: Sizes])

ConsoleTypes ==
  /\ sessions \subseteq Tabs
  /\ budget \in Budgets
  /\ page \in [Tabs -> [acob: {"none", "plain", "frozen"},
                        acobCapture: Calls \cup {None}, windowCapture: Calls \cup {None},
                        console: Seq(Calls), logged: Entries]]
  /\ \A t \in Tabs : Len(page[t].logged) <= MaxLogs
  /\ capture \in [Calls -> [entries: Entries, truncated: BOOLEAN, active: BOOLEAN,
                            expired: BOOLEAN, maxBytes: Budgets \cup {0},
                            originals: Seq(Calls), from: 0..MaxLogs]]

UploadTypes ==
  upload \in [Tabs -> [of: Calls \cup {None}, entries: Entries, complete: BOOLEAN,
                       longest: BOOLEAN, cumulative: BOOLEAN]]

ConsoleTypeOK == ConsoleTypes /\ UploadTypes

ConsoleInit ==
  /\ sessions = {}
  /\ budget \in Budgets
  /\ page = [t \in Tabs |-> FreshPage]
  /\ capture = [c \in Calls |-> NoCapture]
  /\ upload = [t \in Tabs |-> NoUpload]

----------------------------------------------------------------------------
(* The page *)

\* The bytes of the first n entries, for every n.
Bytes(entries) ==
  LET sum[n \in 0..Len(entries)] == IF n = 0 THEN 0 ELSE sum[n - 1] + entries[n].size
  IN sum

\* The size of the JSON array: brackets, entries and the commas between.
JsonSize(entries) ==
  2 + Bytes(entries)[Len(entries)] + (IF entries = <<>> THEN 0 ELSE Len(entries) - 1)

\* Mutant: the global is not looked up.
FoundInNamespace(p) == p.acobCapture
\* The capture the scripts find: under __acob__, else the global.
Found(p) == IF p.acobCapture # None THEN p.acobCapture ELSE p.windowCapture

\* buildConsoleInstallScript: give the page the console from under the
\* capture found, wrap that, and publish the capture; a frozen namespace
\* does not take it.
Install(c, p) ==
  LET prev == Found(p)
      originals == IF prev = None THEN p.console ELSE capture[prev].originals
  IN
  /\ page' = [page EXCEPT ![TabOf[c]] =
       [p EXCEPT !.acob = IF @ = "none" THEN "plain" ELSE @,
                 !.acobCapture = IF p.acob = "frozen" THEN @ ELSE c,
                 !.windowCapture = c,
                 !.console = <<c>> \o originals]]
  /\ capture' = [d \in Calls |->
       IF d = c THEN [NoCapture EXCEPT !.active = TRUE, !.maxBytes = budget,
                                       !.originals = originals, !.from = Len(p.logged)]
       ELSE IF d = prev THEN NoCapture   \* unreachable from now on
       ELSE capture[d]]

\* CONSOLE_RESTORE_SCRIPT
Restore(t) ==
  LET p == page[t]
      cap == Found(p)
  IN IF cap = None
     THEN UNCHANGED <<page, capture>>
     ELSE /\ page' = [page EXCEPT ![t] =
               [p EXCEPT !.acobCapture = None, !.windowCapture = None,
                         !.console = capture[cap].originals]]
          /\ capture' = [capture EXCEPT ![cap] = NoCapture]   \* inactive and unreachable

\* sumBytes + entryBytes + count + 2 <= maxBytes
Fits(cap, size) == JsonSize(cap.entries) + size + (IF cap.entries = <<>> THEN 0 ELSE 1) <= cap.maxBytes

\* append
Appended(cap, entry) ==
  IF ~cap.active THEN cap
  ELSE IF cap.expired \/ ~Fits(cap, entry.size) THEN [cap EXCEPT !.truncated = TRUE]
  ELSE [cap EXCEPT !.entries = Append(@, entry)]

\* The page logs: every shim around the console appends the entry.
Log(t, size) ==
  LET p == page[t]
      entry == [n |-> Len(p.logged) + 1, size |-> size]
  IN
  /\ p.console # <<>> /\ Len(p.logged) < MaxLogs
  /\ page' = [page EXCEPT ![t].logged = Append(@, entry)]
  /\ capture' = [c \in Calls |->
       IF Contains(p.console, c) THEN Appended(capture[c], entry) ELSE capture[c]]
  /\ UNCHANGED <<sessions, budget, upload>>

\* The deadline of a capture passes.
Deadline(c) ==
  /\ capture[c].active /\ ~capture[c].expired
  /\ capture' = [capture EXCEPT ![c].expired = TRUE]
  /\ UNCHANGED <<sessions, budget, page, upload>>

\* libraries.ts: the namespace is replaced by a frozen one.
LoadLibraries(t) ==
  page' = [page EXCEPT ![t].acob = "frozen", ![t].acobCapture = None]

\* A new document: nothing of the old page is left.
ReplacePage(t) ==
  /\ page' = [page EXCEPT ![t] = FreshPage]
  /\ capture' = [c \in Calls |-> IF TabOf[c] = t THEN NoCapture ELSE capture[c]]
  /\ UNCHANGED <<sessions, budget, upload>>

\* The user saves another limit.
SaveBudget(b) ==
  /\ b # budget
  /\ budget' = b
  /\ UNCHANGED <<sessions, page, capture, upload>>

----------------------------------------------------------------------------
(* truncateToBuffer *)

\* The loop of the search: lo fits, hi does not.
Search(entries, maxBytes) ==
  LET Bounds == (0..Len(entries)) \X (0..Len(entries))
      search[b \in Bounds] ==
        LET lo == b[1]
            hi == b[2]
            mid == (lo + hi) \div 2
        IN IF lo + 1 >= hi THEN lo
           ELSE IF JsonSize(SubSeq(entries, 1, mid)) <= maxBytes THEN search[<<mid, hi>>]
           ELSE search[<<lo, mid>>]
  IN search[<<0, Len(entries)>>]

Truncate(entries, maxBytes) ==
  IF JsonSize(entries) <= maxBytes THEN entries
  ELSE IF maxBytes < 2 THEN <<>>
  ELSE SubSeq(entries, 1, Search(entries, maxBytes))

----------------------------------------------------------------------------
(* The worker's side of a call *)

\* state.consoleSessions has the tab.
HasSession(t) == t \in sessions

\* The shim is in the page and the session is set.
Started(c) ==
  /\ Install(c, page[TabOf[c]])
  /\ sessions' = sessions \cup {TabOf[c]}
  /\ UNCHANGED <<budget, upload>>

\* The debugger is refused, or its answer never comes although the shim is in.
StartFailed(c) ==
  /\ Install(c, page[TabOf[c]]) \/ UNCHANGED <<page, capture>>
  /\ UNCHANGED <<sessions, budget, upload>>

\* Mutant: what truncateToBuffer drops is not reported.
TruncatedInPage(cap, kept) == cap.truncated
\* The capture's own flag, or truncateToBuffer's.
Truncated(cap, kept) == cap.truncated \/ Len(kept) < Len(cap.entries)

\* The longest prefix whose JSON has at most maxBytes, or nothing.
LongestPrefix(entries, maxBytes) ==
  SubSeq(entries, 1, Max({0} \cup {n \in 1..Len(entries) : JsonSize(SubSeq(entries, 1, n)) <= maxBytes}))

\* buildConsoleUpload of the entries found, with the limit that is set now.
Upload(t) ==
  LET of == Found(page[t])
      cap == capture[of]
      kept == Truncate(cap.entries, budget)
      logged == SubSeq(page[t].logged, cap.from + 1, Len(page[t].logged))
      before == upload[t]
  IN upload' = [upload EXCEPT ![t] =
       [of |-> of, entries |-> kept,
        complete |-> kept = logged \/ Truncated(cap, kept),
        longest |-> kept = LongestPrefix(cap.entries, budget),
        cumulative |-> before.of = of =>
                         IsPrefix(before.entries, kept) \/ IsPrefix(kept, before.entries)]]

\* The page was replaced.
Lost(t) == Found(page[t]) = None

\* Nothing found, or the tab is closed or its debugger refused: the session ends.
ReadFailed(t) ==
  /\ sessions' = sessions \ {t}
  /\ UNCHANGED <<budget, page, capture, upload>>

\* A capture delivers what is there.
Captured(t) ==
  /\ ~Lost(t)
  /\ Upload(t)
  /\ UNCHANGED <<sessions, budget, page, capture>>

\* The session of a stop ends when the console is restored, or could not be.
Restored(t) ==
  /\ Restore(t) \/ UNCHANGED <<page, capture>>
  /\ sessions' = sessions \ {t}
  /\ UNCHANGED <<budget, upload>>

----------------------------------------------------------------------------

\* There is at most one shim around the console of a page, the one the
\* scripts find: so every call of the page is recorded once, and whoever
\* stops next can restore the console, whatever failed before.
ShimCanBeUndone ==
  \A t \in Tabs :
    page[t].console = IF Lost(t) THEN <<>> ELSE <<Found(page[t])>>

\* An upload that is not marked truncated has all that was logged since the
\* start of its session, in order; a truncated one has the longest beginning
\* that fits.  Snapshots of a session are cumulative: of two in a row one is
\* the beginning of the other, also when the limit was changed between them.
\* The page itself keeps within the limit its session was started with.
UploadsAreFaithful ==
  /\ \A t \in Tabs : upload[t].complete /\ upload[t].longest /\ upload[t].cumulative
  /\ \A c \in Calls : capture[c].entries # <<>> => JsonSize(capture[c].entries) <= capture[c].maxBytes

\* The invariant behind ShimCanBeUndone: a frozen namespace holds no capture, the
\* two places name the same one, and what a shim restores is the page's own console.
ShimOK ==
  /\ \A t \in Tabs :
       /\ page[t].acob = "frozen" => page[t].acobCapture = None
       /\ page[t].acobCapture \in {None, page[t].windowCapture}
  /\ \A c \in Calls : capture[c].originals = <<>>
  /\ ShimCanBeUndone

ConsoleInv == ConsoleTypes /\ ShimOK

\* The invariant behind UploadsAreFaithful: the capture found in a page is the
\* page's, is active, and has all that was logged since its start or says that
\* it has not; what was uploaded from it is its beginning.
CaptureOK ==
  /\ \A t \in Tabs : ~Lost(t) =>
       LET of == Found(page[t])
           cap == capture[of]
           logged == page[t].logged
       IN /\ TabOf[of] = t /\ cap.active /\ cap.from <= Len(logged)
          /\ cap.truncated \/ cap.entries = SubSeq(logged, cap.from + 1, Len(logged))
          /\ upload[t].of = of => IsPrefix(upload[t].entries, cap.entries)
  /\ UploadsAreFaithful
=============================================================================
