-------------------------- MODULE DebuggerSessions ---------------------------
(***************************************************************************)
(* The counted debugger sessions of cdp.ts.  A user is one withDebugger:   *)
(* it acquires, works and releases.  Worker and browser exchange attach    *)
(* and detach requests, answers and detach events, each way in order, so a *)
(* session may be over in the browser before the worker hears of it.       *)
(*                                                                         *)
(* The actions of a tab take turns in its queue, and a recording, which    *)
(* stays beside them, is started by an action that waits for its attach:   *)
(* nobody acquires while another attach of the same tab is unanswered.     *)
(***************************************************************************)
EXTENDS Naturals, Sequences, FiniteSets

CONSTANTS Users, Tabs, TabOf, None

ASSUME UsersAssumption ==
  /\ IsFiniteSet(Users) /\ None \notin Users
  /\ TabOf \in [Users -> Tabs]

VARIABLES
  pc,         \* where a user is
  target,     \* its target object, named for the user who created it
  sessions,   \* the Map of cdp.ts
  toBrowser,  \* attach and detach requests of a tab, in order
  toWorker,   \* answers and detach events of a tab, in order
  attached,   \* in the browser: for whom the tab's debugger is attached
  lost        \* attachments that the browser ended (history)

vars == <<pc, target, sessions, toBrowser, toWorker, attached, lost>>

NoSession == [target |-> None, refCount |-> 0, detached |-> FALSE]
Message(type, u) == [type |-> type, user |-> u]

TypeOK ==
  /\ pc \in [Users -> {"new", "attaching", "holding", "done", "failed"}]
  /\ target \in [Users -> Users \cup {None}]
  /\ sessions \in [Tabs -> {NoSession} \cup
                    [target: Users, refCount: Nat \ {0}, detached: BOOLEAN]]
  /\ toBrowser \in [Tabs -> Seq([type: {"attach", "detach"}, user: Users])]
  /\ toWorker \in [Tabs -> Seq([type: {"attached", "refused", "detached"}, user: Users])]
  /\ attached \in [Tabs -> Users \cup {None}]
  /\ lost \subseteq Users

Init ==
  /\ pc = [u \in Users |-> "new"]
  /\ target = [u \in Users |-> None]
  /\ sessions = [t \in Tabs |-> NoSession]
  /\ toBrowser = [t \in Tabs |-> <<>>]
  /\ toWorker = [t \in Tabs |-> <<>>]
  /\ attached = [t \in Tabs |-> None]
  /\ lost = {}

----------------------------------------------------------------------------

\* The session an acquire may join.
Usable(s) == s # NoSession /\ ~s.detached

\* Mutant: joining a session is not counted.
JoinUncounted(s) == s
Joined(s) == [s EXCEPT !.refCount = @ + 1]

\* acquireDebugger: join the session there is, or forget a detached one and
\* attach.
Acquire(u) ==
  LET t == TabOf[u] IN
  /\ pc[u] = "new"
  /\ \A v \in Users : TabOf[v] = t => pc[v] # "attaching"
  /\ IF Usable(sessions[t])
     THEN /\ sessions' = [sessions EXCEPT ![t] = Joined(@)]
          /\ pc' = [pc EXCEPT ![u] = "holding"]
          /\ target' = [target EXCEPT ![u] = sessions[t].target]
          /\ UNCHANGED toBrowser
     ELSE /\ sessions' = [sessions EXCEPT ![t] = NoSession]
          /\ pc' = [pc EXCEPT ![u] = "attaching"]
          /\ target' = [target EXCEPT ![u] = u]
          /\ toBrowser' = [toBrowser EXCEPT ![t] = Append(@, Message("attach", u))]
  /\ UNCHANGED <<toWorker, attached, lost>>

\* The browser attaches, or refuses: a debugger is attached already, or the
\* tab is closed or not to be debugged.
BrowserAttach(t) ==
  /\ toBrowser[t] # <<>> /\ Head(toBrowser[t]).type = "attach"
  /\ toBrowser' = [toBrowser EXCEPT ![t] = Tail(@)]
  /\ LET u == Head(toBrowser[t]).user IN
     \/ /\ attached[t] = None
        /\ attached' = [attached EXCEPT ![t] = u]
        /\ toWorker' = [toWorker EXCEPT ![t] = Append(@, Message("attached", u))]
     \/ /\ toWorker' = [toWorker EXCEPT ![t] = Append(@, Message("refused", u))]
        /\ UNCHANGED attached
  /\ UNCHANGED <<pc, target, sessions, lost>>

\* The attach is answered.
Attached(t) ==
  /\ toWorker[t] # <<>> /\ Head(toWorker[t]).type \in {"attached", "refused"}
  /\ toWorker' = [toWorker EXCEPT ![t] = Tail(@)]
  /\ LET u == Head(toWorker[t]).user IN
     IF Head(toWorker[t]).type = "attached"
     THEN /\ sessions' = [sessions EXCEPT ![t] = [target |-> target[u], refCount |-> 1, detached |-> FALSE]]
          /\ pc' = [pc EXCEPT ![u] = "holding"]
     ELSE /\ pc' = [pc EXCEPT ![u] = "failed"]
          /\ UNCHANGED sessions
  /\ UNCHANGED <<target, toBrowser, attached, lost>>

\* Mutant: detach events are ignored.
MarkNothing(s) == s
\* chrome.debugger.onDetach marks the session of the tab.
Marked(s) == IF s = NoSession THEN s ELSE [s EXCEPT !.detached = TRUE]

OnDetach(t) ==
  /\ toWorker[t] # <<>> /\ Head(toWorker[t]).type = "detached"
  /\ toWorker' = [toWorker EXCEPT ![t] = Tail(@)]
  /\ sessions' = [sessions EXCEPT ![t] = Marked(@)]
  /\ UNCHANGED <<pc, target, toBrowser, attached, lost>>

\* Mutant: whose session it is does not matter.
AnySession(s, u) == s # NoSession
\* The session of the tab is the one the user has acquired.
Owns(s, u) == s # NoSession /\ s.target = target[u]

\* Mutant: the count is looked at before it is decremented.
LastCountedDown(s) == s.refCount = 0
\* Nobody else uses the session.
Last(s) == s.refCount = 1

\* releaseDebugger: the last user takes the session away, and detaches
\* unless the browser did.
Release(u) ==
  LET t == TabOf[u]
      s == sessions[t]
      last == Owns(s, u) /\ Last(s)
  IN
  /\ pc[u] = "holding"
  /\ pc' = [pc EXCEPT ![u] = "done"]
  /\ sessions' = [sessions EXCEPT ![t] =
       IF ~Owns(s, u) THEN s ELSE IF last THEN NoSession ELSE [s EXCEPT !.refCount = @ - 1]]
  /\ toBrowser' = IF last /\ ~s.detached
                  THEN [toBrowser EXCEPT ![t] = Append(@, Message("detach", u))]
                  ELSE toBrowser
  /\ UNCHANGED <<target, toWorker, attached, lost>>

\* The browser detaches whatever is attached to the tab.
BrowserDetach(t) ==
  /\ toBrowser[t] # <<>> /\ Head(toBrowser[t]).type = "detach"
  /\ toBrowser' = [toBrowser EXCEPT ![t] = Tail(@)]
  /\ attached' = [attached EXCEPT ![t] = None]
  /\ UNCHANGED <<pc, target, sessions, toWorker, lost>>

\* The user cancels debugging, the tab is closed or crashes.
Lose(t) ==
  /\ attached[t] # None
  /\ attached' = [attached EXCEPT ![t] = None]
  /\ lost' = lost \cup {attached[t]}
  /\ toWorker' = [toWorker EXCEPT ![t] = Append(@, Message("detached", attached[t]))]
  /\ UNCHANGED <<pc, target, sessions, toBrowser>>

----------------------------------------------------------------------------

Next ==
  \/ \E u \in Users : Acquire(u) \/ Release(u)
  \/ \E t \in Tabs :
       BrowserAttach(t) \/ Attached(t) \/ OnDetach(t) \/ BrowserDetach(t) \/ Lose(t)

Spec == Init /\ [][Next]_vars

----------------------------------------------------------------------------

\* Those who are to release the session of a tab.
Counted(t) ==
  {u \in Users : TabOf[u] = t /\ pc[u] = "holding" /\ target[u] = sessions[t].target}

CountOK(t) == sessions[t] # NoSession => sessions[t].refCount = Cardinality(Counted(t))

\* The count of a session is the number of those who are to release it.
CountsHolders == \A t \in Tabs : CountOK(t)

FollowOK(t) ==
  /\ Usable(sessions[t]) /\ attached[t] # sessions[t].target =>
       \E i \in DOMAIN toWorker[t] : toWorker[t][i].type = "detached"
  /\ attached[t] # None /\ sessions[t].target # attached[t] =>
       \/ \E i \in DOMAIN toWorker[t] : toWorker[t][i] = Message("attached", attached[t])
       \/ \E i \in DOMAIN toBrowser[t] : toBrowser[t][i].type = "detach"
  /\ toBrowser[t] # <<>> /\ Head(toBrowser[t]).type = "attach" => attached[t] = None

\* A session that is not marked is attached, unless the event is on its way;
\* an attachment has a session, unless its answer or the request to end it is
\* on its way.  So nobody joins a session known to be dead, nobody is refused
\* because of a session, and no attachment outlives its users.
SessionsFollowBrowser == \A t \in Tabs : FollowOK(t)

----------------------------------------------------------------------------
(* The inductive invariant *)

\* Whose target a user has; at most one user of a tab is attaching.
UserOK(u) ==
  /\ pc[u] = "attaching" =>
       /\ target[u] = u
       /\ \A v \in Users : TabOf[v] = TabOf[u] /\ pc[v] = "attaching" => v = u
  /\ pc[u] = "holding" => target[u] # None
  /\ target[u] \notin {None, u} =>
       TabOf[target[u]] = TabOf[u] /\ pc[target[u]] \in {"holding", "done"}

Answers(t) == {i \in DOMAIN toWorker[t] : toWorker[t][i].type # "detached"}

\* An attach is the last request of its tab, and its answer the only one; what
\* follows it says that the attachment is over.
WireOK(t) ==
  /\ \A i \in DOMAIN toBrowser[t] : toBrowser[t][i].type = "attach" =>
       /\ i = Len(toBrowser[t])
       /\ TabOf[toBrowser[t][i].user] = t /\ pc[toBrowser[t][i].user] = "attaching"
  /\ \A i \in Answers(t) :
       /\ toBrowser[t] = <<>>
       /\ TabOf[toWorker[t][i].user] = t /\ pc[toWorker[t][i].user] = "attaching"
       /\ \A j \in Answers(t) : i = j
       /\ toWorker[t][i].type = "attached" =>
            attached[t] = IF i = Len(toWorker[t]) THEN toWorker[t][i].user ELSE None

\* With a session nothing is asked of the browser; what is attached is known.
SessionOK(t) ==
  /\ sessions[t] # NoSession =>
       /\ toBrowser[t] = <<>>
       /\ \A u \in Users : TabOf[u] = t => pc[u] # "attaching"
       /\ TabOf[sessions[t].target] = t /\ pc[sessions[t].target] \in {"holding", "done"}
       /\ (sessions[t].detached \/ \E i \in DOMAIN toWorker[t] : toWorker[t][i].type = "detached")
            => attached[t] = None
  /\ attached[t] # None =>
       /\ TabOf[attached[t]] = t /\ pc[attached[t]] # "new"
       /\ pc[attached[t]] = "attaching" => Answers(t) # {}
       /\ \A u \in Users : TabOf[u] = t /\ pc[u] = "holding" /\ target[u] = attached[t] =>
            sessions[t].target = attached[t]

TabOK(t) ==
  /\ \A u \in Users : TabOf[u] = t => UserOK(u)
  /\ WireOK(t) /\ SessionOK(t) /\ CountOK(t) /\ FollowOK(t)

IInv == TypeOK /\ \A t \in Tabs : TabOK(t)

----------------------------------------------------------------------------
(* Refinement *)

\* Users of the attachment that the browser has now, from the moment it attaches.
HoldersOf(t) ==
  {u \in Users : /\ TabOf[u] = t /\ pc[u] \in {"attaching", "holding"}
                 /\ attached[t] # None /\ target[u] = attached[t]}

Holders == [t \in Tabs |-> HoldersOf(t)]

Lease == INSTANCE DebuggerLease WITH lease <- attached, holders <- Holders

\* The debugger of a tab stays attached as long as someone uses it, unless
\* the browser ends it: the sessions implement the lease.
ImplementsLease == Lease!Spec
=============================================================================
