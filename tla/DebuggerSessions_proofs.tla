----------------------- MODULE DebuggerSessions_proofs ------------------------
(***************************************************************************)
(* Proofs about DebuggerSessions: its inductive invariant IInv, what       *)
(* follows from it, and that the sessions implement DebuggerLease.         *)
(*                                                                         *)
(* IInv speaks of one tab at a time.  An action changes one tab and its    *)
(* users, so that each is treated by one lemma (TabOK of its tab holds     *)
(* afterwards) and Elsewhere, for all the other tabs.                      *)
(***************************************************************************)
EXTENDS DebuggerSessions, FiniteSetTheorems, TLAPS

(***************************************************************************)
(* Shapes.                                                                 *)
(***************************************************************************)

\* A tab has no session exactly if there is no target in its place.
LEMMA SessionShape ==
  ASSUME TypeOK, NEW t \in Tabs
  PROVE  \/ /\ sessions[t] = NoSession
            /\ sessions[t].target = None
            /\ ~sessions[t].detached
         \/ /\ sessions[t] # NoSession
            /\ sessions[t].target \in Users
            /\ sessions[t].target # None
            /\ sessions[t].refCount \in Nat \ {0}
            /\ sessions[t].detached \in BOOLEAN
<1>1. CASE sessions[t] = NoSession
  BY <1>1 DEF NoSession
<1>2. CASE sessions[t] \in [target : Users, refCount : Nat \ {0}, detached : BOOLEAN]
  <2>1. sessions[t].target \in Users /\ sessions[t].refCount \in Nat \ {0}
        /\ sessions[t].detached \in BOOLEAN
    BY <1>2
  <2>2. sessions[t].target # None
    BY <2>1, UsersAssumption
  <2>3. NoSession.target = None
    BY DEF NoSession
  <2>4. QED
    BY <2>1, <2>2, <2>3
<1>3. QED
  BY <1>1, <1>2 DEF TypeOK

\* The elements of a sequence.
LEMMA ElementShape ==
  ASSUME NEW S, NEW s \in Seq(S)
  PROVE  /\ Len(s) \in Nat /\ DOMAIN s = 1 .. Len(s)
         /\ \A i \in DOMAIN s : s[i] \in S
OBVIOUS

\* The requests and messages of a tab.
LEMMA WireShape ==
  ASSUME TypeOK, NEW t \in Tabs
  PROVE  /\ toBrowser[t] \in Seq([type : {"attach", "detach"}, user : Users])
         /\ toWorker[t] \in Seq([type : {"attached", "refused", "detached"}, user : Users])
         /\ Len(toBrowser[t]) \in Nat /\ DOMAIN toBrowser[t] = 1 .. Len(toBrowser[t])
         /\ Len(toWorker[t]) \in Nat /\ DOMAIN toWorker[t] = 1 .. Len(toWorker[t])
         /\ \A i \in DOMAIN toBrowser[t] :
              toBrowser[t][i].type \in {"attach", "detach"} /\ toBrowser[t][i].user \in Users
         /\ \A i \in DOMAIN toWorker[t] :
              /\ toWorker[t][i].type \in {"attached", "refused", "detached"}
              /\ toWorker[t][i].user \in Users
<1> DEFINE Requests == [type : {"attach", "detach"}, user : Users]
           Events == [type : {"attached", "refused", "detached"}, user : Users]
<1>1. toBrowser[t] \in Seq(Requests) /\ toWorker[t] \in Seq(Events)
  BY DEF TypeOK
<1>2. /\ \A m \in Requests : m.type \in {"attach", "detach"} /\ m.user \in Users
      /\ \A m \in Events : m.type \in {"attached", "refused", "detached"} /\ m.user \in Users
  OBVIOUS
<1> HIDE DEF Requests, Events
<1>3. /\ Len(toBrowser[t]) \in Nat /\ DOMAIN toBrowser[t] = 1 .. Len(toBrowser[t])
      /\ \A i \in DOMAIN toBrowser[t] : toBrowser[t][i] \in Requests
  BY <1>1, ElementShape
<1>4. /\ Len(toWorker[t]) \in Nat /\ DOMAIN toWorker[t] = 1 .. Len(toWorker[t])
      /\ \A i \in DOMAIN toWorker[t] : toWorker[t][i] \in Events
  BY <1>1, ElementShape
<1>5. QED
  BY <1>1, <1>2, <1>3, <1>4 DEF Requests, Events

\* Taking the first message leaves the others in their order.
LEMMA TailShape ==
  ASSUME NEW S, NEW s \in Seq(S), s # <<>>
  PROVE  /\ Tail(s) \in Seq(S) /\ Len(Tail(s)) = Len(s) - 1
         /\ DOMAIN Tail(s) = 1 .. Len(s) - 1 /\ (Len(s) = 1 => Tail(s) = <<>>)
         /\ \A i \in 1 .. Len(s) - 1 : Tail(s)[i] = s[i + 1]
         /\ Head(s) = s[1] /\ Head(s) \in S /\ Len(s) \in Nat \ {0}
OBVIOUS

\* Appending a message leaves those before it where they are.
LEMMA AppendShape ==
  ASSUME NEW S, NEW s \in Seq(S), NEW m \in S
  PROVE  /\ Append(s, m) \in Seq(S) /\ Len(Append(s, m)) = Len(s) + 1
         /\ \A i \in 1 .. Len(s) : Append(s, m)[i] = s[i]
         /\ Append(s, m)[Len(s) + 1] = m /\ Append(s, m) # <<>>
OBVIOUS

(***************************************************************************)
(* A tab that a step leaves alone.                                         *)
(***************************************************************************)

LEMMA Elsewhere ==
  ASSUME TypeOK, NEW s \in Tabs, TabOK(s),
         sessions'[s] = sessions[s], toBrowser'[s] = toBrowser[s],
         toWorker'[s] = toWorker[s], attached'[s] = attached[s],
         \A u \in Users : TabOf[u] = s => pc'[u] = pc[u] /\ target'[u] = target[u]
  PROVE  TabOK(s)'
<1>1. ASSUME NEW u \in Users, TabOf[u] = s
      PROVE  UserOK(u)'
  <2>1. UserOK(u)
    BY <1>1 DEF TabOK
  <2>2. target[u] \in Users \cup {None}
    BY DEF TypeOK
  <2>3. QED
    BY <1>1, <2>1, <2>2 DEF UserOK
<1>2. WireOK(s)'
  BY WireShape DEF TabOK, WireOK, Answers
<1>3. SessionOK(s)'
  <2>1. attached[s] \in Users \cup {None}
    BY DEF TypeOK
  <2>2. QED
    BY <2>1, SessionShape DEF TabOK, SessionOK, Answers
<1>4. CountOK(s)'
  <2>1. Counted(s)' = Counted(s)
    BY DEF Counted
  <2>2. QED
    BY <2>1 DEF TabOK, CountOK
<1>5. FollowOK(s)'
  BY DEF TabOK, FollowOK, Usable
<1>6. QED
  BY <1>1, <1>2, <1>3, <1>4, <1>5 DEF TabOK

(***************************************************************************)
(* One lemma per action.                                                   *)
(***************************************************************************)

\* A user who joins is counted; one who attaches is the only one to.
LEMMA AcquireStep ==
  ASSUME IInv, NEW u \in Users, Acquire(u)
  PROVE  IInv'
<1> DEFINE t == TabOf[u]
<1>1. t \in Tabs /\ TypeOK /\ TabOK(t) /\ pc[u] = "new"
  BY UsersAssumption DEF IInv, Acquire
<1>2. \A v \in Users : v # u => pc'[v] = pc[v] /\ target'[v] = target[v]
  BY <1>1 DEF Acquire, TypeOK
<1>3. /\ \A s \in Tabs : s # t => sessions'[s] = sessions[s] /\ toBrowser'[s] = toBrowser[s]
      /\ UNCHANGED <<toWorker, attached, lost>>
  BY <1>1 DEF Acquire, IInv, TypeOK
<1>4. ASSUME NEW s \in Tabs, s # t
      PROVE  TabOK(s)'
  BY <1>2, <1>3, <1>4, Elsewhere DEF IInv
<1>5. CASE Usable(sessions[t])
  <2>1. /\ sessions[t] # NoSession /\ ~sessions[t].detached
        /\ sessions[t].target \in Users /\ sessions[t].target # None
        /\ sessions[t].refCount \in Nat \ {0}
    BY <1>1, <1>5, SessionShape DEF Usable
  <2>2. /\ sessions'[t] = Joined(sessions[t])
        /\ pc'[u] = "holding" /\ target'[u] = sessions[t].target
        /\ UNCHANGED toBrowser
    BY <1>1, <1>5 DEF Acquire, IInv, TypeOK
  <2>3. /\ sessions'[t].target = sessions[t].target /\ ~sessions'[t].detached
        /\ sessions'[t].refCount = sessions[t].refCount + 1
        /\ sessions'[t] \in [target : Users, refCount : Nat \ {0}, detached : BOOLEAN]
        /\ sessions'[t] # NoSession
    <3>1. sessions[t] \in [target : Users, refCount : Nat \ {0}, detached : BOOLEAN]
      BY <1>1, <2>1 DEF TypeOK
    <3>2. /\ sessions'[t].target = sessions[t].target /\ ~sessions'[t].detached
          /\ sessions'[t].refCount = sessions[t].refCount + 1
          /\ sessions'[t] \in [target : Users, refCount : Nat \ {0}, detached : BOOLEAN]
      BY <2>1, <2>2, <3>1 DEF Joined
    <3>3. QED
      BY <2>1, <3>2 DEF NoSession
  <2>4. TypeOK'
    <3>1. sessions' = [sessions EXCEPT ![t] = Joined(@)]
      BY <1>5 DEF Acquire
    <3>2. sessions' \in [Tabs -> {NoSession} \cup
                           [target : Users, refCount : Nat \ {0}, detached : BOOLEAN]]
      BY <1>1, <1>3, <2>3, <3>1 DEF TypeOK
    <3>3. pc' = [pc EXCEPT ![u] = "holding"] /\ target' = [target EXCEPT ![u] = sessions[t].target]
      BY <1>5 DEF Acquire
    <3>4. QED
      BY <1>1, <1>3, <2>1, <2>2, <3>2, <3>3 DEF TypeOK
  <2>5. ASSUME NEW v \in Users, TabOf[v] = t
        PROVE  UserOK(v)'
    <3>1. UserOK(v) /\ target[v] \in Users \cup {None}
      BY <1>1, <2>5 DEF TabOK, TypeOK
    <3>2. TabOf[sessions[t].target] = t /\ pc[sessions[t].target] \in {"holding", "done"}
      BY <1>1, <2>1 DEF TabOK, SessionOK
    <3>3. QED
      BY <1>1, <1>2, <2>1, <2>2, <2>5, <3>1, <3>2 DEF UserOK
  <2>6. WireOK(t)'
    BY <1>1, <1>2, <1>3, <2>2, WireShape DEF TabOK, WireOK, Answers
  <2>7. SessionOK(t)'
    <3>1. attached[t] \in Users \cup {None}
      BY <1>1 DEF TypeOK
    <3>2. QED
      BY <1>1, <1>2, <1>3, <2>1, <2>2, <2>3, <3>1 DEF TabOK, SessionOK, Answers
  <2>8. CountOK(t)'
    <3>1. Counted(t)' = Counted(t) \cup {u} /\ u \notin Counted(t)
      BY <1>1, <1>2, <2>2, <2>3 DEF Counted
    <3>2. IsFiniteSet(Counted(t))
      BY UsersAssumption, FS_Subset DEF Counted
    <3>3. Cardinality(Counted(t)') = Cardinality(Counted(t)) + 1
      BY <3>1, <3>2, FS_AddElement
    <3>4. QED
      BY <1>1, <2>1, <2>3, <3>3 DEF CountOK, TabOK
  <2>9. FollowOK(t)'
    BY <1>1, <1>3, <2>1, <2>2, <2>3 DEF TabOK, FollowOK, Usable
  <2>10. QED
    BY <1>4, <2>4, <2>5, <2>6, <2>7, <2>8, <2>9 DEF IInv, TabOK
<1>6. CASE ~Usable(sessions[t])
  <2>1. /\ sessions'[t] = NoSession
        /\ pc'[u] = "attaching" /\ target'[u] = u
        /\ toBrowser'[t] = Append(toBrowser[t], Message("attach", u))
        /\ \A v \in Users : TabOf[v] = t => pc[v] # "attaching"
    BY <1>1, <1>6 DEF Acquire, IInv, TypeOK
  <2>2. sessions'[t].target = None /\ ~sessions'[t].detached
    BY <2>1 DEF NoSession
  <2>3. /\ toBrowser[t] \in Seq([type : {"attach", "detach"}, user : Users])
        /\ Message("attach", u) \in [type : {"attach", "detach"}, user : Users]
        /\ Message("attach", u).type = "attach" /\ Message("attach", u).user = u
    BY <1>1, WireShape DEF Message
  <2>4. TypeOK'
    <3>1. toBrowser' = [toBrowser EXCEPT ![t] = Append(@, Message("attach", u))]
          /\ sessions' = [sessions EXCEPT ![t] = NoSession]
          /\ pc' = [pc EXCEPT ![u] = "attaching"] /\ target' = [target EXCEPT ![u] = u]
      BY <1>6 DEF Acquire
    <3>2. toBrowser' \in [Tabs -> Seq([type : {"attach", "detach"}, user : Users])]
      BY <1>1, <2>3, <3>1 DEF TypeOK
    <3>3. QED
      BY <1>1, <1>3, <3>1, <3>2 DEF TypeOK
  <2>5. ASSUME NEW v \in Users, TabOf[v] = t
        PROVE  UserOK(v)'
    <3>1. UserOK(v) /\ target[v] \in Users \cup {None}
      BY <1>1, <2>5 DEF TabOK, TypeOK
    <3>2. QED
      BY <1>1, <1>2, <2>1, <2>5, <3>1 DEF UserOK
  <2>6. /\ \A i \in DOMAIN toBrowser[t] : toBrowser[t][i].type # "attach"
        /\ Answers(t) = {} /\ Answers(t)' = {}
    <3>1. \A i \in DOMAIN toBrowser[t] : toBrowser[t][i].type # "attach"
      BY <1>1, <2>1, WireShape DEF TabOK, WireOK
    <3>2. Answers(t) = {}
      BY <1>1, <2>1, WireShape DEF TabOK, WireOK, Answers
    <3>3. QED
      BY <1>3, <3>1, <3>2 DEF Answers
  <2>7. /\ Len(toBrowser'[t]) = Len(toBrowser[t]) + 1 /\ toBrowser'[t] # <<>>
        /\ DOMAIN toBrowser'[t] = 1 .. Len(toBrowser[t]) + 1
        /\ \A i \in 1 .. Len(toBrowser[t]) : toBrowser'[t][i] = toBrowser[t][i]
        /\ toBrowser'[t][Len(toBrowser[t]) + 1] = Message("attach", u)
        /\ DOMAIN toBrowser[t] = 1 .. Len(toBrowser[t]) /\ Len(toBrowser[t]) \in Nat
    BY <2>1, <2>3, AppendShape
  <2>8. WireOK(t)'
    BY <1>1, <2>1, <2>3, <2>6, <2>7 DEF WireOK
  <2>9. ~Usable(sessions[t]) /\ attached[t] # None
          => /\ sessions[t].target # attached[t]
             /\ \E i \in DOMAIN toBrowser[t] : toBrowser[t][i].type = "detach"
    <3>1. sessions[t] # NoSession => attached[t] = None
      BY <1>1, <1>6 DEF TabOK, SessionOK, Usable
    <3>2. sessions[t] = NoSession => sessions[t].target = None
      BY DEF NoSession
    <3>3. ~\E i \in DOMAIN toWorker[t] : toWorker[t][i] = Message("attached", attached[t])
      BY <2>6 DEF Answers, Message
    <3>4. QED
      BY <1>1, <3>1, <3>2, <3>3 DEF TabOK, FollowOK
  <2>10. SessionOK(t)'
    <3>1. attached[t] \in Users \cup {None}
      BY <1>1 DEF TypeOK
    <3>2. attached[t] # u /\ (attached[t] # None => pc[attached[t]] # "attaching")
      BY <1>1, <2>1, <2>6, <3>1, UsersAssumption DEF TabOK, SessionOK
    <3>3. attached[t] # None =>
            \A v \in Users : ~(TabOf[v] = t /\ pc[v] = "holding" /\ target[v] = attached[t])
      BY <1>1, <1>6, <2>9 DEF TabOK, SessionOK
    <3>4. QED
      BY <1>1, <1>2, <1>3, <2>1, <2>2, <3>1, <3>2, <3>3 DEF TabOK, SessionOK
  <2>11. CountOK(t)'
    BY <2>1 DEF CountOK
  <2>12. FollowOK(t)'
    <3>1. attached[t] # None => \E i \in DOMAIN toBrowser'[t] : toBrowser'[t][i].type = "detach"
      BY <1>6, <2>7, <2>9
    <3>2. Head(toBrowser'[t]).type = "attach" => attached[t] = None
      <4>1. Head(toBrowser'[t]) = toBrowser'[t][1]
        BY <2>7
      <4>2. CASE toBrowser[t] = <<>>
        BY <1>6, <2>9, <4>2
      <4>3. CASE toBrowser[t] # <<>>
        <5>1. toBrowser'[t][1] = toBrowser[t][1] /\ 1 \in DOMAIN toBrowser[t]
          BY <2>3, <2>7, <4>3
        <5>2. QED
          BY <2>6, <4>1, <5>1
      <4>4. QED
        BY <4>2, <4>3
    <3>3. QED
      BY <1>3, <2>1, <3>1, <3>2 DEF FollowOK, Usable
  <2>13. QED
    BY <1>4, <2>4, <2>5, <2>8, <2>10, <2>11, <2>12 DEF IInv, TabOK
<1>7. QED
  BY <1>5, <1>6

\* The browser takes an attach only from an unused tab, and its answer is the
\* only one.
LEMMA BrowserAttachStep ==
  ASSUME IInv, NEW t \in Tabs, BrowserAttach(t)
  PROVE  IInv'
<1> DEFINE u == Head(toBrowser[t]).user
<1>1. TypeOK /\ TabOK(t) /\ toBrowser[t] # <<>> /\ Head(toBrowser[t]).type = "attach"
  BY DEF IInv, BrowserAttach
<1>2. /\ Len(toBrowser[t]) = 1 /\ Tail(toBrowser[t]) = <<>> /\ u \in Users
      /\ TabOf[u] = t /\ pc[u] = "attaching"
  <2>1. toBrowser[t] \in Seq([type : {"attach", "detach"}, user : Users])
    BY <1>1, WireShape
  <2>2. Head(toBrowser[t]) = toBrowser[t][1] /\ 1 \in DOMAIN toBrowser[t]
    BY <1>1, <2>1
  <2>3. /\ 1 = Len(toBrowser[t]) /\ u \in Users
        /\ TabOf[u] = t /\ pc[u] = "attaching"
    BY <1>1, <2>2, WireShape DEF TabOK, WireOK
  <2>4. Tail(toBrowser[t]) = <<>>
    BY <1>1, <2>1, <2>3, TailShape
  <2>5. QED
    BY <2>3, <2>4
<1>3. Answers(t) = {} /\ sessions[t] = NoSession /\ attached[t] = None
  BY <1>1 DEF TabOK, WireOK, SessionOK, FollowOK
<1>4. /\ UNCHANGED <<pc, target, sessions, lost>>
      /\ \A s \in Tabs : s # t => /\ toBrowser'[s] = toBrowser[s] /\ toWorker'[s] = toWorker[s]
                                 /\ attached'[s] = attached[s]
      /\ toBrowser'[t] = <<>> /\ toBrowser' = [toBrowser EXCEPT ![t] = Tail(@)]
  BY <1>1, <1>2 DEF BrowserAttach, TypeOK
<1>5. PICK ty \in {"attached", "refused"} :
        /\ toWorker' = [toWorker EXCEPT ![t] = Append(@, Message(ty, u))]
        /\ attached' = [attached EXCEPT ![t] = IF ty = "attached" THEN u ELSE None]
  <2>1. attached = [attached EXCEPT ![t] = None]
    BY <1>1, <1>3 DEF TypeOK
  <2>2. QED
    BY <2>1 DEF BrowserAttach
<1>6. /\ Message(ty, u).type = ty /\ Message(ty, u).user = u
      /\ Message(ty, u) \in [type : {"attached", "refused", "detached"}, user : Users]
  BY <1>2 DEF Message
<1>7. /\ toWorker'[t] = Append(toWorker[t], Message(ty, u))
      /\ attached'[t] = IF ty = "attached" THEN u ELSE None
  BY <1>1, <1>5 DEF TypeOK
<1>8. /\ DOMAIN toWorker[t] = 1 .. Len(toWorker[t]) /\ Len(toWorker[t]) \in Nat
      /\ toWorker'[t] \in Seq([type : {"attached", "refused", "detached"}, user : Users])
      /\ Len(toWorker'[t]) = Len(toWorker[t]) + 1
      /\ DOMAIN toWorker'[t] = 1 .. Len(toWorker[t]) + 1
      /\ \A i \in 1 .. Len(toWorker[t]) : toWorker'[t][i] = toWorker[t][i]
      /\ toWorker'[t][Len(toWorker[t]) + 1] = Message(ty, u)
  <2>1. toWorker[t] \in Seq([type : {"attached", "refused", "detached"}, user : Users])
    BY <1>1, WireShape
  <2>2. QED
    BY <1>6, <1>7, <2>1, AppendShape
<1>9. TypeOK'
  <2>1. toBrowser' \in [Tabs -> Seq([type : {"attach", "detach"}, user : Users])]
    <3>1. Tail(toBrowser[t]) \in Seq([type : {"attach", "detach"}, user : Users])
      BY <1>1, WireShape, TailShape
    <3>2. QED
      BY <1>1, <1>4, <3>1 DEF TypeOK
  <2>2. toWorker' \in [Tabs -> Seq([type : {"attached", "refused", "detached"}, user : Users])]
    BY <1>1, <1>5, <1>7, <1>8 DEF TypeOK
  <2>3. attached' \in [Tabs -> Users \cup {None}]
    BY <1>1, <1>2, <1>5 DEF TypeOK
  <2>4. QED
    BY <1>1, <1>4, <2>1, <2>2, <2>3 DEF TypeOK
<1>10. ASSUME NEW s \in Tabs, s # t
       PROVE  TabOK(s)'
  BY <1>4, <1>10, Elsewhere DEF IInv
<1>11. ASSUME NEW v \in Users, TabOf[v] = t
       PROVE  UserOK(v)'
  BY <1>1, <1>4, <1>11 DEF TabOK, UserOK
<1>12. Answers(t)' = {Len(toWorker[t]) + 1}
  <2>1. \A i \in 1 .. Len(toWorker[t]) : toWorker[t][i].type = "detached"
    BY <1>3, <1>8 DEF Answers
  <2>2. QED
    BY <1>5, <1>6, <1>8, <2>1 DEF Answers
<1>13. WireOK(t)'
  BY <1>2, <1>4, <1>6, <1>7, <1>8, <1>12 DEF WireOK
<1>14. SessionOK(t)'
  <2>1. ASSUME NEW v \in Users, TabOf[v] = t, pc[v] = "holding"
        PROVE  target[v] # u
    <3>1. UserOK(v) /\ v # u /\ u # None
      BY <1>1, <1>2, <2>1, UsersAssumption DEF TabOK
    <3>2. QED
      BY <1>2, <2>1, <3>1 DEF UserOK
  <2>2. QED
    BY <1>2, <1>3, <1>4, <1>7, <1>12, <2>1 DEF SessionOK
<1>15. CountOK(t)'
  BY <1>3, <1>4 DEF CountOK
<1>16. FollowOK(t)'
  BY <1>3, <1>4, <1>7, <1>8 DEF FollowOK, Usable
<1>17. QED
  BY <1>9, <1>10, <1>11, <1>13, <1>14, <1>15, <1>16 DEF IInv, TabOK

\* The first message of a tab is taken; those after it move up.
LEMMA TakenShape ==
  ASSUME TypeOK, NEW t \in Tabs, toWorker[t] # <<>>,
         toWorker' = [toWorker EXCEPT ![t] = Tail(@)]
  PROVE  /\ toWorker' \in [Tabs -> Seq([type : {"attached", "refused", "detached"}, user : Users])]
         /\ \A s \in Tabs : s # t => toWorker'[s] = toWorker[s]
         /\ 1 \in DOMAIN toWorker[t] /\ Head(toWorker[t]) = toWorker[t][1]
         /\ Len(toWorker'[t]) = Len(toWorker[t]) - 1
         /\ \A i \in DOMAIN toWorker'[t] :
              /\ i \in Nat /\ i + 1 \in DOMAIN toWorker[t] /\ i + 1 # 1
              /\ toWorker'[t][i] = toWorker[t][i + 1]
         /\ \A i \in DOMAIN toWorker[t] :
              i # 1 => i - 1 \in DOMAIN toWorker'[t] /\ toWorker'[t][i - 1] = toWorker[t][i]
<1> DEFINE Events == [type : {"attached", "refused", "detached"}, user : Users]
<1>1. toWorker \in [Tabs -> Seq(Events)] /\ toWorker[t] \in Seq(Events)
  BY DEF TypeOK
<1> HIDE DEF Events
<1>2. /\ Len(toWorker[t]) \in Nat \ {0} /\ DOMAIN toWorker[t] = 1 .. Len(toWorker[t])
      /\ Head(toWorker[t]) = toWorker[t][1]
      /\ Tail(toWorker[t]) \in Seq(Events)
      /\ DOMAIN Tail(toWorker[t]) = 1 .. Len(toWorker[t]) - 1
      /\ Len(Tail(toWorker[t])) = Len(toWorker[t]) - 1
      /\ \A i \in 1 .. Len(toWorker[t]) - 1 : Tail(toWorker[t])[i] = toWorker[t][i + 1]
  BY <1>1, TailShape, ElementShape
<1>3. toWorker'[t] = Tail(toWorker[t])
      /\ \A s \in Tabs : s # t => toWorker'[s] = toWorker[s]
  BY <1>1
<1>4. toWorker' \in [Tabs -> Seq(Events)]
  BY <1>1, <1>2
<1>5. DOMAIN toWorker'[t] = 1 .. Len(toWorker[t]) - 1
  BY <1>2, <1>3
<1>6. \A i \in DOMAIN toWorker'[t] :
        /\ i \in Nat /\ i + 1 \in DOMAIN toWorker[t] /\ i + 1 # 1
        /\ toWorker'[t][i] = toWorker[t][i + 1]
  BY <1>2, <1>3, <1>5
<1>7. \A i \in DOMAIN toWorker[t] :
        i # 1 => i - 1 \in DOMAIN toWorker'[t] /\ toWorker'[t][i - 1] = toWorker[t][i]
  BY <1>2, <1>3, <1>5
<1>8. 1 \in DOMAIN toWorker[t]
  BY <1>2
<1>9. toWorker' \in [Tabs -> Seq([type : {"attached", "refused", "detached"}, user : Users])]
  BY <1>4 DEF Events
<1>10. QED
  BY <1>2, <1>3, <1>6, <1>7, <1>8, <1>9 DEF Events

\* The answer is that of the only user who is attaching, and there is no
\* session; an attachment that is already over is followed by its event.
LEMMA AttachedStep ==
  ASSUME IInv, NEW t \in Tabs, Attached(t)
  PROVE  IInv'
<1> DEFINE u == Head(toWorker[t]).user
<1>1. /\ TypeOK /\ TabOK(t) /\ toWorker[t] # <<>>
      /\ Head(toWorker[t]).type \in {"attached", "refused"}
      /\ toWorker' = [toWorker EXCEPT ![t] = Tail(@)]
      /\ UNCHANGED <<target, toBrowser, attached, lost>>
  BY DEF IInv, Attached
<1>2. /\ toWorker' \in [Tabs -> Seq([type : {"attached", "refused", "detached"}, user : Users])]
      /\ \A s \in Tabs : s # t => toWorker'[s] = toWorker[s]
      /\ 1 \in DOMAIN toWorker[t] /\ Head(toWorker[t]) = toWorker[t][1]
      /\ \A i \in DOMAIN toWorker'[t] :
           /\ i \in Nat /\ i + 1 \in DOMAIN toWorker[t] /\ i + 1 # 1
           /\ toWorker'[t][i] = toWorker[t][i + 1]
      /\ \A i \in DOMAIN toWorker[t] :
           i # 1 => i - 1 \in DOMAIN toWorker'[t] /\ toWorker'[t][i - 1] = toWorker[t][i]
  BY <1>1, TakenShape
<1>3. Answers(t) = {1}
  BY <1>1, <1>2 DEF TabOK, WireOK, Answers
<1>4. /\ toBrowser[t] = <<>> /\ u \in Users /\ TabOf[u] = t /\ pc[u] = "attaching"
      /\ u # None
      /\ Head(toWorker[t]).type = "attached" =>
           attached[t] = IF 1 = Len(toWorker[t]) THEN u ELSE None
  BY <1>1, <1>2, <1>3, WireShape, UsersAssumption DEF TabOK, WireOK
<1>5. /\ target[u] = u /\ sessions[t] = NoSession /\ sessions[t].target = None
      /\ \A v \in Users : TabOf[v] = t /\ v # u => pc[v] # "attaching" /\ (pc[v] = "holding" => target[v] # u)
  <2>1. UserOK(u) /\ sessions[t] = NoSession
    BY <1>1, <1>4 DEF TabOK, SessionOK
  <2>2. ASSUME NEW v \in Users, TabOf[v] = t, v # u
        PROVE  pc[v] # "attaching" /\ target[v] # u
    <3>1. UserOK(v)
      BY <1>1, <2>2 DEF TabOK
    <3>2. QED
      BY <1>4, <2>1, <2>2, <3>1 DEF UserOK
  <2>3. QED
    BY <1>4, <2>1, <2>2 DEF UserOK, NoSession
<1>6. Answers(t)' = {} /\ \A i \in DOMAIN toWorker'[t] : toWorker'[t][i].type = "detached"
  BY <1>2, <1>3 DEF Answers
<1>7. PICK p \in {"holding", "failed"} :
        /\ p = "holding" <=> Head(toWorker[t]).type = "attached"
        /\ pc' = [pc EXCEPT ![u] = p]
        /\ sessions' = [sessions EXCEPT ![t] =
             IF p = "holding" THEN [target |-> u, refCount |-> 1, detached |-> FALSE]
                              ELSE NoSession]
  <2>1. sessions = [sessions EXCEPT ![t] = NoSession]
    BY <1>1, <1>5 DEF TypeOK
  <2>2. QED
    BY <1>1, <1>5, <2>1 DEF Attached
<1>8. /\ pc'[u] = p /\ \A v \in Users : v # u => pc'[v] = pc[v]
      /\ \A s \in Tabs : s # t => sessions'[s] = sessions[s]
      /\ sessions'[t] = IF p = "holding" THEN [target |-> u, refCount |-> 1, detached |-> FALSE]
                                         ELSE NoSession
  BY <1>1, <1>4, <1>7 DEF TypeOK
<1>9. TypeOK'
  <2>1. sessions' \in [Tabs -> {NoSession} \cup
                         [target : Users, refCount : Nat \ {0}, detached : BOOLEAN]]
    BY <1>1, <1>4, <1>7 DEF TypeOK
  <2>2. pc' \in [Users -> {"new", "attaching", "holding", "done", "failed"}]
    BY <1>1, <1>7 DEF TypeOK
  <2>3. QED
    BY <1>1, <1>2, <2>1, <2>2 DEF TypeOK
<1>10. ASSUME NEW s \in Tabs, s # t
       PROVE  TabOK(s)'
  BY <1>1, <1>2, <1>4, <1>8, <1>10, Elsewhere DEF IInv
<1>11. ASSUME NEW v \in Users, TabOf[v] = t
       PROVE  UserOK(v)'
  <2>1. UserOK(v)
    BY <1>1, <1>11 DEF TabOK
  <2>2. target[v] \notin {None, v} => target[v] # u /\ target[v] \in Users
    BY <1>1, <1>4, <2>1 DEF UserOK, TypeOK
  <2>3. QED
    BY <1>1, <1>4, <1>5, <1>8, <1>11, <2>1, <2>2 DEF UserOK
<1>12. WireOK(t)'
  BY <1>1, <1>4, <1>6, WireShape DEF WireOK
<1>13. CASE p = "holding"
  <2>1. /\ sessions'[t] = [target |-> u, refCount |-> 1, detached |-> FALSE]
        /\ sessions'[t].target = u /\ sessions'[t].refCount = 1 /\ ~sessions'[t].detached
        /\ attached'[t] = IF 1 = Len(toWorker[t]) THEN u ELSE None
    BY <1>1, <1>4, <1>7, <1>8, <1>13
  <2>2. (\E i \in DOMAIN toWorker'[t] : TRUE) <=> Len(toWorker[t]) # 1
    <3>1. Len(toWorker[t]) \in Nat /\ DOMAIN toWorker[t] = 1 .. Len(toWorker[t])
      BY <1>1, WireShape
    <3>2. CASE Len(toWorker[t]) = 1
      BY <1>2, <3>1, <3>2
    <3>3. CASE Len(toWorker[t]) # 1
      <4>1. 2 \in DOMAIN toWorker[t]
        <5> DEFINE n == Len(toWorker[t])
        <5>1. n \in Nat /\ DOMAIN toWorker[t] = 1 .. n /\ 1 \in 1 .. n /\ n # 1
          BY <1>2, <3>1, <3>3
        <5> HIDE DEF n
        <5>2. 2 \in 1 .. n
          BY <5>1
        <5>3. QED
          BY <5>1, <5>2
      <4>2. 2 - 1 \in DOMAIN toWorker'[t]
        BY <1>2, <4>1
      <4>3. QED
        BY <3>3, <4>2
    <3>4. QED
      BY <3>2, <3>3
  <2>3. SessionOK(t)'
    BY <1>1, <1>4, <1>5, <1>8, <1>13, <2>1, <2>2 DEF SessionOK
  <2>4. CountOK(t)'
    <3>1. Counted(t)' = {u}
      BY <1>1, <1>4, <1>5, <1>8, <1>13, <2>1 DEF Counted
    <3>2. QED
      BY <2>1, <3>1, FS_Singleton DEF CountOK
  <2>5. FollowOK(t)'
    BY <1>1, <1>4, <1>6, <2>1, <2>2 DEF FollowOK
  <2>6. QED
    BY <1>9, <1>10, <1>11, <1>12, <2>3, <2>4, <2>5 DEF IInv, TabOK
<1>14. CASE p = "failed"
  <2>1. attached[t] = None
    <3>1. ~\E i \in DOMAIN toWorker[t] : toWorker[t][i] = Message("attached", attached[t])
      <4>1. ASSUME NEW i \in DOMAIN toWorker[t], toWorker[t][i] = Message("attached", attached[t])
            PROVE  FALSE
        <5>1. toWorker[t][i].type = "attached"
          BY <4>1 DEF Message
        <5>2. i \in Answers(t)
          BY <5>1 DEF Answers
        <5>3. QED
          BY <1>2, <1>3, <1>7, <1>14, <5>1, <5>2
      <4>2. QED
        BY <4>1
    <3>2. ~\E i \in DOMAIN toBrowser[t] : toBrowser[t][i].type = "detach"
      BY <1>1, <1>4, WireShape
    <3>3. QED
      BY <1>1, <1>5, <3>1, <3>2 DEF TabOK, FollowOK
  <2>2. sessions'[t] = NoSession /\ attached'[t] = None
    BY <1>1, <1>8, <1>14, <2>1
  <2>3. SessionOK(t)' /\ CountOK(t)' /\ FollowOK(t)'
    BY <2>2 DEF SessionOK, CountOK, FollowOK, Usable
  <2>4. QED
    BY <1>9, <1>10, <1>11, <1>12, <2>3 DEF IInv, TabOK
<1>15. QED
  BY <1>13, <1>14

\* The event of the end of an attachment marks its session.
LEMMA OnDetachStep ==
  ASSUME IInv, NEW t \in Tabs, OnDetach(t)
  PROVE  IInv'
<1>1. /\ TypeOK /\ TabOK(t) /\ toWorker[t] # <<>> /\ Head(toWorker[t]).type = "detached"
      /\ toWorker' = [toWorker EXCEPT ![t] = Tail(@)]
      /\ sessions' = [sessions EXCEPT ![t] = Marked(@)]
      /\ UNCHANGED <<pc, target, toBrowser, attached, lost>>
  BY DEF IInv, OnDetach
<1>2. /\ toWorker' \in [Tabs -> Seq([type : {"attached", "refused", "detached"}, user : Users])]
      /\ \A s \in Tabs : s # t => toWorker'[s] = toWorker[s]
      /\ 1 \in DOMAIN toWorker[t] /\ Head(toWorker[t]) = toWorker[t][1]
      /\ Len(toWorker'[t]) = Len(toWorker[t]) - 1
      /\ \A i \in DOMAIN toWorker'[t] :
           /\ i \in Nat /\ i + 1 \in DOMAIN toWorker[t] /\ i + 1 # 1
           /\ toWorker'[t][i] = toWorker[t][i + 1]
      /\ \A i \in DOMAIN toWorker[t] :
           i # 1 => i - 1 \in DOMAIN toWorker'[t] /\ toWorker'[t][i - 1] = toWorker[t][i]
  BY <1>1, TakenShape
<1>3. /\ sessions'[t] = Marked(sessions[t])
      /\ \A s \in Tabs : s # t => sessions'[s] = sessions[s]
  BY <1>1 DEF TypeOK
<1>4. /\ sessions'[t] = NoSession <=> sessions[t] = NoSession
      /\ sessions'[t].target = sessions[t].target
      /\ sessions'[t].refCount = sessions[t].refCount
      /\ ~Usable(sessions'[t])
      /\ sessions'[t] \in {NoSession} \cup [target : Users, refCount : Nat \ {0}, detached : BOOLEAN]
  <2>1. CASE sessions[t] = NoSession
    BY <1>3, <2>1 DEF Marked, Usable
  <2>2. CASE sessions[t] \in [target : Users, refCount : Nat \ {0}, detached : BOOLEAN]
             /\ sessions[t] # NoSession
    <3>1. sessions'[t] = [sessions[t] EXCEPT !.detached = TRUE]
      BY <1>3, <2>2 DEF Marked
    <3>2. /\ sessions'[t].target = sessions[t].target
          /\ sessions'[t].refCount = sessions[t].refCount /\ sessions'[t].detached
          /\ sessions'[t] \in [target : Users, refCount : Nat \ {0}, detached : BOOLEAN]
      BY <2>2, <3>1
    <3>3. sessions'[t] # NoSession
      BY <3>2 DEF NoSession
    <3>4. QED
      BY <2>2, <3>2, <3>3 DEF Usable
  <2>3. QED
    BY <1>1, <2>1, <2>2 DEF TypeOK
<1>5. TypeOK'
  <2>1. sessions' \in [Tabs -> {NoSession} \cup
                         [target : Users, refCount : Nat \ {0}, detached : BOOLEAN]]
    BY <1>1, <1>3, <1>4 DEF TypeOK
  <2>2. QED
    BY <1>1, <1>2, <2>1 DEF TypeOK
<1>6. ASSUME NEW s \in Tabs, s # t
      PROVE  TabOK(s)'
  BY <1>1, <1>2, <1>3, <1>6, Elsewhere DEF IInv
<1>7. ASSUME NEW v \in Users, TabOf[v] = t
      PROVE  UserOK(v)'
  BY <1>1, <1>7 DEF TabOK, UserOK
<1>8. /\ \A i \in Answers(t)' : i \in Nat /\ i + 1 \in Answers(t) /\ toWorker'[t][i] = toWorker[t][i + 1]
      /\ \A i \in Answers(t) : i - 1 \in Answers(t)'
  BY <1>1, <1>2 DEF Answers
<1>9. WireOK(t)'
  <2>1. Len(toWorker[t]) \in Nat
    BY <1>1, WireShape
  <2>2. \A i, j \in Answers(t)' : i = j
    <3>1. \A i, j \in Answers(t) : i = j
      BY <1>1 DEF TabOK, WireOK
    <3>2. QED
      BY <1>8, <3>1
  <2>3. ASSUME NEW i \in Answers(t)'
        PROVE  /\ toBrowser[t] = <<>>
               /\ TabOf[toWorker'[t][i].user] = t /\ pc[toWorker'[t][i].user] = "attaching"
               /\ toWorker'[t][i].type = "attached" =>
                    attached[t] = IF i = Len(toWorker'[t]) THEN toWorker'[t][i].user ELSE None
    <3>1. /\ i \in Nat /\ i + 1 \in Answers(t) /\ toWorker'[t][i] = toWorker[t][i + 1]
          /\ i = Len(toWorker'[t]) <=> i + 1 = Len(toWorker[t])
      BY <1>2, <1>8, <2>1, <2>3
    <3>2. /\ toBrowser[t] = <<>>
          /\ TabOf[toWorker[t][i + 1].user] = t /\ pc[toWorker[t][i + 1].user] = "attaching"
          /\ toWorker[t][i + 1].type = "attached" =>
               attached[t] = IF i + 1 = Len(toWorker[t]) THEN toWorker[t][i + 1].user ELSE None
      BY <1>1, <3>1 DEF TabOK, WireOK
    <3>3. QED
      BY <3>1, <3>2
  <2>4. QED
    BY <1>1, <2>2, <2>3 DEF TabOK, WireOK
<1>10. SessionOK(t)'
  <2>1. sessions[t] # NoSession => attached[t] = None
    BY <1>1, <1>2 DEF TabOK, SessionOK
  <2>2. Answers(t) # {} => Answers(t)' # {}
    BY <1>8
  <2>3. QED
    BY <1>1, <1>4, <2>1, <2>2 DEF TabOK, SessionOK
<1>11. CountOK(t)'
  <2>1. Counted(t)' = Counted(t)
    BY <1>1, <1>4 DEF Counted
  <2>2. QED
    BY <1>1, <1>4, <2>1 DEF TabOK, CountOK
<1>12. FollowOK(t)'
  <2>1. ASSUME NEW i \in DOMAIN toWorker[t], toWorker[t][i] = Message("attached", attached[t])
        PROVE  \E j \in DOMAIN toWorker'[t] : toWorker'[t][j] = Message("attached", attached[t])
    <3>1. i # 1
      BY <1>1, <1>2, <2>1 DEF Message
    <3>2. QED
      BY <1>2, <2>1, <3>1
  <2>2. QED
    BY <1>1, <1>4, <2>1 DEF TabOK, FollowOK
<1>13. QED
  BY <1>5, <1>6, <1>7, <1>9, <1>10, <1>11, <1>12 DEF IInv, TabOK

\* The last user takes the session away; the browser is asked to detach
\* unless it did already.
LEMMA ReleaseStep ==
  ASSUME IInv, NEW u \in Users, Release(u)
  PROVE  IInv'
<1> DEFINE t == TabOf[u]
           s == sessions[t]
<1>1. /\ t \in Tabs /\ TypeOK /\ TabOK(t) /\ pc[u] = "holding"
      /\ pc' = [pc EXCEPT ![u] = "done"]
      /\ UNCHANGED <<target, toWorker, attached, lost>>
  BY UsersAssumption DEF IInv, Release
<1>2. pc'[u] = "done" /\ \A v \in Users : v # u => pc'[v] = pc[v]
  BY <1>1 DEF TypeOK
<1>3. ASSUME NEW v \in Users, TabOf[v] = t
      PROVE  UserOK(v)'
  <2>1. UserOK(v) /\ target[v] \in Users \cup {None}
    BY <1>1, <1>3 DEF TabOK, TypeOK
  <2>2. QED
    BY <1>1, <1>2, <1>3, <2>1 DEF UserOK
<1>4. ASSUME toBrowser'[t] = toBrowser[t]
      PROVE  WireOK(t)'
  BY <1>1, <1>2, <1>4, WireShape DEF TabOK, WireOK, Answers
<1>5. attached[t] \in Users \cup {None} /\ IsFiniteSet(Counted(t)) /\ Cardinality(Counted(t)) \in Nat
  <2>1. IsFiniteSet(Counted(t))
    BY UsersAssumption, FS_Subset DEF Counted
  <2>2. QED
    BY <1>1, <2>1, FS_CardinalityType DEF TypeOK
<1>6. CASE ~Owns(s, u)
  <2>1. UNCHANGED <<sessions, toBrowser>>
    BY <1>1, <1>6 DEF Release, TypeOK
  <2>2. TypeOK'
    BY <1>1, <2>1 DEF TypeOK
  <2>3. ASSUME NEW o \in Tabs, o # t
        PROVE  TabOK(o)'
    BY <1>1, <1>2, <2>1, <2>3, Elsewhere DEF IInv
  <2>4. SessionOK(t)'
    BY <1>1, <1>2, <1>5, <2>1, SessionShape DEF TabOK, SessionOK, Answers
  <2>5. CountOK(t)'
    <3>1. sessions[t] # NoSession => Counted(t)' = Counted(t)
      BY <1>1, <1>2, <1>6, <2>1 DEF Counted, Owns
    <3>2. QED
      BY <1>1, <2>1, <3>1 DEF TabOK, CountOK
  <2>6. FollowOK(t)'
    BY <1>1, <2>1 DEF TabOK, FollowOK, Usable
  <2>7. QED
    BY <1>3, <1>4, <2>1, <2>2, <2>3, <2>4, <2>5, <2>6 DEF IInv, TabOK
<1>7. CASE Owns(s, u)
  <2>1. /\ s # NoSession /\ s.target = target[u] /\ s.target \in Users /\ s.target # None
        /\ s.refCount \in Nat \ {0} /\ s.detached \in BOOLEAN
        /\ s \in [target : Users, refCount : Nat \ {0}, detached : BOOLEAN]
        /\ u \in Counted(t) /\ s.refCount = Cardinality(Counted(t))
    <3>1. s # NoSession /\ s.target = target[u]
      BY <1>7 DEF Owns
    <3>2. /\ s.target \in Users /\ s.target # None
          /\ s.refCount \in Nat \ {0} /\ s.detached \in BOOLEAN
      BY <1>1, <3>1, SessionShape
    <3>3. s \in [target : Users, refCount : Nat \ {0}, detached : BOOLEAN]
      BY <1>1, <3>1 DEF TypeOK
    <3>4. u \in Counted(t) /\ s.refCount = Cardinality(Counted(t))
      BY <1>1, <3>1 DEF Counted, TabOK, CountOK
    <3>5. QED
      BY <3>1, <3>2, <3>3, <3>4
  <2>2. /\ toBrowser[t] = <<>> /\ Answers(t) = {}
        /\ \A v \in Users : TabOf[v] = t => pc[v] # "attaching"
    <3>1. toBrowser[t] = <<>> /\ \A v \in Users : TabOf[v] = t => pc[v] # "attaching"
      BY <1>1, <2>1 DEF TabOK, SessionOK
    <3>2. Answers(t) = {}
      BY <1>1, <3>1, WireShape DEF TabOK, WireOK, Answers
    <3>3. QED
      BY <3>1, <3>2
  <2>3. CASE ~Last(s)
    <3>1. /\ sessions' = [sessions EXCEPT ![t] = [s EXCEPT !.refCount = @ - 1]]
          /\ UNCHANGED toBrowser
      BY <1>1, <1>7, <2>3 DEF Release
    <3>2. /\ sessions'[t] = [s EXCEPT !.refCount = @ - 1]
          /\ \A o \in Tabs : o # t => sessions'[o] = sessions[o]
      BY <1>1, <3>1 DEF TypeOK
    <3>3. s.refCount - 1 \in Nat \ {0}
      BY <2>1, <2>3 DEF Last
    <3>4. /\ sessions'[t].target = s.target /\ sessions'[t].detached = s.detached
          /\ sessions'[t].refCount = s.refCount - 1
          /\ sessions'[t] \in [target : Users, refCount : Nat \ {0}, detached : BOOLEAN]
      BY <2>1, <3>2, <3>3
    <3>5. sessions'[t] # NoSession
      BY <2>1, <3>4 DEF NoSession
    <3>6. TypeOK'
      <4>1. sessions' \in [Tabs -> {NoSession} \cup
                             [target : Users, refCount : Nat \ {0}, detached : BOOLEAN]]
        BY <1>1, <3>1, <3>2, <3>4 DEF TypeOK
      <4>2. QED
        BY <1>1, <3>1, <4>1 DEF TypeOK
    <3>7. ASSUME NEW o \in Tabs, o # t
          PROVE  TabOK(o)'
      BY <1>1, <1>2, <3>1, <3>2, <3>7, Elsewhere DEF IInv
    <3>8. SessionOK(t)'
      BY <1>1, <1>2, <1>5, <2>1, <2>2, <3>1, <3>4, <3>5 DEF TabOK, SessionOK
    <3>9. CountOK(t)'
      <4>1. Counted(t)' = Counted(t) \ {u}
        BY <1>1, <1>2, <3>4 DEF Counted
      <4>2. Cardinality(Counted(t) \ {u}) = Cardinality(Counted(t)) - 1
        BY <1>5, <2>1, FS_RemoveElement
      <4>3. QED
        BY <2>1, <3>4, <4>1, <4>2 DEF CountOK
    <3>10. FollowOK(t)'
      BY <1>1, <2>1, <3>1, <3>4, <3>5 DEF TabOK, FollowOK, Usable
    <3>11. QED
      BY <1>3, <1>4, <3>1, <3>6, <3>7, <3>8, <3>9, <3>10 DEF IInv, TabOK
  <2>4. CASE Last(s)
    <3>1. /\ sessions' = [sessions EXCEPT ![t] = NoSession]
          /\ toBrowser' = IF s.detached THEN toBrowser
                          ELSE [toBrowser EXCEPT ![t] = Append(@, Message("detach", u))]
      BY <1>1, <1>7, <2>4 DEF Release
    <3>2. /\ sessions'[t] = NoSession
          /\ \A o \in Tabs : o # t => sessions'[o] = sessions[o] /\ toBrowser'[o] = toBrowser[o]
          /\ toBrowser'[t] = IF s.detached THEN <<>> ELSE <<Message("detach", u)>>
      BY <1>1, <2>2, <3>1 DEF TypeOK
    <3>3. /\ Message("detach", u) \in [type : {"attach", "detach"}, user : Users]
          /\ Message("detach", u).type = "detach"
      BY DEF Message
    <3>4. TypeOK'
      <4>1. Append(toBrowser[t], Message("detach", u)) \in Seq([type : {"attach", "detach"}, user : Users])
        BY <1>1, <3>3, WireShape, AppendShape
      <4>2. toBrowser' \in [Tabs -> Seq([type : {"attach", "detach"}, user : Users])]
        BY <1>1, <3>1, <4>1 DEF TypeOK
      <4>3. QED
        BY <1>1, <3>1, <4>2 DEF TypeOK
    <3>5. ASSUME NEW o \in Tabs, o # t
          PROVE  TabOK(o)'
      BY <1>1, <1>2, <3>2, <3>5, Elsewhere DEF IInv
    <3>6. Counted(t) = {u}
      <4>1. Cardinality(Counted(t)) = 1
        BY <2>1, <2>4 DEF Last
      <4>2. QED
        BY <1>5, <2>1, <4>1, FS_Singleton
    <3>7. WireOK(t)'
      <4>1. Answers(t)' = {}
        BY <1>1, <2>2 DEF Answers
      <4>2. \A i \in DOMAIN toBrowser'[t] : toBrowser'[t][i].type # "attach"
        BY <3>2, <3>3
      <4>3. QED
        BY <4>1, <4>2 DEF WireOK
    <3>8. attached[t] # None =>
            \A v \in Users : ~(TabOf[v] = t /\ pc'[v] = "holding" /\ target[v] = attached[t])
      <4>1. SUFFICES ASSUME attached[t] # None, NEW v \in Users,
                            TabOf[v] = t, pc'[v] = "holding", target[v] = attached[t]
                     PROVE  FALSE
        OBVIOUS
      <4>2. v # u /\ pc[v] = "holding"
        BY <1>2, <4>1
      <4>3. s.target = attached[t]
        BY <1>1, <4>1, <4>2 DEF TabOK, SessionOK
      <4>4. v \in Counted(t)
        BY <4>1, <4>2, <4>3 DEF Counted
      <4>5. QED
        BY <3>6, <4>2, <4>4
    <3>9. SessionOK(t)'
      BY <1>1, <1>2, <1>5, <2>2, <3>2, <3>8 DEF TabOK, SessionOK
    <3>10. CountOK(t)'
      BY <3>2 DEF CountOK
    <3>11. FollowOK(t)'
      <4>1. attached[t] # None => ~s.detached
        BY <1>1, <2>1 DEF TabOK, SessionOK
      <4>2. attached[t] # None => 1 \in DOMAIN toBrowser'[t] /\ toBrowser'[t][1].type = "detach"
        BY <3>2, <3>3, <4>1
      <4>3. toBrowser'[t] # <<>> => Head(toBrowser'[t]).type = "detach"
        BY <3>2, <3>3
      <4>4. QED
        BY <1>1, <3>2, <4>2, <4>3 DEF FollowOK, Usable
    <3>12. QED
      BY <1>3, <3>4, <3>5, <3>7, <3>9, <3>10, <3>11 DEF IInv, TabOK
  <2>5. QED
    BY <2>3, <2>4
<1>8. QED
  BY <1>6, <1>7

\* The browser detaches a tab whose users have all left.
LEMMA BrowserDetachStep ==
  ASSUME IInv, NEW t \in Tabs, BrowserDetach(t)
  PROVE  IInv'
<1>1. /\ TypeOK /\ TabOK(t) /\ toBrowser[t] # <<>>
      /\ toBrowser' = [toBrowser EXCEPT ![t] = Tail(@)]
      /\ attached' = [attached EXCEPT ![t] = None]
      /\ UNCHANGED <<pc, target, sessions, toWorker, lost>>
  BY DEF IInv, BrowserDetach
<1>2. /\ toBrowser'[t] = Tail(toBrowser[t]) /\ attached'[t] = None
      /\ \A s \in Tabs : s # t => toBrowser'[s] = toBrowser[s] /\ attached'[s] = attached[s]
  BY <1>1 DEF TypeOK
<1>3. Answers(t)' = {} /\ sessions'[t] = NoSession
  BY <1>1 DEF TabOK, WireOK, SessionOK, Answers
<1>4. /\ Tail(toBrowser[t]) \in Seq([type : {"attach", "detach"}, user : Users])
      /\ Len(toBrowser[t]) \in Nat /\ Len(Tail(toBrowser[t])) = Len(toBrowser[t]) - 1
      /\ DOMAIN Tail(toBrowser[t]) = 1 .. Len(toBrowser[t]) - 1
      /\ DOMAIN toBrowser[t] = 1 .. Len(toBrowser[t])
      /\ \A i \in 1 .. Len(toBrowser[t]) - 1 : Tail(toBrowser[t])[i] = toBrowser[t][i + 1]
  <2>1. /\ toBrowser[t] \in Seq([type : {"attach", "detach"}, user : Users])
        /\ Len(toBrowser[t]) \in Nat /\ DOMAIN toBrowser[t] = 1 .. Len(toBrowser[t])
    BY <1>1, WireShape
  <2>2. QED
    BY <1>1, <2>1, TailShape
<1>5. TypeOK'
  <2>1. toBrowser' \in [Tabs -> Seq([type : {"attach", "detach"}, user : Users])]
    BY <1>1, <1>4 DEF TypeOK
  <2>2. QED
    BY <1>1, <2>1 DEF TypeOK
<1>6. ASSUME NEW s \in Tabs, s # t
      PROVE  TabOK(s)'
  BY <1>1, <1>2, <1>6, Elsewhere DEF IInv
<1>7. ASSUME NEW v \in Users, TabOf[v] = t
      PROVE  UserOK(v)'
  BY <1>1, <1>7 DEF TabOK, UserOK
<1>8. WireOK(t)'
  <2>1. SUFFICES ASSUME NEW i \in DOMAIN toBrowser'[t], toBrowser'[t][i].type = "attach"
                 PROVE  /\ i = Len(toBrowser'[t])
                        /\ TabOf[toBrowser'[t][i].user] = t /\ pc[toBrowser'[t][i].user] = "attaching"
    BY <1>1, <1>3 DEF WireOK
  <2>2. /\ i \in Nat /\ i + 1 \in DOMAIN toBrowser[t] /\ toBrowser'[t][i] = toBrowser[t][i + 1]
        /\ i = Len(toBrowser'[t]) <=> i + 1 = Len(toBrowser[t])
    BY <1>2, <1>4, <2>1
  <2>3. QED
    BY <1>1, <2>1, <2>2 DEF TabOK, WireOK
<1>9. SessionOK(t)' /\ CountOK(t)' /\ FollowOK(t)'
  BY <1>2, <1>3 DEF SessionOK, CountOK, FollowOK, Usable
<1>10. QED
  BY <1>5, <1>6, <1>7, <1>8, <1>9 DEF IInv, TabOK

\* An attachment that the browser ends is followed by its event.
LEMMA LoseStep ==
  ASSUME IInv, NEW t \in Tabs, Lose(t)
  PROVE  IInv'
<1> DEFINE m == Message("detached", attached[t])
<1>1. /\ TypeOK /\ TabOK(t) /\ attached[t] \in Users
      /\ attached' = [attached EXCEPT ![t] = None]
      /\ lost' = lost \cup {attached[t]}
      /\ toWorker' = [toWorker EXCEPT ![t] = Append(@, m)]
      /\ UNCHANGED <<pc, target, sessions, toBrowser>>
  BY DEF IInv, Lose, TypeOK
<1>2. /\ m \in [type : {"attached", "refused", "detached"}, user : Users] /\ m.type = "detached"
  BY <1>1 DEF Message
<1>3. /\ toWorker'[t] = Append(toWorker[t], m) /\ attached'[t] = None
      /\ \A s \in Tabs : s # t => toWorker'[s] = toWorker[s] /\ attached'[s] = attached[s]
  BY <1>1 DEF TypeOK
<1> HIDE DEF m
<1>4. /\ DOMAIN toWorker[t] = 1 .. Len(toWorker[t]) /\ Len(toWorker[t]) \in Nat
      /\ toWorker'[t] \in Seq([type : {"attached", "refused", "detached"}, user : Users])
      /\ Len(toWorker'[t]) = Len(toWorker[t]) + 1
      /\ DOMAIN toWorker'[t] = 1 .. Len(toWorker[t]) + 1
      /\ \A i \in 1 .. Len(toWorker[t]) : toWorker'[t][i] = toWorker[t][i]
      /\ toWorker'[t][Len(toWorker[t]) + 1] = m
  <2>1. toWorker[t] \in Seq([type : {"attached", "refused", "detached"}, user : Users])
    BY <1>1, WireShape
  <2>2. QED
    BY <1>2, <1>3, <2>1, AppendShape
<1>5. TypeOK'
  <2>1. toWorker' \in [Tabs -> Seq([type : {"attached", "refused", "detached"}, user : Users])]
    BY <1>1, <1>3, <1>4 DEF TypeOK
  <2>2. QED
    BY <1>1, <2>1 DEF TypeOK
<1>6. ASSUME NEW s \in Tabs, s # t
      PROVE  TabOK(s)'
  BY <1>1, <1>3, <1>6, Elsewhere DEF IInv
<1>7. ASSUME NEW v \in Users, TabOf[v] = t
      PROVE  UserOK(v)'
  BY <1>1, <1>7 DEF TabOK, UserOK
<1>8. Answers(t)' = Answers(t)
  BY <1>2, <1>4 DEF Answers
<1>9. WireOK(t)'
  <2>1. ASSUME NEW i \in Answers(t)
        PROVE  toWorker'[t][i] = toWorker[t][i] /\ i # Len(toWorker'[t])
    BY <1>4 DEF Answers
  <2>2. \A i \in Answers(t) :
          /\ toBrowser[t] = <<>>
          /\ TabOf[toWorker[t][i].user] = t /\ pc[toWorker[t][i].user] = "attaching"
          /\ \A j \in Answers(t) : i = j
    BY <1>1 DEF TabOK, WireOK
  <2>3. \A i \in DOMAIN toBrowser[t] : toBrowser[t][i].type = "attach" =>
          /\ i = Len(toBrowser[t])
          /\ TabOf[toBrowser[t][i].user] = t /\ pc[toBrowser[t][i].user] = "attaching"
    BY <1>1 DEF TabOK, WireOK
  <2>4. ASSUME NEW i \in Answers(t)'
        PROVE  /\ (toBrowser[t] = <<>>)'
               /\ TabOf[toWorker'[t][i].user] = t /\ pc'[toWorker'[t][i].user] = "attaching"
               /\ \A j \in Answers(t)' : i = j
               /\ attached'[t] = IF i = Len(toWorker'[t]) THEN toWorker'[t][i].user ELSE None
    <3>1. i \in Answers(t)
      BY <1>8, <2>4
    <3>2. toWorker'[t][i] = toWorker[t][i] /\ i # Len(toWorker'[t])
      BY <2>1, <3>1
    <3>3. \A j \in Answers(t)' : i = j
      BY <1>8, <2>2, <3>1
    <3>4. QED
      BY <1>1, <1>3, <2>2, <3>1, <3>2, <3>3
  <2>5. QED
    BY <1>1, <2>3, <2>4 DEF WireOK
<1>10. SessionOK(t)' /\ FollowOK(t)'
  <2>1. \E i \in DOMAIN toWorker'[t] : toWorker'[t][i].type = "detached"
    BY <1>2, <1>4
  <2>2. QED
    BY <1>1, <1>3, <2>1 DEF TabOK, SessionOK, FollowOK
<1>11. CountOK(t)'
  <2>1. Counted(t)' = Counted(t)
    BY <1>1 DEF Counted
  <2>2. QED
    BY <1>1, <2>1 DEF TabOK, CountOK
<1>12. QED
  BY <1>5, <1>6, <1>7, <1>9, <1>10, <1>11 DEF IInv, TabOK

(***************************************************************************)
(* The invariant.                                                          *)
(***************************************************************************)

\* Nobody has acquired a debugger yet.
LEMMA InitIInv == Init => IInv
<1> SUFFICES ASSUME Init PROVE IInv
  OBVIOUS
<1>1. TypeOK
  BY DEF Init, TypeOK
<1>2. ASSUME NEW t \in Tabs
      PROVE  TabOK(t)
  <2>1. /\ sessions[t] = NoSession /\ toBrowser[t] = <<>> /\ toWorker[t] = <<>>
        /\ attached[t] = None /\ Answers(t) = {}
    BY DEF Init, Answers
  <2>2. \A u \in Users : UserOK(u)
    BY DEF Init, UserOK
  <2>3. QED
    BY <2>1, <2>2 DEF TabOK, WireOK, SessionOK, CountOK, FollowOK, Usable
<1>3. QED
  BY <1>1, <1>2 DEF IInv

\* Every step keeps the invariant.
LEMMA NextIInv == IInv /\ [Next]_vars => IInv'
<1> SUFFICES ASSUME IInv, [Next]_vars
             PROVE  IInv'
  OBVIOUS
<1>1. ASSUME NEW u \in Users, Acquire(u)
      PROVE  IInv'
  BY <1>1, AcquireStep
<1>2. ASSUME NEW u \in Users, Release(u)
      PROVE  IInv'
  BY <1>2, ReleaseStep
<1>3. ASSUME NEW t \in Tabs, BrowserAttach(t)
      PROVE  IInv'
  BY <1>3, BrowserAttachStep
<1>4. ASSUME NEW t \in Tabs, Attached(t)
      PROVE  IInv'
  BY <1>4, AttachedStep
<1>5. ASSUME NEW t \in Tabs, OnDetach(t)
      PROVE  IInv'
  BY <1>5, OnDetachStep
<1>6. ASSUME NEW t \in Tabs, BrowserDetach(t)
      PROVE  IInv'
  BY <1>6, BrowserDetachStep
<1>7. ASSUME NEW t \in Tabs, Lose(t)
      PROVE  IInv'
  BY <1>7, LoseStep
<1>8. CASE UNCHANGED vars
  <2>1. TypeOK'
    BY <1>8 DEF vars, IInv, TypeOK
  <2>2. ASSUME NEW s \in Tabs
        PROVE  TabOK(s)'
    BY <1>8, <2>2, Elsewhere DEF vars, IInv
  <2>3. QED
    BY <2>1, <2>2 DEF IInv
<1>9. QED
  BY <1>1, <1>2, <1>3, <1>4, <1>5, <1>6, <1>7, <1>8 DEF Next

\* Every reachable state satisfies the invariant.
THEOREM DebuggerInvariant == Spec => []IInv
BY InitIInv, NextIInv, PTL DEF Spec

\* Sessions, requests and messages of the debuggers have their types.
THEOREM DebuggerTypes == Spec => []TypeOK
<1>1. IInv => TypeOK
  BY DEF IInv
<1>2. QED
  BY <1>1, DebuggerInvariant, PTL

\* The count of a session is the number of those who are to release it: no
\* interleaving of acquire, release and detach makes it too small, which would
\* detach under a user, or too large, which would leave a tab attached forever.
THEOREM SessionsCountTheirHolders == Spec => []CountsHolders
<1>1. IInv => CountsHolders
  BY DEF IInv, TabOK, CountsHolders
<1>2. QED
  BY <1>1, DebuggerInvariant, PTL

\* A session not marked is attached or its event is on its way, and an
\* attachment has its session, unless its answer or its end is on its way.
THEOREM SessionsKeepUpWithBrowser == Spec => []SessionsFollowBrowser
<1>1. IInv => SessionsFollowBrowser
  BY DEF IInv, TabOK, SessionsFollowBrowser
<1>2. QED
  BY <1>1, DebuggerInvariant, PTL

(***************************************************************************)
(* The refinement.                                                         *)
(***************************************************************************)

\* Who holds the attachment of a tab depends on its users and on what is
\* attached to it.
LEMMA HoldersElsewhere ==
  ASSUME NEW s \in Tabs, attached'[s] = attached[s],
         \A u \in Users : TabOf[u] = s => pc'[u] = pc[u] /\ target'[u] = target[u]
  PROVE  HoldersOf(s)' = HoldersOf(s)
BY DEF HoldersOf

\* A step that concerns one tab changes its holders only.
LEMMA HoldersAt ==
  ASSUME NEW t \in Tabs, NEW S,
         HoldersOf(t)' = S, \A s \in Tabs : s # t => HoldersOf(s)' = HoldersOf(s)
  PROVE  Holders' = [Holders EXCEPT ![t] = S]
BY DEF Holders

\* Nothing is attached at the start.
LEMMA InitLease == Init => Lease!Init
BY DEF Init, Lease!Init, Holders, HoldersOf

\* Who joins a live session joins the attachment; who asks for one stutters.
LEMMA AcquireLease ==
  ASSUME IInv, NEW u \in Users, Acquire(u)
  PROVE  [Lease!Next]_<<attached, Holders, lost>>
<1> DEFINE t == TabOf[u]
<1>1. /\ t \in Tabs /\ TypeOK /\ TabOK(t) /\ pc[u] = "new" /\ UNCHANGED <<attached, lost>>
  BY UsersAssumption DEF IInv, Acquire
<1>2. \A v \in Users : v # u => pc'[v] = pc[v] /\ target'[v] = target[v]
  BY <1>1 DEF Acquire, TypeOK
<1>3. \A s \in Tabs : s # t => HoldersOf(s)' = HoldersOf(s)
  BY <1>1, <1>2, HoldersElsewhere
<1>4. CASE Usable(sessions[t])
  <2>1. pc'[u] = "holding" /\ target'[u] = sessions[t].target
    BY <1>1, <1>4 DEF Acquire, TypeOK
  <2>2. CASE sessions[t].target = attached[t]
    <3>1. /\ sessions[t] # NoSession /\ sessions[t].target # None
          /\ sessions[t].refCount \in Nat \ {0} /\ sessions[t].refCount = Cardinality(Counted(t))
      BY <1>1, <1>4, SessionShape DEF Usable, TabOK, CountOK
    <3>2. Counted(t) # {}
      BY <3>1, FS_EmptySet
    <3>3. HoldersOf(t) # {}
      BY <2>2, <3>1, <3>2 DEF Counted, HoldersOf
    <3>4. HoldersOf(t)' = HoldersOf(t) \cup {u}
      BY <1>1, <1>2, <2>1, <2>2, <3>1 DEF HoldersOf
    <3>5. Holders' = [Holders EXCEPT ![t] = @ \cup {u}] /\ Holders[t] # {}
      <4>1. Holders' = [Holders EXCEPT ![t] = HoldersOf(t) \cup {u}]
        BY <1>1, <1>3, <3>4, HoldersAt
      <4>2. Holders[t] = HoldersOf(t)
        BY <1>1 DEF Holders
      <4>3. QED
        BY <3>3, <4>1, <4>2
    <3>6. Lease!Join(t, u)
      BY <1>1, <3>5 DEF Lease!Join
    <3>7. QED
      BY <1>1, <3>6 DEF Lease!Next
  <2>3. CASE sessions[t].target # attached[t]
    <3>1. HoldersOf(t)' = HoldersOf(t)
      BY <1>1, <1>2, <2>1, <2>3 DEF HoldersOf
    <3>2. Holders' = Holders
      BY <1>3, <3>1 DEF Holders
    <3>3. QED
      BY <1>1, <3>2
  <2>4. QED
    BY <2>2, <2>3
<1>5. CASE ~Usable(sessions[t])
  <2>1. target'[u] = u
    BY <1>1, <1>5 DEF Acquire, TypeOK
  <2>2. attached[t] # u \/ attached[t] = None
    BY <1>1 DEF TabOK, SessionOK
  <2>3. HoldersOf(t)' = HoldersOf(t)
    BY <1>1, <1>2, <2>1, <2>2 DEF HoldersOf
  <2>4. Holders' = Holders
    BY <1>3, <2>3 DEF Holders
  <2>5. QED
    BY <1>1, <2>4
<1>6. QED
  BY <1>4, <1>5

\* The attachment begins when the browser attaches: its only holder is still
\* waiting for the answer.
LEMMA BrowserAttachLease ==
  ASSUME IInv, NEW t \in Tabs, BrowserAttach(t)
  PROVE  [Lease!Next]_<<attached, Holders, lost>>
<1> DEFINE u == Head(toBrowser[t]).user
<1>1. /\ TypeOK /\ TabOK(t) /\ toBrowser[t] # <<>> /\ Head(toBrowser[t]).type = "attach"
      /\ UNCHANGED <<pc, target, lost>>
  BY DEF IInv, BrowserAttach
<1>2. CASE UNCHANGED attached
  <2>1. Holders' = Holders
    BY <1>1, <1>2 DEF Holders, HoldersOf
  <2>2. QED
    BY <1>1, <1>2, <2>1
<1>3. CASE attached[t] = None /\ attached' = [attached EXCEPT ![t] = u]
  <2>1. u \in Users /\ TabOf[u] = t /\ pc[u] = "attaching" /\ u # None
    <3>1. toBrowser[t] \in Seq([type : {"attach", "detach"}, user : Users])
      BY <1>1, WireShape
    <3>2. Head(toBrowser[t]) = toBrowser[t][1] /\ 1 \in DOMAIN toBrowser[t]
      BY <1>1, <3>1
    <3>3. QED
      BY <1>1, <3>2, WireShape, UsersAssumption DEF TabOK, WireOK
  <2>2. target[u] = u /\ \A v \in Users : TabOf[v] = t /\ v # u => target[v] # u
    <3>1. \A v \in Users : TabOf[v] = t => UserOK(v)
      BY <1>1 DEF TabOK
    <3>2. QED
      BY <2>1, <3>1 DEF UserOK
  <2>3. attached'[t] = u /\ \A s \in Tabs : s # t => attached'[s] = attached[s]
    BY <1>1, <1>3 DEF TypeOK
  <2>4. HoldersOf(t)' = {u}
    BY <1>1, <2>1, <2>2, <2>3 DEF HoldersOf
  <2>5. Holders' = [Holders EXCEPT ![t] = {u}]
    BY <1>1, <2>3, <2>4, HoldersElsewhere, HoldersAt
  <2>6. Lease!Grant(t, u)
    BY <1>1, <1>3, <2>5 DEF Lease!Grant
  <2>7. QED
    BY <2>1, <2>6 DEF Lease!Next
<1>4. QED
  BY <1>2, <1>3 DEF BrowserAttach

\* A user who stops holding leaves.
LEMMA LeaveLease ==
  ASSUME TypeOK, NEW u \in Users, NEW p \in {"done", "failed"},
         pc' = [pc EXCEPT ![u] = p], UNCHANGED <<target, attached, lost>>
  PROVE  [Lease!Next]_<<attached, Holders, lost>>
<1> DEFINE t == TabOf[u]
<1>1. t \in Tabs /\ pc'[u] = p /\ \A v \in Users : v # u => pc'[v] = pc[v]
  BY UsersAssumption DEF TypeOK
<1>2. HoldersOf(t)' = HoldersOf(t) \ {u}
  BY <1>1 DEF HoldersOf
<1>3. \A s \in Tabs : s # t => HoldersOf(s)' = HoldersOf(s)
  BY <1>1, HoldersElsewhere
<1>4. Holders' = [Holders EXCEPT ![t] = @ \ {u}]
  <2>1. Holders' = [Holders EXCEPT ![t] = HoldersOf(t) \ {u}]
    BY <1>1, <1>2, <1>3, HoldersAt
  <2>2. Holders[t] = HoldersOf(t)
    BY <1>1 DEF Holders
  <2>3. QED
    BY <2>1, <2>2
<1>5. Lease!Leave(t, u)
  BY <1>4 DEF Lease!Leave
<1>6. QED
  BY <1>1, <1>5 DEF Lease!Next

\* The answer finds its user among the holders, or makes it leave.
LEMMA AttachedLease ==
  ASSUME IInv, NEW t \in Tabs, Attached(t)
  PROVE  [Lease!Next]_<<attached, Holders, lost>>
<1> DEFINE u == Head(toWorker[t]).user
<1>1. /\ TypeOK /\ TabOK(t) /\ toWorker[t] # <<>>
      /\ Head(toWorker[t]).type \in {"attached", "refused"}
      /\ UNCHANGED <<target, attached, lost>>
  BY DEF IInv, Attached
<1>2. u \in Users /\ pc[u] = "attaching"
  <2>1. toWorker[t] \in Seq([type : {"attached", "refused", "detached"}, user : Users])
    BY <1>1, WireShape
  <2>2. Head(toWorker[t]) = toWorker[t][1] /\ 1 \in DOMAIN toWorker[t]
    BY <1>1, <2>1
  <2>3. 1 \in Answers(t)
    BY <1>1, <2>2 DEF Answers
  <2>4. QED
    BY <1>1, <2>2, <2>3, WireShape DEF TabOK, WireOK
<1>3. CASE Head(toWorker[t]).type = "attached"
  <2>1. pc' = [pc EXCEPT ![u] = "holding"]
    BY <1>3 DEF Attached
  <2>2. pc'[u] = "holding" /\ \A v \in Users : v # u => pc'[v] = pc[v]
    BY <1>1, <1>2, <2>1 DEF TypeOK
  <2>3. \A s \in Tabs : HoldersOf(s)' = HoldersOf(s)
    BY <1>1, <1>2, <2>2 DEF HoldersOf
  <2>4. Holders' = Holders
    BY <2>3 DEF Holders
  <2>5. QED
    BY <1>1, <2>4
<1>4. CASE Head(toWorker[t]).type # "attached"
  <2>1. pc' = [pc EXCEPT ![u] = "failed"]
    BY <1>4 DEF Attached
  <2>2. QED
    BY <1>1, <1>2, <2>1, LeaveLease
<1>5. QED
  BY <1>3, <1>4

\* Nobody holds an attachment that the browser is asked to end.
LEMMA BrowserDetachLease ==
  ASSUME IInv, NEW t \in Tabs, BrowserDetach(t)
  PROVE  [Lease!Next]_<<attached, Holders, lost>>
<1>1. /\ TypeOK /\ TabOK(t) /\ toBrowser[t] # <<>>
      /\ attached' = [attached EXCEPT ![t] = None]
      /\ UNCHANGED <<pc, target, lost>>
  BY DEF IInv, BrowserDetach
<1>2. sessions[t].target = None /\ Answers(t) = {}
  <2>1. sessions[t] = NoSession
    BY <1>1 DEF TabOK, SessionOK
  <2>2. QED
    BY <1>1, <2>1 DEF TabOK, WireOK, NoSession
<1>3. HoldersOf(t) = {}
  <2>1. SUFFICES ASSUME NEW v \in HoldersOf(t)
                 PROVE  FALSE
    OBVIOUS
  <2>2. /\ v \in Users /\ TabOf[v] = t /\ pc[v] \in {"attaching", "holding"}
        /\ attached[t] # None /\ target[v] = attached[t]
    BY <2>1 DEF HoldersOf
  <2>3. pc[v] # "holding"
    BY <1>1, <1>2, <2>2 DEF TabOK, SessionOK
  <2>4. target[v] = v
    BY <1>1, <2>2, <2>3 DEF TabOK, UserOK
  <2>5. QED
    BY <1>1, <1>2, <2>2, <2>3, <2>4 DEF TabOK, SessionOK
<1>4. attached'[t] = None /\ \A s \in Tabs : s # t => attached'[s] = attached[s]
  BY <1>1 DEF TypeOK
<1>5. HoldersOf(t)' = {} /\ \A s \in Tabs : s # t => HoldersOf(s)' = HoldersOf(s)
  BY <1>1, <1>4 DEF HoldersOf
<1>6. Holders' = Holders /\ Holders[t] = {}
  BY <1>3, <1>5 DEF Holders
<1>7. Lease!End(t)
  BY <1>1, <1>6 DEF Lease!End
<1>8. QED
  BY <1>7 DEF Lease!Next

\* An attachment that the browser ends has no holders any more.
LEMMA LoseLease ==
  ASSUME IInv, NEW t \in Tabs, Lose(t)
  PROVE  [Lease!Next]_<<attached, Holders, lost>>
<1>1. /\ TypeOK /\ attached[t] # None
      /\ attached' = [attached EXCEPT ![t] = None]
      /\ lost' = lost \cup {attached[t]}
      /\ UNCHANGED <<pc, target>>
  BY DEF IInv, Lose
<1>2. attached'[t] = None /\ \A s \in Tabs : s # t => attached'[s] = attached[s]
  BY <1>1 DEF TypeOK
<1>3. HoldersOf(t)' = {} /\ \A s \in Tabs : s # t => HoldersOf(s)' = HoldersOf(s)
  BY <1>1, <1>2 DEF HoldersOf
<1>4. Holders' = [Holders EXCEPT ![t] = {}]
  BY <1>3, HoldersAt
<1>5. Lease!Lose(t)
  BY <1>1, <1>4 DEF Lease!Lose
<1>6. QED
  BY <1>5 DEF Lease!Next

\* Every step of the sessions is one of the lease, or none.
LEMMA NextLease == IInv /\ [Next]_vars => [Lease!Next]_<<attached, Holders, lost>>
<1> SUFFICES ASSUME IInv, [Next]_vars
             PROVE  [Lease!Next]_<<attached, Holders, lost>>
  OBVIOUS
<1>1. ASSUME NEW u \in Users, Acquire(u)
      PROVE  [Lease!Next]_<<attached, Holders, lost>>
  BY <1>1, AcquireLease
<1>2. ASSUME NEW u \in Users, Release(u)
      PROVE  [Lease!Next]_<<attached, Holders, lost>>
  BY <1>2, LeaveLease DEF Release, IInv
<1>3. ASSUME NEW t \in Tabs,
             BrowserAttach(t) \/ Attached(t) \/ BrowserDetach(t) \/ Lose(t)
      PROVE  [Lease!Next]_<<attached, Holders, lost>>
  BY <1>3, BrowserAttachLease, AttachedLease, BrowserDetachLease, LoseLease
<1>4. ASSUME UNCHANGED <<pc, target, attached, lost>>
      PROVE  [Lease!Next]_<<attached, Holders, lost>>
  <2>1. Holders' = Holders
    BY <1>4 DEF Holders, HoldersOf
  <2>2. QED
    BY <1>4, <2>1
<1>5. QED
  BY <1>1, <1>2, <1>3, <1>4 DEF Next, OnDetach, vars

\* The debugger of a tab stays attached as long as someone uses it, unless the
\* browser ends it: the sessions implement the lease.
THEOREM SessionsImplementLease == Spec => ImplementsLease
BY InitLease, NextLease, DebuggerInvariant, PTL DEF Spec, ImplementsLease, Lease!Spec
=============================================================================
