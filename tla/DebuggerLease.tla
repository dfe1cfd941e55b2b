---------------------------- MODULE DebuggerLease ----------------------------
(***************************************************************************)
(* What the sharing of debuggers promises: a tab's debugger is attached    *)
(* for one user, whom others may join, and it stays attached until the     *)
(* last of them has left or Chromium itself ends it.                       *)
(***************************************************************************)
CONSTANTS Users, Tabs, None

VARIABLES
  lease,    \* per tab, the user it was attached for
  holders,  \* per tab, the users of this attachment
  lost      \* attachments that Chromium ended

Init ==
  /\ lease = [t \in Tabs |-> None]
  /\ holders = [t \in Tabs |-> {}]
  /\ lost = {}

Grant(t, u) ==
  /\ lease[t] = None
  /\ lease' = [lease EXCEPT ![t] = u]
  /\ holders' = [holders EXCEPT ![t] = {u}]
  /\ UNCHANGED lost

Join(t, u) ==
  /\ holders[t] # {}
  /\ holders' = [holders EXCEPT ![t] = @ \cup {u}]
  /\ UNCHANGED <<lease, lost>>

Leave(t, u) ==
  /\ holders' = [holders EXCEPT ![t] = @ \ {u}]
  /\ UNCHANGED <<lease, lost>>

\* Only an attachment nobody uses is given back.
End(t) ==
  /\ holders[t] = {}
  /\ lease' = [lease EXCEPT ![t] = None]
  /\ UNCHANGED <<holders, lost>>

Lose(t) ==
  /\ lease[t] # None
  /\ lease' = [lease EXCEPT ![t] = None]
  /\ holders' = [holders EXCEPT ![t] = {}]
  /\ lost' = lost \cup {lease[t]}

Next ==
  \E t \in Tabs :
    \/ \E u \in Users : Grant(t, u) \/ Join(t, u) \/ Leave(t, u)
    \/ End(t) \/ Lose(t)

Spec == Init /\ [][Next]_<<lease, holders, lost>>
=============================================================================
