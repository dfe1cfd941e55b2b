--------------------------- MODULE ExclusiveActions ---------------------------
(***************************************************************************)
(* What the execution queues promise to those who submit instructions: an  *)
(* instruction's actions run one after the other, each once, and have      *)
(* their tab and their browser-wide lane to themselves; a batch with       *)
(* browser input keeps all its tabs and the input from its first action to *)
(* its end; and actions that are not in a batch begin on a tab in the      *)
(* order of their instructions.  Nobody sees the waiting.                  *)
(***************************************************************************)
EXTENDS Naturals, Sequences

CONSTANTS
  Instructions,   \* in the order in which they are claimed
  Plans,          \* what an instruction may be
  Input,          \* the lane of browser input
  NoLane

VARIABLES
  plan,
  ran,        \* how many of the actions of an instruction have begun
  phase,      \* "waiting" for an action, "acting", or "over"
  scheduled   \* a reinstall is scheduled

exclusiveVars == <<plan, ran, phase, scheduled>>

Own(a) == {a.tab, a.lane} \ {NoLane}

\* What a batch keeps: its tabs and the input, if one of its actions is an input.
Kept(p) ==
  LET actions == {p.actions[k] : k \in 1 .. Len(p.actions)}
  IN IF p.batch /\ \E a \in actions : a.lane = Input
       THEN ({a.tab : a \in actions} \ {NoLane}) \cup {Input}
       ELSE {}

\* What i has to itself.
InUse(i) ==
  (IF ran[i] > 0 /\ phase[i] # "over" THEN Kept(plan[i]) ELSE {})
    \cup (IF phase[i] = "acting" THEN Own(plan[i].actions[ran[i]]) ELSE {})

Init ==
  /\ plan \in [Instructions -> Plans]
  /\ ran = [i \in Instructions |-> 0]
  /\ phase = [i \in Instructions |-> "waiting"]
  /\ scheduled = FALSE

\* The only action of k is still to come.
ToCome(k) == ~plan[k].batch /\ phase[k] = "waiting" /\ ran[k] = 0

BeginAction(i) ==
  LET a == plan[i].actions[ran[i] + 1]
  IN /\ phase[i] = "waiting" /\ ran[i] < Len(plan[i].actions)
     /\ \A k \in Instructions \ {i} : InUse(k) \cap (Own(a) \cup Kept(plan[i])) = {}
     /\ ~plan[i].batch /\ a.tab # NoLane =>
          \A k \in Instructions : k < i /\ ToCome(k) => plan[k].actions[1].tab # a.tab
     /\ ran' = [ran EXCEPT ![i] = ran[i] + 1]
     /\ phase' = [phase EXCEPT ![i] = "acting"]
     /\ UNCHANGED <<plan, scheduled>>

EndAction(i) ==
  /\ phase[i] = "acting"
  /\ phase' = [phase EXCEPT ![i] = "waiting"]
  /\ UNCHANGED <<plan, ran, scheduled>>

\* With the last action, or early, for a reinstall.
End(i) ==
  /\ phase[i] = "waiting"
  /\ ran[i] = Len(plan[i].actions) \/ scheduled
  /\ phase' = [phase EXCEPT ![i] = "over"]
  /\ UNCHANGED <<plan, ran, scheduled>>

ScheduleReinstall ==
  /\ scheduled' = TRUE
  /\ UNCHANGED <<plan, ran, phase>>

Next ==
  \/ \E i \in Instructions : BeginAction(i) \/ EndAction(i) \/ End(i)
  \/ ScheduleReinstall

Spec == Init /\ [][Next]_exclusiveVars
=============================================================================
