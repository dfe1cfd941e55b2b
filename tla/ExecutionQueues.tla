--------------------------- MODULE ExecutionQueues ---------------------------
(***************************************************************************)
(* How the extension serializes the actions it has claimed                 *)
(* (extension/src/execution.ts, input.ts, tabs.ts, proxy.ts).              *)
(*                                                                         *)
(* Every tab has a queue, and so have browser input (focus, scroll, click, *)
(* keyboard), tab creation and the proxy settings; each is a lane here.  A *)
(* queue is a chain of promises: an operation is appended when it is       *)
(* requested and starts when everything appended before has settled, with  *)
(* a result or an error alike.  An operation that needs several lanes asks *)
(* for them one inside the other.                                          *)
(***************************************************************************)
EXTENDS Naturals, Sequences

CONSTANTS
  Instructions,    \* in the order in which they are claimed
  Tabs,            \* tab ids
  Input,           \* state.browserInputQueue
  Creation,        \* state.tabCreationQueue
  Proxy,           \* state.proxyQueue
  NoLane,
  Plans            \* the instructions a client may submit

\* Lanes are numbered in the order in which one operation asks for them.
Lanes == Tabs \cup {Input, Creation, Proxy}

ASSUME LanesAssumption ==
  /\ Lanes \subseteq Nat
  /\ NoLane \notin Lanes
  /\ \A t \in Tabs : t < Input
  /\ Input < Creation /\ Creation < Proxy

\* Lanes are finitely many, so that any of them have a lowest and a highest.
ASSUME OrderAssumption ==
  \A S \in (SUBSET Lanes) \ {{}} :
    /\ \E l \in S : \A k \in S : l <= k
    /\ \E l \in S : \A k \in S : k <= l

\* An action works on a tab or on none, and uses a browser-wide lane or none.
Action == [tab : Tabs \cup {NoLane}, lane : {NoLane, Input, Creation, Proxy}]

\* An instruction that is not a batch has one action.
ASSUME PlansAssumption ==
  \A p \in Plans :
    /\ p.batch \in BOOLEAN
    /\ p.actions \in Seq(Action) /\ p.actions # <<>>
    /\ ~p.batch => Len(p.actions) = 1

ASSUME InstructionsAssumption == Instructions \subseteq Nat

VARIABLES
  queue,           \* queue[l]: who has asked for lane l and not settled, in order
  job,             \* job[i]: where runInstruction(i) is
  scheduled,       \* state.reinstallScheduled
  begun            \* history: begun[t], the instructions whose actions began on t

vars == <<queue, job, scheduled, begun>>

\* Steps of a job:
\*   unclaimed  not handed to executeInstruction yet
\*   queued     appended to its lane's queue
\*   acting     its current action is in progress
\*   between    a batch, before its next action
\*   done       settled
\* at is the action it is at, held the lanes whose operation it is inside, and want
\* the lanes it asks for once it has the one it is queued for.
Unclaimed(p) ==
  [step |-> "unclaimed", plan |-> p, at |-> 0, held |-> {}, lane |-> NoLane, want |-> {}]

Own(a) == {a.tab, a.lane} \ {NoLane}

\* A batch with an input action holds all its tabs and the input lane throughout.
Outer(p) ==
  LET actions == {p.actions[k] : k \in 1 .. Len(p.actions)}
  IN IF p.batch /\ \E a \in actions : a.lane = Input
       THEN ({a.tab : a \in actions} \ {NoLane}) \cup {Input}
       ELSE {}

\* Mutant: a sub-action asks again for the lanes its batch holds.
NeedsAlways(p, k) == Own(p.actions[k])

\* The lanes that action k asks for itself: queuesHeld spares it the outer ones.
Needs(p, k) ==
  IF Outer(p) = {} THEN Own(p.actions[k]) ELSE Own(p.actions[k]) \cap {Creation, Proxy}

Init ==
  /\ queue = [l \in Lanes |-> <<>>]
  /\ job \in [Instructions -> {Unclaimed(p) : p \in Plans}]
  /\ scheduled = FALSE
  /\ begun = [t \in Tabs |-> <<>>]

\* Mutant: a batch asks for browser input first and for its tabs then.
FirstInput(p, lanes) ==
  IF p.batch /\ Input \in lanes THEN Input
  ELSE CHOOSE l \in lanes : \A k \in lanes : l <= k

\* The lane to ask for first: tabs ascending, then the browser-wide lanes.
First(p, lanes) == CHOOSE l \in lanes : \A k \in lanes : l <= k

\* The action that j is at begins, on its tab if it has one.
Begin(i, j) ==
  LET t == j.plan.actions[j.at].tab
  IN /\ job' = [job EXCEPT ![i] = [j EXCEPT !.step = "acting", !.lane = NoLane]]
     /\ begun' = IF t = NoLane THEN begun ELSE [begun EXCEPT ![t] = Append(@, i)]
     /\ UNCHANGED queue

\* The operation asks for the first of the lanes.
AskFor(i, j, lanes) ==
  LET l == First(j.plan, lanes)
  IN /\ job' = [job EXCEPT ![i] = [j EXCEPT !.step = "queued", !.lane = l,
                                            !.want = lanes \ {l}]]
     /\ queue' = [queue EXCEPT ![l] = Append(@, i)]
     /\ UNCHANGED begun

\* Action k, in its lanes.
RunAction(i, j, k) ==
  LET needs == Needs(j.plan, k)
      next == [j EXCEPT !.at = k]
  IN IF needs = {} THEN Begin(i, next) ELSE AskFor(i, next, needs)

-----------------------------------------------------------------------------
\* executeInstruction up to its first await: poll() calls it in claim order, after
\* the promise callbacks that are due.
Execute(i) ==
  LET j == job[i]
      outer == Outer(j.plan)
  IN /\ j.step = "unclaimed"
     /\ \A k \in Instructions : k < i => job[k].step # "unclaimed"
     /\ \A k \in Instructions : job[k].step # "between"
     /\ IF scheduled
          THEN /\ job' = [job EXCEPT ![i].step = "done"]
               /\ UNCHANGED <<queue, begun>>
          ELSE IF outer = {} THEN RunAction(i, j, 1) ELSE AskFor(i, j, outer)
     /\ UNCHANGED scheduled

\* Mutant: a lane serves whoever asked for it, in any order.
GrantedAnyOrder(i) ==
  LET j == job[i]
      inside == [j EXCEPT !.held = @ \cup {j.lane}]
  IN /\ j.step = "queued"
     /\ \A k \in Instructions : j.lane \notin job[k].held
     /\ IF j.want # {} THEN AskFor(i, inside, j.want)
        ELSE IF j.at = 0
          THEN /\ job' = [job EXCEPT ![i] = [inside EXCEPT !.step = "between", !.lane = NoLane]]
               /\ UNCHANGED <<queue, begun>>
          ELSE Begin(i, inside)
     /\ UNCHANGED scheduled

\* Everything before i in its lane has settled: i is inside, and asks for the next
\* lane, starts its batch or begins its action.
Granted(i) ==
  LET j == job[i]
      inside == [j EXCEPT !.held = @ \cup {j.lane}]
  IN /\ j.step = "queued"
     /\ Head(queue[j.lane]) = i
     /\ IF j.want # {} THEN AskFor(i, inside, j.want)
        ELSE IF j.at = 0
          THEN /\ job' = [job EXCEPT ![i] = [inside EXCEPT !.step = "between", !.lane = NoLane]]
               /\ UNCHANGED <<queue, begun>>
          ELSE Begin(i, inside)
     /\ UNCHANGED scheduled

Settle(lanes) == [l \in Lanes |-> IF l \in lanes THEN Tail(queue[l]) ELSE queue[l]]

\* Mutant: a batch gives its tabs back after every action.
SettleActionOfBatch(i) ==
  LET j == job[i]
  IN /\ j.step = "acting"
     /\ queue' = Settle(j.held)
     /\ job' = [job EXCEPT ![i] = [j EXCEPT !.step = "between", !.held = {}]]
     /\ UNCHANGED <<scheduled, begun>>

\* The action ends, with a result or an error, and its own lanes with it.
SettleAction(i) ==
  LET j == job[i]
      own == j.held \ Outer(j.plan)
  IN /\ j.step = "acting"
     /\ queue' = Settle(own)
     /\ job' = [job EXCEPT ![i] = [j EXCEPT !.step = "between", !.held = @ \ own]]
     /\ UNCHANGED <<scheduled, begun>>

\* A batch goes on to its next action, whatever became of the last; a scheduled
\* reinstall turns the remaining ones into errors.
NextAction(i) ==
  LET j == job[i]
  IN /\ j.step = "between"
     /\ ~scheduled
     /\ j.at < Len(j.plan.actions)
     /\ RunAction(i, j, j.at + 1)
     /\ UNCHANGED scheduled

\* Mutant: the first error ends a batch.
FinishEarly(i) ==
  LET j == job[i]
  IN /\ j.step = "between"
     /\ queue' = Settle(j.held)
     /\ job' = [job EXCEPT ![i] = [j EXCEPT !.step = "done", !.held = {}]]
     /\ UNCHANGED <<scheduled, begun>>

\* The instruction has its result; the lanes of a batch settle.
Finish(i) ==
  LET j == job[i]
  IN /\ j.step = "between"
     /\ scheduled \/ j.at = Len(j.plan.actions)
     /\ queue' = Settle(j.held)
     /\ job' = [job EXCEPT ![i] = [j EXCEPT !.step = "done", !.held = {}]]
     /\ UNCHANGED <<scheduled, begun>>

\* executeReinstallCommand.
ScheduleReinstall ==
  /\ ~scheduled
  /\ scheduled' = TRUE
  /\ UNCHANGED <<queue, job, begun>>

\* Everything claimed has settled.
AllDone ==
  /\ \A i \in Instructions : job[i].step = "done"
  /\ scheduled
  /\ UNCHANGED vars

JobStep(i) == Granted(i) \/ SettleAction(i) \/ NextAction(i) \/ Finish(i)

Next ==
  \/ \E i \in Instructions : Execute(i) \/ JobStep(i)
  \/ ScheduleReinstall
  \/ AllDone

Spec == Init /\ [][Next]_vars

\* Promise callbacks run, and every action ends: each has a timeout.
FairSpec == Spec /\ \A i \in Instructions : WF_vars(JobStep(i))
-----------------------------------------------------------------------------
Steps == {"unclaimed", "queued", "acting", "between", "done"}

Job == [step : Steps, plan : Plans, at : Nat, held : SUBSET Lanes,
        lane : Lanes \cup {NoLane}, want : SUBSET Lanes]

TypeOK ==
  /\ queue \in [Lanes -> Seq(Instructions)]
  /\ job \in [Instructions -> Job]
  /\ scheduled \in BOOLEAN
  /\ begun \in [Tabs -> Seq(Instructions)]

\* The lanes i has asked for and not settled.
AskedFor(i) == job[i].held \cup (IF job[i].step = "queued" THEN {job[i].lane} ELSE {})

\* The lanes that what i is doing takes.
Due(i) ==
  LET j == job[i]
  IN IF j.step \in {"unclaimed", "done"} THEN {}
     ELSE IF j.step = "between" \/ j.at = 0 THEN Outer(j.plan)
     ELSE Outer(j.plan) \cup Needs(j.plan, j.at)

\* A job is inside the lanes it needs, or will be before it goes on, and it asks for
\* them in ascending order, those of its batch before those of its actions.
JobOK(i) ==
  LET j == job[i]
  IN /\ j.at <= Len(j.plan.actions)
     /\ AskedFor(i) \cup (IF j.step = "queued" THEN j.want ELSE {}) = Due(i)
     /\ j.step = "queued" => /\ j.lane \in Lanes
                             /\ \A l \in j.held : l < j.lane
                             /\ \A l \in j.want : j.lane < l
     /\ j.at > 0 /\ j.step # "done" => Outer(j.plan) \subseteq j.held
     /\ j.step = "acting" => j.at > 0
     /\ j.step = "unclaimed" => j.at = 0

\* A queue holds, once each, those who have asked for its lane and not settled, and
\* whoever is inside the lane is the first of them.
LaneOK(l) ==
  /\ \A m, n \in 1 .. Len(queue[l]) : queue[l][m] = queue[l][n] => m = n
  /\ \A n \in 1 .. Len(queue[l]) : l \in AskedFor(queue[l][n])
  /\ \A i \in Instructions :
       l \in AskedFor(i) => \E n \in 1 .. Len(queue[l]) : queue[l][n] = i
  /\ \A i \in Instructions : l \in job[i].held => queue[l][1] = i

\* The inductive invariant.
IInv ==
  /\ TypeOK
  /\ \A i \in Instructions : JobOK(i)
  /\ \A l \in Lanes : LaneOK(l)

\* What nobody else may use while i is where it is: what its action works on, and
\* for a batch with input all its tabs and the input from first action to last.
Occupied(i) ==
  LET j == job[i]
      outer == IF j.at > 0 /\ j.step # "done" THEN Outer(j.plan) ELSE {}
  IN IF j.step = "acting" THEN Own(j.plan.actions[j.at]) \cup outer ELSE outer

\* No two actions work on one tab, or use browser input, tab creation or the proxy,
\* at a time; and none gets between a batch's focus and its click.
MutualExclusion ==
  \A i, k \in Instructions : i # k => Occupied(i) \cap Occupied(k) = {}

\* A job can take a step of its own.
Movable(i) ==
  \/ job[i].step \in {"acting", "between"}
  \/ job[i].step = "queued" /\ Head(queue[job[i].lane]) = i

\* However batches and single actions overlap, no circle of them waits for one
\* another: while anything is unsettled, something can move.
SomeoneMoves ==
  (\E i \in Instructions : job[i].step \notin {"unclaimed", "done"})
    => \E i \in Instructions : Movable(i)

\* Actions that are not in a batch begin on a tab in the order they were claimed in,
\* also when some of them need browser input and wait for other tabs' input.
SingleActionsInClaimOrder ==
  \A t \in Tabs : \A m, n \in 1 .. Len(begun[t]) :
    m < n /\ ~job[begun[t][m]].plan.batch /\ ~job[begun[t][n]].plan.batch
      => begun[t][m] < begun[t][n]

\* What the documentation says of all of them, batches included.
WorkOnATabInClaimOrder ==
  \A t \in Tabs : \A m, n \in 1 .. Len(begun[t]) :
    m < n => begun[t][m] <= begun[t][n]

\* How far a job is for those who do not see it wait: the actions that have begun.
RanOf(j) == IF j.step = "queued" /\ j.at > 0 THEN j.at - 1 ELSE j.at
PhaseOf(j) == CASE j.step = "acting" -> "acting" [] j.step = "done" -> "over" [] OTHER -> "waiting"

PlanOfJobs  == [i \in Instructions |-> job[i].plan]
RanOfJobs   == [i \in Instructions |-> RanOf(job[i])]
PhaseOfJobs == [i \in Instructions |-> PhaseOf(job[i])]

\* The queues give every action what ExclusiveActions promises: batches run all their
\* actions, once and in order, and asking lane by lane is as good as taking them at once.
Exclusive == INSTANCE ExclusiveActions
               WITH plan <- PlanOfJobs, ran <- RanOfJobs, phase <- PhaseOfJobs
ImplementsExclusiveActions == Exclusive!Spec

\* Whatever was asked for ends: nothing that waits for a lane starves, and a failed
\* action does not hold up the ones behind it.
EveryJobEnds ==
  \A i \in Instructions : job[i].step = "queued" ~> job[i].step = "done"

\* i is not a batch.
Alone(i) == ~job[i].plan.batch

\* What the claim order rests on: instructions are claimed in order, a single one asks
\* for its tab when it is claimed, and begins when it is first in the tab's queue.
ClaimsOK ==
  /\ \A i, k \in Instructions :
       k < i /\ job[i].step # "unclaimed" => job[k].step # "unclaimed"
  /\ \A i \in Instructions :
       Alone(i) /\ job[i].step \in {"queued", "acting", "between"} => job[i].at = 1
  /\ \A t \in Tabs : \A m, n \in 1 .. Len(queue[t]) :
       m < n /\ Alone(queue[t][m]) /\ Alone(queue[t][n]) => queue[t][m] < queue[t][n]
  /\ \A t \in Tabs : \A m \in 1 .. Len(begun[t]) :
       /\ job[begun[t][m]].step # "unclaimed"
       /\ \A k \in Instructions :
            Alone(begun[t][m]) /\ Alone(k) /\ job[k].step = "queued" /\ t \in AskedFor(k)
              => begun[t][m] < k
  /\ SingleActionsInClaimOrder
=============================================================================
