------------------------ MODULE ExecutionQueues_proofs ------------------------
(***************************************************************************)
(* Mutual exclusion, deadlock freedom and the claim order of the           *)
(* extension's execution queues, for every number of tabs and instructions *)
(* and every plan.                                                         *)
(*                                                                         *)
(* The argument: a queue holds exactly those who have asked for its lane,  *)
(* and whoever is inside is its head, so two jobs are never inside one     *)
(* lane; and jobs ask for lanes in ascending order, so the highest lane    *)
(* somebody waits for is held by a job that waits for nothing.             *)
(* The order in which single actions begin on a tab is the order of the    *)
(* tab's queue, which they enter when they are claimed.                    *)
(* To those who do not see them wait, jobs do what ExclusiveActions says:  *)
(* what it lets nobody else use is held, and what is held has its holder   *)
(* at the head of its queue.                                               *)
(***************************************************************************)
EXTENDS ExecutionQueues, TLAPS

(***************************************************************************)
(* The helpers.                                                            *)
(***************************************************************************)

\* First picks one of the lanes, none of which is lower.
LEMMA FirstIsLowest ==
  ASSUME NEW p, NEW lanes \in SUBSET Lanes, lanes # {}
  PROVE  /\ First(p, lanes) \in lanes
         /\ \A l \in lanes \ {First(p, lanes)} : First(p, lanes) < l
<1>1. \E l \in lanes : \A k \in lanes : l <= k
  BY OrderAssumption
<1>2. First(p, lanes) \in lanes /\ \A k \in lanes : First(p, lanes) <= k
  BY <1>1 DEF First
<1>3. ASSUME NEW l \in lanes, l # First(p, lanes)
      PROVE  First(p, lanes) < l
  <2>1. First(p, lanes) \in Nat /\ l \in Nat /\ First(p, lanes) <= l
    BY <1>2, LanesAssumption
  <2>2. QED
    BY <1>3, <2>1
<1>4. QED
  BY <1>2, <1>3

\* What a plan and its actions ask for are lanes, and an action asks for none that
\* its batch holds already, nor for one below those.
LEMMA PlanLanes ==
  ASSUME NEW p \in Plans, NEW k \in 1 .. Len(p.actions)
  PROVE  /\ p.actions[k] \in Action
         /\ Outer(p) \subseteq Lanes
         /\ Needs(p, k) \subseteq Lanes
         /\ \A l \in Outer(p), m \in Needs(p, k) : l < m
         /\ Own(p.actions[k]) \subseteq Outer(p) \cup Needs(p, k)
<1>1. \A m \in 1 .. Len(p.actions) : p.actions[m] \in Action
  BY PlansAssumption
<1>2. Outer(p) \subseteq Tabs \cup {Input}
  BY <1>1 DEF Outer, Action
<1>3. Own(p.actions[k]) \subseteq Lanes
  <2>1. /\ p.actions[k].tab \in Tabs \cup {NoLane}
        /\ p.actions[k].lane \in {NoLane, Input, Creation, Proxy}
    BY <1>1 DEF Action
  <2>2. QED
    BY <2>1 DEF Own, Lanes
<1>4. Needs(p, k) \subseteq Own(p.actions[k])
  BY DEF Needs
<1>5. Outer(p) # {} => Needs(p, k) \subseteq {Creation, Proxy}
  BY DEF Needs
<1>6. \A l \in Tabs \cup {Input} : l < Creation /\ l < Proxy
  <2>1. Tabs \subseteq Nat /\ Input \in Nat /\ Creation \in Nat /\ Proxy \in Nat
    BY LanesAssumption DEF Lanes
  <2>2. QED
    BY <2>1, LanesAssumption
<1>7. Own(p.actions[k]) \subseteq Outer(p) \cup Needs(p, k)
  <2>1. CASE Outer(p) = {}
    BY <2>1 DEF Needs
  <2>2. CASE Outer(p) # {}
    <3>1. Input \in Outer(p)
      BY <2>2 DEF Outer
    <3>2. p.actions[k].tab \in Outer(p) \cup {NoLane}
      BY <2>2 DEF Outer
    <3>3. p.actions[k].lane \in {NoLane, Input, Creation, Proxy}
      BY <1>1 DEF Action
    <3>4. QED
      BY <2>2, <3>1, <3>2, <3>3 DEF Needs, Own
  <2>3. QED
    BY <2>1, <2>2
<1>8. QED
  BY <1>1, <1>2, <1>3, <1>4, <1>5, <1>6, <1>7 DEF Lanes

(***************************************************************************)
(* The three ways in which a step changes a job and the queues.  j is what *)
(* the job of i has become when it has got the lane it waited for.         *)
(***************************************************************************)

\* i is at the head of every lane of j.held, and has asked for no other.
Inside(i, j) ==
  /\ j \in Job
  /\ j.held = AskedFor(i)
  /\ \A l \in j.held : queue[l][1] = i

\* Asking for higher lanes than those held keeps the invariant.
LEMMA AskKeeps ==
  ASSUME IInv, NEW i \in Instructions, NEW j, Inside(i, j), UNCHANGED scheduled,
         NEW lanes \in SUBSET Lanes, lanes # {}, AskFor(i, j, lanes),
         \A l \in j.held, m \in lanes : l < m,
         j.at <= Len(j.plan.actions), j.at > 0 => Outer(j.plan) \subseteq j.held,
         j.held \cup lanes =
           IF j.at = 0 THEN Outer(j.plan) ELSE Outer(j.plan) \cup Needs(j.plan, j.at)
  PROVE  IInv'
<1> DEFINE l == First(j.plan, lanes)
           h == [j EXCEPT !.step = "queued", !.lane = l, !.want = lanes \ {l}]
<1>0. l \in lanes /\ l \in Lanes /\ l \notin j.held /\ \A m \in lanes \ {l} : l < m
  <2>1. l \in lanes /\ \A m \in lanes \ {l} : l < m
    BY FirstIsLowest
  <2>2. \A m \in Lanes : ~(m < m)
    BY LanesAssumption
  <2>3. QED
    BY <2>1, <2>2
<1>1. job' = [job EXCEPT ![i] = h] /\ queue' = [queue EXCEPT ![l] = Append(@, i)]
      /\ UNCHANGED begun
  BY DEF AskFor
<1>2. h \in Job /\ h.step = "queued" /\ h.lane = l /\ h.want = lanes \ {l}
      /\ h.held = j.held /\ h.at = j.at /\ h.plan = j.plan
  BY <1>0 DEF Inside, Job, Steps
<1> HIDE DEF l, h
<1>3. job'[i] = h /\ \A k \in Instructions : k # i => job'[k] = job[k]
  BY <1>1 DEF IInv, TypeOK
<1>4. TypeOK'
  <2>1. job' \in [Instructions -> Job]
    BY <1>1, <1>2 DEF IInv, TypeOK
  <2>2. queue' \in [Lanes -> Seq(Instructions)]
    BY <1>0, <1>1 DEF IInv, TypeOK
  <2>3. QED
    BY <1>1, <2>1, <2>2 DEF IInv, TypeOK
<1>5. AskedFor(i)' = j.held \cup {l} /\ AskedFor(i) = j.held
  BY <1>2, <1>3 DEF AskedFor, Inside
<1>6. \A k \in Instructions : k # i => AskedFor(k)' = AskedFor(k)
  BY <1>3 DEF AskedFor
<1>7. ASSUME NEW k \in Instructions
      PROVE  JobOK(k)'
  <2>1. CASE k = i
    <3>1. Due(i)' = j.held \cup lanes
      BY <1>2, <1>3 DEF Due
    <3>2. QED
      BY <1>0, <1>2, <1>3, <1>5, <2>1, <3>1 DEF JobOK
  <2>2. CASE k # i
    BY <1>3, <1>6, <2>2 DEF JobOK, Due, IInv
  <2>3. QED
    BY <2>1, <2>2
<1>8. ASSUME NEW m \in Lanes
      PROVE  LaneOK(m)'
  <2>0. LaneOK(m) /\ queue[m] \in Seq(Instructions)
    BY DEF IInv, TypeOK
  <2>1. CASE m # l
    <3>1. queue'[m] = queue[m]
      BY <1>1, <2>1 DEF IInv, TypeOK
    <3>2. \A k \in Instructions : m \in AskedFor(k)' <=> m \in AskedFor(k)
      BY <1>5, <1>6, <2>1
    <3>3. \A n \in 1 .. Len(queue[m]) : queue[m][n] \in Instructions
      BY <2>0
    <3>4. \A k \in Instructions : m \in job'[k].held => queue[m][1] = k
      BY <1>2, <1>3, <2>0 DEF LaneOK, Inside
    <3>5. QED
      BY <2>0, <3>1, <3>2, <3>3, <3>4 DEF LaneOK
  <2>2. CASE m = l
    <3>1. queue'[m] = Append(queue[m], i)
      BY <1>1, <2>2 DEF IInv, TypeOK
    <3>2. /\ Len(queue'[m]) = Len(queue[m]) + 1 /\ Len(queue[m]) \in Nat
          /\ queue'[m][Len(queue[m]) + 1] = i
          /\ \A n \in 1 .. Len(queue[m]) : queue'[m][n] = queue[m][n]
          /\ \A n \in 1 .. Len(queue[m]) : queue[m][n] \in Instructions
      BY <2>0, <3>1
    <3>3. \A n \in 1 .. Len(queue[m]) : queue[m][n] # i
      BY <1>0, <1>5, <2>0, <2>2 DEF LaneOK
    <3>4. \A n \in 1 .. Len(queue'[m]) : n \in 1 .. Len(queue[m]) \/ n = Len(queue[m]) + 1
      BY <3>2
    <3>5. \A a, b \in 1 .. Len(queue'[m]) : queue'[m][a] = queue'[m][b] => a = b
      BY <2>0, <3>2, <3>3, <3>4 DEF LaneOK
    <3>6. (\A n \in 1 .. Len(queue[m]) : m \in AskedFor(queue[m][n]))'
      BY <1>5, <1>6, <2>0, <2>2, <3>2, <3>3, <3>4 DEF LaneOK
    <3>7. \A k \in Instructions : m \in AskedFor(k)' =>
            \E n \in 1 .. Len(queue'[m]) : queue'[m][n] = k
      <4>1. ASSUME NEW k \in Instructions, m \in AskedFor(k)', k # i
            PROVE  \E n \in 1 .. Len(queue'[m]) : queue'[m][n] = k
        <5>1. PICK n \in 1 .. Len(queue[m]) : queue[m][n] = k
          BY <1>6, <2>0, <4>1 DEF LaneOK
        <5>2. n \in 1 .. Len(queue'[m])
          BY <3>2
        <5>3. QED
          BY <3>2, <5>1, <5>2
      <4>2. Len(queue[m]) + 1 \in 1 .. Len(queue'[m])
        BY <3>2
      <4>3. QED
        BY <3>2, <4>1, <4>2
    <3>8. ASSUME NEW k \in Instructions, m \in job'[k].held
          PROVE  queue'[m][1] = k
      <4>1. k # i
        BY <1>0, <1>2, <1>3, <2>2, <3>8
      <4>2. m \in job[k].held /\ m \in AskedFor(k)
        BY <1>3, <3>8, <4>1 DEF AskedFor
      <4>3. 1 \in 1 .. Len(queue[m]) /\ queue[m][1] = k
        BY <2>0, <3>2, <4>2 DEF LaneOK
      <4>4. QED
        BY <3>2, <4>3
    <3>9. QED
      BY <3>5, <3>6, <3>7, <3>8 DEF LaneOK
  <2>3. QED
    BY <2>1, <2>2
<1>9. QED
  BY <1>4, <1>7, <1>8 DEF IInv

\* Going on with the lanes that are held keeps the invariant.
LEMMA StayKeeps ==
  ASSUME IInv, NEW i \in Instructions, NEW h, Inside(i, h), UNCHANGED <<queue, scheduled>>,
         job' = [job EXCEPT ![i] = h], begun' \in [Tabs -> Seq(Instructions)],
         h.step # "queued", JobOK(i)'
  PROVE  IInv'
<1>1. job'[i] = h /\ \A k \in Instructions : k # i => job'[k] = job[k]
  BY DEF IInv, TypeOK
<1>2. TypeOK'
  BY DEF IInv, TypeOK, Inside
<1>3. \A k \in Instructions : AskedFor(k)' = AskedFor(k)
  BY <1>1 DEF AskedFor, Inside
<1>4. ASSUME NEW k \in Instructions
      PROVE  JobOK(k)'
  <2>1. k # i => JobOK(k)'
    BY <1>1, <1>3 DEF JobOK, Due, IInv
  <2>2. QED
    BY <2>1
<1>5. ASSUME NEW m \in Lanes
      PROVE  LaneOK(m)'
  <2>1. LaneOK(m) /\ queue[m] \in Seq(Instructions)
    BY DEF IInv, TypeOK
  <2>2. \A n \in 1 .. Len(queue[m]) : queue[m][n] \in Instructions
    BY <2>1
  <2>3. \A k \in Instructions : m \in job'[k].held => queue[m][1] = k
    BY <1>1, <2>1 DEF LaneOK, Inside
  <2>4. QED
    BY <1>3, <2>1, <2>2, <2>3 DEF LaneOK
<1>6. QED
  BY <1>2, <1>4, <1>5 DEF IInv

\* Settling lanes that are held keeps the invariant.
LEMMA SettleKeeps ==
  ASSUME IInv, NEW i \in Instructions, NEW h \in Job, NEW lanes \in SUBSET job[i].held,
         UNCHANGED <<scheduled, begun>>, queue' = Settle(lanes),
         job' = [job EXCEPT ![i] = h], h.held = job[i].held \ lanes,
         h.step # "queued", job[i].step # "queued", JobOK(i)'
  PROVE  IInv'
<1>1. job'[i] = h /\ \A k \in Instructions : k # i => job'[k] = job[k]
  BY DEF IInv, TypeOK
<1>2. AskedFor(i)' = AskedFor(i) \ lanes /\ AskedFor(i) = job[i].held
  BY <1>1 DEF AskedFor
<1>3. \A k \in Instructions : k # i => AskedFor(k)' = AskedFor(k)
  BY <1>1 DEF AskedFor
<1>4. \A m \in lanes : m \in Lanes
  BY DEF IInv, TypeOK, Job
<1>5. ASSUME NEW m \in lanes
      PROVE  queue[m] \in Seq(Instructions) /\ queue[m] # <<>> /\ queue[m][1] = i
  <2>1. m \in Lanes /\ LaneOK(m) /\ queue[m] \in Seq(Instructions)
    BY <1>4 DEF IInv, TypeOK
  <2>2. m \in AskedFor(i) /\ m \in job[i].held
    BY <1>2
  <2>3. \E n \in 1 .. Len(queue[m]) : queue[m][n] = i
    BY <2>1, <2>2 DEF LaneOK
  <2>4. queue[m] # <<>>
    BY <2>3
  <2>5. queue[m][1] = i
    BY <2>1, <2>2 DEF LaneOK
  <2>6. QED
    BY <2>1, <2>4, <2>5
<1>6. TypeOK'
  <2>1. queue' \in [Lanes -> Seq(Instructions)]
    BY <1>5 DEF Settle, IInv, TypeOK
  <2>2. QED
    BY <2>1 DEF IInv, TypeOK
<1>7. ASSUME NEW k \in Instructions
      PROVE  JobOK(k)'
  <2>1. k # i => JobOK(k)'
    BY <1>1, <1>3 DEF JobOK, Due, IInv
  <2>2. QED
    BY <2>1
<1>8. ASSUME NEW m \in Lanes
      PROVE  LaneOK(m)'
  <2>0. LaneOK(m) /\ queue[m] \in Seq(Instructions)
    BY DEF IInv, TypeOK
  <2>1. CASE m \notin lanes
    <3>1. queue'[m] = queue[m]
      BY <2>1 DEF Settle
    <3>2. \A k \in Instructions : m \in AskedFor(k)' <=> m \in AskedFor(k)
      BY <1>2, <1>3, <2>1
    <3>3. \A n \in 1 .. Len(queue[m]) : queue[m][n] \in Instructions
      BY <2>0
    <3>4. \A k \in Instructions : m \in job'[k].held => queue[m][1] = k
      BY <1>1, <2>0 DEF LaneOK
    <3>5. QED
      BY <2>0, <3>1, <3>2, <3>3, <3>4 DEF LaneOK
  <2>2. CASE m \in lanes
    <3>1. queue'[m] = Tail(queue[m]) /\ queue[m] # <<>> /\ queue[m][1] = i
      BY <1>5, <2>2 DEF Settle
    <3>2. /\ Len(queue[m]) \in Nat /\ Len(queue'[m]) + 1 = Len(queue[m])
          /\ \A n \in 1 .. Len(queue'[m]) :
               /\ n + 1 \in 1 .. Len(queue[m]) /\ n + 1 # 1
               /\ queue'[m][n] = queue[m][n + 1]
          /\ 1 \in 1 .. Len(queue[m])
      BY <2>0, <3>1
    <3>3. \A n \in 1 .. Len(queue'[m]) : queue'[m][n] \in Instructions /\ queue'[m][n] # i
      <4>1. \A n \in 1 .. Len(queue[m]) : queue[m][n] = i => n = 1
        BY <2>0, <3>1, <3>2 DEF LaneOK
      <4>2. \A n \in 1 .. Len(queue[m]) : queue[m][n] \in Instructions
        BY <2>0
      <4>3. QED
        BY <3>2, <4>1, <4>2
    <3>4. \A a, b \in 1 .. Len(queue'[m]) : queue'[m][a] = queue'[m][b] => a = b
      <4>1. ASSUME NEW a \in 1 .. Len(queue'[m]), NEW b \in 1 .. Len(queue'[m]),
                   queue'[m][a] = queue'[m][b]
            PROVE  a = b
        <5>1. a + 1 = b + 1
          BY <2>0, <3>2, <4>1 DEF LaneOK
        <5>2. QED
          BY <5>1
      <4>2. QED
        BY <4>1
    <3>5. (\A n \in 1 .. Len(queue[m]) : m \in AskedFor(queue[m][n]))'
      BY <1>3, <2>0, <3>2, <3>3 DEF LaneOK
    <3>6. ASSUME NEW k \in Instructions, m \in AskedFor(k)'
          PROVE  \E n \in 1 .. Len(queue'[m]) : queue'[m][n] = k
      <4>1. k # i
        BY <1>2, <2>2, <3>6
      <4>2. PICK n \in 1 .. Len(queue[m]) : queue[m][n] = k
        BY <1>3, <2>0, <3>6, <4>1 DEF LaneOK
      <4>3. n # 1
        BY <3>1, <4>1, <4>2
      <4>4. n - 1 \in 1 .. Len(queue'[m]) /\ (n - 1) + 1 = n
        BY <3>2, <4>3
      <4>5. QED
        BY <3>2, <4>2, <4>4
    <3>7. ASSUME NEW k \in Instructions, m \in job'[k].held
          PROVE  queue'[m][1] = k
      <4>1. k # i
        BY <1>1, <2>2, <3>7
      <4>2. queue[m][1] = k
        BY <1>1, <2>0, <3>7, <4>1 DEF LaneOK
      <4>3. QED
        BY <3>1, <4>1, <4>2
    <3>8. QED
      BY <3>4, <3>5, <3>6, <3>7 DEF LaneOK
  <2>3. QED
    BY <2>1, <2>2
<1>9. QED
  BY <1>6, <1>7, <1>8 DEF IInv

\* An action that is inside all its lanes begins.
LEMMA BeginKeeps ==
  ASSUME IInv, NEW i \in Instructions, NEW j, Inside(i, j), UNCHANGED scheduled,
         Begin(i, j), j.at \in 1 .. Len(j.plan.actions),
         j.held = Outer(j.plan) \cup Needs(j.plan, j.at)
  PROVE  IInv'
<1> DEFINE h == [j EXCEPT !.step = "acting", !.lane = NoLane]
<1>1. /\ h \in Job /\ h.step = "acting" /\ h.held = j.held /\ h.at = j.at
      /\ h.plan = j.plan /\ j.plan \in Plans
  BY DEF Inside, Job, Steps
<1>2. job' = [job EXCEPT ![i] = h] /\ UNCHANGED queue
  BY DEF Begin
<1> HIDE DEF h
<1>3. job'[i] = h
  BY <1>2 DEF IInv, TypeOK
<1>4. Inside(i, h)
  BY <1>1 DEF Inside
<1>5. begun' \in [Tabs -> Seq(Instructions)]
  <2> DEFINE t == j.plan.actions[j.at].tab
  <2>1. t \in Tabs \cup {NoLane}
    BY <1>1, PlanLanes DEF Action
  <2>2. begun' = IF t = NoLane THEN begun ELSE [begun EXCEPT ![t] = Append(@, i)]
    BY DEF Begin
  <2> HIDE DEF t
  <2>3. QED
    BY <2>1, <2>2 DEF IInv, TypeOK
<1>6. JobOK(i)'
  <2>1. AskedFor(i)' = j.held
    BY <1>1, <1>3 DEF AskedFor
  <2>2. j.at > 0 /\ j.at # 0 /\ j.at <= Len(j.plan.actions)
    BY PlansAssumption, <1>1
  <2>3. Due(i)' = j.held
    BY <1>1, <1>3, <2>2 DEF Due
  <2>4. QED
    BY <1>1, <1>3, <2>1, <2>2, <2>3 DEF JobOK
<1>7. QED
  BY <1>1, <1>2, <1>4, <1>5, <1>6, StayKeeps

\* An action starts from inside the lanes of its batch.
LEMMA RunActionKeeps ==
  ASSUME IInv, NEW i \in Instructions, NEW k \in 1 .. Len(job[i].plan.actions),
         job[i].step # "queued", job[i].held = Outer(job[i].plan),
         UNCHANGED scheduled, RunAction(i, job[i], k)
  PROVE  IInv'
<1> DEFINE next == [job[i] EXCEPT !.at = k]
           needs == Needs(job[i].plan, k)
<1>1. job[i] \in Job /\ job[i].plan \in Plans
  BY DEF IInv, TypeOK, Job
<1>2. k \in Nat /\ k > 0 /\ k <= Len(job[i].plan.actions)
  BY <1>1, PlansAssumption
<1>3. /\ next \in Job /\ next.at = k /\ next.held = job[i].held
      /\ next.plan = job[i].plan /\ next.step = job[i].step
  BY <1>1, <1>2 DEF Job
<1>4. IF needs = {} THEN Begin(i, next) ELSE AskFor(i, next, needs)
  BY DEF RunAction
<1>5. needs \subseteq Lanes /\ \A l \in next.held, m \in needs : l < m
  BY <1>1, <1>3, PlanLanes
<1>6. Inside(i, next)
  <2>1. AskedFor(i) = job[i].held
    BY DEF AskedFor
  <2>2. \A l \in job[i].held : l \in Lanes
    BY <1>1 DEF Job
  <2>3. \A l \in job[i].held : queue[l][1] = i
    BY <2>2 DEF IInv, LaneOK
  <2>4. QED
    BY <1>3, <2>1, <2>3 DEF Inside
<1>7. next.held \cup needs = Outer(next.plan) \cup Needs(next.plan, next.at)
  BY <1>3
<1> HIDE DEF next
<1>8. CASE needs = {}
  BY <1>2, <1>3, <1>4, <1>6, <1>7, <1>8, BeginKeeps
<1>9. CASE needs # {}
  <2>1. AskFor(i, next, needs)
    BY <1>4, <1>9
  <2>2. next.at # 0 /\ next.at <= Len(next.plan.actions)
    BY <1>2, <1>3
  <2> HIDE DEF needs
  <2>3. QED
    BY <1>3, <1>5, <1>6, <1>7, <1>9, <2>1, <2>2, AskKeeps
<1>10. QED
  BY <1>8, <1>9

(***************************************************************************)
(* The actions.                                                            *)
(***************************************************************************)

LEMMA ExecuteKeeps ==
  ASSUME IInv, NEW i \in Instructions, Execute(i)
  PROVE  IInv'
<1> DEFINE outer == Outer(job[i].plan)
<1>1. /\ job[i].step = "unclaimed" /\ UNCHANGED scheduled
      /\ IF scheduled
           THEN /\ job' = [job EXCEPT ![i].step = "done"]
                /\ UNCHANGED <<queue, begun>>
           ELSE IF outer = {} THEN RunAction(i, job[i], 1) ELSE AskFor(i, job[i], outer)
  BY DEF Execute
<1>2. job[i] \in Job /\ job[i].plan \in Plans
  BY DEF IInv, TypeOK, Job
<1>3. job[i].at = 0 /\ AskedFor(i) = {} /\ job[i].held = {}
  BY <1>1 DEF IInv, JobOK, Due, AskedFor
<1>4. 1 \in 1 .. Len(job[i].plan.actions) /\ 0 <= Len(job[i].plan.actions)
  BY <1>2, PlansAssumption
<1>5. outer \subseteq Lanes
  BY <1>2, <1>4, PlanLanes
<1>6. CASE scheduled
  <2> DEFINE h == [job[i] EXCEPT !.step = "done"]
  <2>1. /\ h \in Job /\ h.step = "done" /\ h.held = {} /\ h.at = 0
        /\ h.plan = job[i].plan
    BY <1>2, <1>3 DEF Job, Steps
  <2>2. job' = [job EXCEPT ![i] = h] /\ UNCHANGED <<queue, begun>>
    BY <1>1, <1>6
  <2> HIDE DEF h
  <2>3. job'[i] = h
    BY <2>2 DEF IInv, TypeOK
  <2>4. Inside(i, h)
    BY <1>3, <2>1 DEF Inside
  <2>5. JobOK(i)'
    <3>1. AskedFor(i)' = {} /\ Due(i)' = {}
      BY <2>1, <2>3 DEF AskedFor, Due
    <3>2. QED
      BY <1>4, <2>1, <2>3, <3>1 DEF JobOK
  <2>6. begun' \in [Tabs -> Seq(Instructions)]
    BY <2>2 DEF IInv, TypeOK
  <2>7. QED
    BY <1>1, <2>1, <2>2, <2>4, <2>5, <2>6, StayKeeps
<1>7. CASE ~scheduled /\ outer = {}
  BY <1>1, <1>3, <1>4, <1>7, RunActionKeeps
<1>8. CASE ~scheduled /\ outer # {}
  <2>1. Inside(i, job[i])
    BY <1>2, <1>3 DEF Inside
  <2>2. AskFor(i, job[i], outer)
    BY <1>1, <1>8
  <2>3. QED
    BY <1>1, <1>3, <1>4, <1>5, <1>8, <2>1, <2>2, AskKeeps
<1>9. QED
  BY <1>6, <1>7, <1>8

LEMMA GrantedKeeps ==
  ASSUME IInv, NEW i \in Instructions, Granted(i)
  PROVE  IInv'
<1> DEFINE j == job[i]
           inside == [j EXCEPT !.held = @ \cup {j.lane}]
<1>1. /\ j.step = "queued" /\ Head(queue[j.lane]) = i /\ UNCHANGED scheduled
      /\ IF j.want # {} THEN AskFor(i, inside, j.want)
         ELSE IF j.at = 0
           THEN /\ job' = [job EXCEPT ![i] = [inside EXCEPT !.step = "between",
                                                            !.lane = NoLane]]
                /\ UNCHANGED <<queue, begun>>
           ELSE Begin(i, inside)
  BY DEF Granted
<1>2. j \in Job /\ j.plan \in Plans /\ j.at \in Nat /\ j.held \subseteq Lanes
      /\ j.want \subseteq Lanes
  BY DEF IInv, TypeOK, Job
<1>3. /\ j.at <= Len(j.plan.actions) /\ j.lane \in Lanes
      /\ AskedFor(i) \cup j.want = Due(i)
      /\ \A l \in j.held : l < j.lane
      /\ \A l \in j.want : j.lane < l
      /\ j.at > 0 => Outer(j.plan) \subseteq j.held
  BY <1>1 DEF IInv, JobOK
<1>4. /\ inside \in Job /\ inside.held = j.held \cup {j.lane} /\ inside.plan = j.plan
      /\ inside.at = j.at
  BY <1>2, <1>3 DEF Job
<1>5. AskedFor(i) = inside.held
  BY <1>1, <1>4 DEF AskedFor
<1>6. Due(i) = IF j.at = 0 THEN Outer(j.plan) ELSE Outer(j.plan) \cup Needs(j.plan, j.at)
  BY <1>1 DEF Due
<1>7. Inside(i, inside)
  <2>1. queue[j.lane][1] = i
    BY <1>1, <1>3 DEF IInv, TypeOK
  <2>2. \A l \in j.held : queue[l][1] = i
    BY <1>2 DEF IInv, LaneOK
  <2>3. QED
    BY <1>4, <1>5, <2>1, <2>2 DEF Inside
<1> HIDE DEF inside
<1>8. CASE j.want # {}
  <2>1. AskFor(i, inside, j.want)
    BY <1>1, <1>8
  <2>2. \A l \in inside.held, m \in j.want : l < m
    <3>1. \A m \in Lanes : m \in Nat
      BY LanesAssumption
    <3>2. QED
      BY <1>2, <1>3, <1>4, <3>1
  <2>3. inside.held \cup j.want =
          IF inside.at = 0 THEN Outer(inside.plan)
          ELSE Outer(inside.plan) \cup Needs(inside.plan, inside.at)
    BY <1>3, <1>4, <1>5, <1>6
  <2>4. inside.at <= Len(inside.plan.actions)
        /\ (inside.at > 0 => Outer(inside.plan) \subseteq inside.held)
    BY <1>3, <1>4
  <2> HIDE DEF j
  <2>5. QED
    BY <1>1, <1>2, <1>7, <1>8, <2>1, <2>2, <2>3, <2>4, AskKeeps
<1>9. CASE j.want = {} /\ j.at # 0
  <2>1. Begin(i, inside)
    BY <1>1, <1>9
  <2>2. inside.at \in 1 .. Len(inside.plan.actions)
    BY <1>2, <1>3, <1>4, <1>9, PlansAssumption
  <2>3. inside.held = Outer(inside.plan) \cup Needs(inside.plan, inside.at)
    BY <1>3, <1>4, <1>5, <1>6, <1>9
  <2>4. QED
    BY <1>1, <1>7, <2>1, <2>2, <2>3, BeginKeeps
<1>10. CASE j.want = {} /\ j.at = 0
  <2> DEFINE h == [inside EXCEPT !.step = "between", !.lane = NoLane]
  <2>1. /\ h \in Job /\ h.step = "between" /\ h.held = inside.held /\ h.at = 0
        /\ h.plan = j.plan
    BY <1>4, <1>10 DEF Job, Steps
  <2>2. job' = [job EXCEPT ![i] = h] /\ UNCHANGED <<queue, begun>>
    BY <1>1, <1>10
  <2> HIDE DEF h
  <2>3. job'[i] = h
    BY <2>2 DEF IInv, TypeOK
  <2>4. Inside(i, h)
    BY <1>7, <2>1 DEF Inside
  <2>5. JobOK(i)'
    <3>1. AskedFor(i)' = inside.held
      BY <2>1, <2>3 DEF AskedFor
    <3>2. Due(i)' = Outer(j.plan)
      BY <2>1, <2>3 DEF Due
    <3>3. inside.held = Outer(j.plan)
      BY <1>3, <1>5, <1>6, <1>10
    <3>4. QED
      BY <1>3, <1>10, <2>1, <2>3, <3>1, <3>2, <3>3 DEF JobOK
  <2>6. begun' \in [Tabs -> Seq(Instructions)]
    BY <2>2 DEF IInv, TypeOK
  <2>7. QED
    BY <1>1, <2>1, <2>2, <2>4, <2>5, <2>6, StayKeeps
<1>11. QED
  BY <1>8, <1>9, <1>10

LEMMA SettleActionKeeps ==
  ASSUME IInv, NEW i \in Instructions, SettleAction(i)
  PROVE  IInv'
<1> DEFINE j == job[i]
           own == j.held \ Outer(j.plan)
           h == [j EXCEPT !.step = "between", !.held = @ \ own]
<1>1. /\ j.step = "acting" /\ queue' = Settle(own) /\ job' = [job EXCEPT ![i] = h]
      /\ UNCHANGED <<scheduled, begun>>
  BY DEF SettleAction
<1>2. j \in Job /\ j.held \subseteq Lanes
  BY DEF IInv, TypeOK, Job
<1>3. /\ h \in Job /\ h.step = "between" /\ h.held = j.held \ own /\ h.at = j.at
      /\ h.plan = j.plan
  BY <1>2 DEF Job, Steps
<1>4. j.at > 0 /\ j.at <= Len(j.plan.actions) /\ Outer(j.plan) \subseteq j.held
  BY <1>1 DEF IInv, JobOK
<1> HIDE DEF h
<1>5. job'[i] = h
  BY <1>1 DEF IInv, TypeOK
<1>6. JobOK(i)'
  <2>1. AskedFor(i)' = Outer(j.plan)
    BY <1>3, <1>4, <1>5 DEF AskedFor
  <2>2. Due(i)' = Outer(j.plan)
    BY <1>3, <1>5 DEF Due
  <2>3. QED
    BY <1>3, <1>4, <1>5, <2>1, <2>2 DEF JobOK
<1>7. own \in SUBSET job[i].held /\ h.step # "queued" /\ job[i].step # "queued"
  BY <1>1, <1>3
<1>8. QED
  BY <1>1, <1>3, <1>6, <1>7, SettleKeeps

LEMMA NextActionKeeps ==
  ASSUME IInv, NEW i \in Instructions, NextAction(i)
  PROVE  IInv'
<1>1. /\ job[i].step = "between" /\ job[i].at < Len(job[i].plan.actions)
      /\ RunAction(i, job[i], job[i].at + 1) /\ UNCHANGED scheduled
  BY DEF NextAction
<1>2. job[i].at \in Nat /\ job[i].plan \in Plans
  BY DEF IInv, TypeOK, Job
<1>3. Len(job[i].plan.actions) \in Nat
  BY <1>2, PlansAssumption
<1>4. job[i].at + 1 \in 1 .. Len(job[i].plan.actions)
  BY <1>1, <1>2, <1>3
<1>5. job[i].held = Outer(job[i].plan)
  BY <1>1 DEF IInv, JobOK, AskedFor, Due
<1>6. QED
  BY <1>1, <1>4, <1>5, RunActionKeeps

LEMMA FinishKeeps ==
  ASSUME IInv, NEW i \in Instructions, Finish(i)
  PROVE  IInv'
<1> DEFINE j == job[i]
           h == [j EXCEPT !.step = "done", !.held = {}]
<1>1. /\ j.step = "between" /\ queue' = Settle(j.held) /\ job' = [job EXCEPT ![i] = h]
      /\ UNCHANGED <<scheduled, begun>>
  BY DEF Finish
<1>2. j \in Job
  BY DEF IInv, TypeOK
<1>3. /\ h \in Job /\ h.step = "done" /\ h.held = {} /\ h.at = j.at /\ h.plan = j.plan
  BY <1>2 DEF Job, Steps
<1>4. j.at <= Len(j.plan.actions)
  BY DEF IInv, JobOK
<1> HIDE DEF h
<1>5. job'[i] = h
  BY <1>1 DEF IInv, TypeOK
<1>6. JobOK(i)'
  <2>1. AskedFor(i)' = {} /\ Due(i)' = {}
    BY <1>3, <1>5 DEF AskedFor, Due
  <2>2. QED
    BY <1>3, <1>4, <1>5, <2>1 DEF JobOK
<1>7. /\ j.held \in SUBSET job[i].held /\ h.step # "queued" /\ job[i].step # "queued"
      /\ h.held = job[i].held \ j.held
  BY <1>1, <1>3
<1>8. QED
  BY <1>1, <1>3, <1>6, <1>7, SettleKeeps

LEMMA JobsUnchangedKeeps ==
  ASSUME IInv, UNCHANGED <<queue, job, begun>>, scheduled' \in BOOLEAN
  PROVE  IInv'
<1>1. TypeOK'
  BY DEF IInv, TypeOK
<1>2. \A i \in Instructions : AskedFor(i)' = AskedFor(i)
  BY DEF AskedFor
<1>3. ASSUME NEW i \in Instructions
      PROVE  JobOK(i)'
  BY <1>2 DEF IInv, JobOK, Due
<1>4. ASSUME NEW l \in Lanes
      PROVE  LaneOK(l)'
  <2>1. \A n \in 1 .. Len(queue[l]) : queue[l][n] \in Instructions
    BY DEF IInv, TypeOK
  <2>2. QED
    BY <1>2, <2>1 DEF IInv, LaneOK
<1>5. QED
  BY <1>1, <1>3, <1>4 DEF IInv

(***************************************************************************)
(* The theorems.                                                           *)
(***************************************************************************)

\* The inductive invariant: queues hold those who asked, their heads are inside,
\* and lanes are asked for in ascending order.  Execution.ts relies on it without
\* saying so.
THEOREM QueuesInvariant == Spec => []IInv
<1>1. Init => IInv
  <2> SUFFICES ASSUME Init PROVE IInv
    OBVIOUS
  <2>1. ASSUME NEW i \in Instructions
        PROVE  \E p \in Plans : job[i] = Unclaimed(p)
    BY DEF Init
  <2>2. ASSUME NEW p \in Plans
        PROVE  Unclaimed(p) \in Job /\ Len(p.actions) \in Nat
    BY PlansAssumption DEF Unclaimed, Job, Steps
  <2>3. TypeOK
    <3>1. job \in [Instructions -> Job]
      BY <2>2 DEF Init
    <3>2. queue \in [Lanes -> Seq(Instructions)] /\ begun \in [Tabs -> Seq(Instructions)]
      BY DEF Init
    <3>3. QED
      BY <3>1, <3>2 DEF Init, TypeOK
  <2>4. ASSUME NEW i \in Instructions
        PROVE  AskedFor(i) = {} /\ job[i].held = {}
    <3>1. PICK p \in Plans : job[i] = Unclaimed(p)
      BY <2>1
    <3>2. job[i].step = "unclaimed" /\ job[i].held = {}
      BY <3>1 DEF Unclaimed
    <3>3. QED
      BY <3>2 DEF AskedFor
  <2>5. ASSUME NEW i \in Instructions
        PROVE  JobOK(i)
    <3>1. PICK p \in Plans : job[i] = Unclaimed(p)
      BY <2>1
    <3>2. /\ job[i].step = "unclaimed" /\ job[i].at = 0 /\ job[i].plan = p
          /\ 0 <= Len(p.actions)
      BY <2>2, <3>1 DEF Unclaimed
    <3>3. QED
      BY <2>4, <3>2 DEF JobOK, Due
  <2>6. ASSUME NEW l \in Lanes
        PROVE  LaneOK(l)
    <3>1. queue[l] = <<>> /\ 1 .. Len(queue[l]) = {}
      BY DEF Init
    <3>2. QED
      BY <2>4, <3>1 DEF LaneOK
  <2>7. QED
    BY <2>3, <2>5, <2>6 DEF IInv
<1>2. IInv /\ [Next]_vars => IInv'
  <2> SUFFICES ASSUME IInv, [Next]_vars PROVE IInv'
    OBVIOUS
  <2>1. ASSUME NEW i \in Instructions, Execute(i) PROVE IInv'
    BY <2>1, ExecuteKeeps
  <2>2. ASSUME NEW i \in Instructions, Granted(i) PROVE IInv'
    BY <2>2, GrantedKeeps
  <2>3. ASSUME NEW i \in Instructions, SettleAction(i) PROVE IInv'
    BY <2>3, SettleActionKeeps
  <2>4. ASSUME NEW i \in Instructions, NextAction(i) PROVE IInv'
    BY <2>4, NextActionKeeps
  <2>5. ASSUME NEW i \in Instructions, Finish(i) PROVE IInv'
    BY <2>5, FinishKeeps
  <2>6. ASSUME ScheduleReinstall PROVE IInv'
    BY <2>6, JobsUnchangedKeeps DEF ScheduleReinstall
  <2>7. ASSUME AllDone \/ UNCHANGED vars PROVE IInv'
    <3>1. UNCHANGED <<queue, job, begun>> /\ scheduled' \in BOOLEAN
      BY <2>7 DEF AllDone, vars, IInv, TypeOK
    <3>2. QED
      BY <3>1, JobsUnchangedKeeps
  <2>8. QED
    BY <2>1, <2>2, <2>3, <2>4, <2>5, <2>6, <2>7 DEF Next, JobStep
<1>3. QED
  BY <1>1, <1>2, PTL DEF Spec

\* What a job occupies it is inside of.
LEMMA OccupiedIsHeld ==
  ASSUME IInv, NEW i \in Instructions
  PROVE  Occupied(i) \subseteq job[i].held /\ Occupied(i) \subseteq Lanes
<1>1. /\ job[i].at \in Nat /\ job[i].plan \in Plans /\ job[i].held \subseteq Lanes
      /\ job[i].at <= Len(job[i].plan.actions)
      /\ job[i].at > 0 /\ job[i].step # "done" => Outer(job[i].plan) \subseteq job[i].held
  BY DEF IInv, TypeOK, Job, JobOK
<1>2. CASE job[i].step = "acting"
  <2>1. /\ job[i].at > 0
        /\ job[i].held = Due(i)
    BY <1>2 DEF IInv, JobOK, AskedFor
  <2>2. Due(i) = Outer(job[i].plan) \cup Needs(job[i].plan, job[i].at)
    BY <1>1, <1>2, <2>1 DEF Due
  <2>3. job[i].at \in 1 .. Len(job[i].plan.actions)
    BY <1>1, <2>1, PlansAssumption
  <2>4. Own(job[i].plan.actions[job[i].at])
          \subseteq Outer(job[i].plan) \cup Needs(job[i].plan, job[i].at)
    BY <1>1, <2>3, PlanLanes
  <2>5. QED
    BY <1>1, <1>2, <2>1, <2>2, <2>4 DEF Occupied
<1>3. CASE job[i].step # "acting"
  BY <1>1, <1>3 DEF Occupied
<1>4. QED
  BY <1>2, <1>3

\* No two actions ever work on one tab, or use browser input, tab creation or the
\* proxy settings, at the same time, and nothing comes between the first and the
\* last action of a batch with input on any tab of that batch: runInTabExecutionQueue,
\* runBrowserInputOperation and their like do exclude each other.
THEOREM QueuesExclude == Spec => []MutualExclusion
<1>1. IInv => MutualExclusion
  <2>1. ASSUME IInv, NEW i \in Instructions, NEW k \in Instructions,
               NEW l \in Occupied(i), l \in Occupied(k)
        PROVE  i = k
    <3>1. l \in Lanes /\ l \in job[i].held /\ l \in job[k].held
      BY <2>1, OccupiedIsHeld
    <3>2. queue[l][1] = i /\ queue[l][1] = k
      BY <2>1, <3>1 DEF IInv, LaneOK
    <3>3. QED
      BY <3>2
  <2>2. QED
    BY <2>1 DEF MutualExclusion
<1>2. QED
  BY <1>1, QueuesInvariant, PTL

\* However many tabs the batches and actions in flight span, and in whatever order
\* they ask, they never all wait for one another: sorting the tabs, and taking
\* browser-wide queues after them, rules deadlock out.
THEOREM QueuesNeverDeadlock == Spec => []SomeoneMoves
<1>1. IInv => SomeoneMoves
  <2> SUFFICES ASSUME IInv, \A i \in Instructions : ~Movable(i),
                      NEW u \in Instructions, job[u].step \notin {"unclaimed", "done"}
               PROVE  FALSE
    BY DEF SomeoneMoves
  <2> DEFINE Waiting == {i \in Instructions : job[i].step = "queued"}
             waitedFor == {job[i].lane : i \in Waiting}
  <2>1. \A i \in Waiting : job[i].lane \in Lanes /\ job[i].lane \in AskedFor(i)
    BY DEF IInv, JobOK, AskedFor
  <2>2. u \in Waiting
    BY DEF IInv, TypeOK, Job, Steps, Movable
  <2>3. PICK l \in waitedFor : \A m \in waitedFor : m <= l
    <3>1. waitedFor \in (SUBSET Lanes) \ {{}}
      BY <2>1, <2>2
    <3>2. QED
      BY <3>1, OrderAssumption
  <2>4. PICK k \in Waiting : job[k].lane = l
    BY <2>3
  <2>5. l \in Lanes /\ LaneOK(l) /\ queue[l] \in Seq(Instructions)
    BY <2>1, <2>4 DEF IInv, TypeOK
  <2>6. Len(queue[l]) \in Nat /\ 1 \in 1 .. Len(queue[l])
    <3>1. \E n \in 1 .. Len(queue[l]) : queue[l][n] = k
      BY <2>1, <2>4, <2>5 DEF LaneOK
    <3>2. QED
      BY <2>5, <3>1
  <2> DEFINE first == queue[l][1]
  <2>7. first \in Instructions /\ first = Head(queue[l]) /\ l \in AskedFor(first)
    BY <2>5, <2>6 DEF LaneOK
  <2>8. first \in Waiting
    <3>1. AskedFor(first) \subseteq Due(first)
      BY <2>7 DEF IInv, JobOK
    <3>2. job[first].step \notin {"unclaimed", "done"}
      BY <2>7, <3>1 DEF Due
    <3>3. QED
      BY <2>7, <3>2 DEF IInv, TypeOK, Job, Steps, Movable
  <2>9. job[first].lane # l
    BY <2>7, <2>8 DEF Movable
  <2>10. l \in job[first].held
    BY <2>7, <2>9 DEF AskedFor
  <2>11. l < job[first].lane
    BY <2>7, <2>8, <2>10 DEF IInv, JobOK
  <2>12. job[first].lane <= l /\ job[first].lane \in Nat /\ l \in Nat
    BY <2>1, <2>3, <2>5, <2>8, LanesAssumption
  <2>13. QED
    BY <2>11, <2>12
<1>2. QED
  BY <1>1, QueuesInvariant, PTL

(***************************************************************************)
(* The claim order.                                                        *)
(***************************************************************************)

\* What a step of i does to the job of i, the tabs' queues and their histories.
ClaimStep(i) ==
  /\ job'[i].plan = job[i].plan /\ job'[i].step # "unclaimed"
  /\ \A k \in Instructions : k # i => job'[k] = job[k]
  /\ \A k \in Instructions : k < i => job[k].step # "unclaimed"
  /\ Alone(i) /\ job'[i].step \in {"queued", "acting", "between"} => job'[i].at = 1
  /\ Alone(i) /\ job[i].step = "queued" /\ job'[i].step = "queued"
       => \A t \in Tabs : t \in AskedFor(i)' => t \in AskedFor(i)
  /\ \A t \in Tabs :
       \/ queue'[t] = queue[t]
       \/ queue[t] # <<>> /\ queue'[t] = Tail(queue[t])
       \/ queue'[t] = Append(queue[t], i) /\ (Alone(i) => job[i].step = "unclaimed")
  /\ \A t \in Tabs :
       \/ begun'[t] = begun[t]
       \/ /\ begun'[t] = Append(begun[t], i)
          /\ Alone(i) => /\ job[i].step = "queued" /\ job'[i].step # "queued"
                         /\ t \in AskedFor(i) /\ queue[t] # <<>> /\ queue[t][1] = i
  /\ Alone(i) /\ job[i].step \notin {"unclaimed", "queued"} => job'[i].step # "queued"

\* Such a step keeps the claim order: a new request comes behind everything claimed
\* before, and what begins was the first of its tab's queue.
LEMMA ClaimStepKeeps ==
  ASSUME IInv, ClaimsOK, NEW i \in Instructions, ClaimStep(i)
  PROVE  ClaimsOK'
<1> DEFINE Claimed(k) == job[k].step # "unclaimed"
           Waits(k, t) == job[k].step = "queued" /\ t \in AskedFor(k)
           Ordered(s) == \A m, n \in 1 .. Len(s) :
                           m < n /\ Alone(s[m]) /\ Alone(s[n]) => s[m] < s[n]
<1>1. /\ \A k \in Instructions : job'[k].plan = job[k].plan
      /\ \A k \in Instructions : k # i => job'[k] = job[k]
      /\ \A k \in Instructions : k # i => AskedFor(k)' = AskedFor(k)
      /\ \A k \in Instructions : Claimed(k) => Claimed(k)'
      /\ Claimed(i)'
  BY DEF ClaimStep, Alone, AskedFor
<1>2. /\ \A t \in Tabs : queue[t] \in Seq(Instructions) /\ begun[t] \in Seq(Instructions)
      /\ \A t \in Tabs : LaneOK(t)
  BY DEF IInv, TypeOK, Lanes
<1>3. \A k \in Instructions : k \in Nat
  BY InstructionsAssumption
<1>4. /\ \A k, j \in Instructions : j < k /\ Claimed(k) => Claimed(j)
      /\ \A t \in Tabs : Ordered(queue[t]) /\ Ordered(begun[t])
      /\ \A t \in Tabs : \A m \in 1 .. Len(begun[t]) :
           /\ Claimed(begun[t][m])
           /\ \A k \in Instructions :
                Alone(begun[t][m]) /\ Alone(k) /\ Waits(k, t) => begun[t][m] < k
  BY DEF ClaimsOK, SingleActionsInClaimOrder, Alone
<1>5. ASSUME ~Claimed(i), NEW k \in Instructions, Claimed(k)
      PROVE  k < i
  <2>1. ~(i < k) /\ i # k
    BY <1>4, <1>5
  <2>2. QED
    BY <1>3, <2>1
<1>6. \A t \in Tabs : \A n \in 1 .. Len(queue[t]) :
        queue[t][n] \in Instructions /\ t \in AskedFor(queue[t][n])
  BY <1>2 DEF LaneOK
<1>7. \A k \in Instructions : AskedFor(k) # {} => Claimed(k)
  <2>1. \A k \in Instructions : AskedFor(k) \subseteq Due(k)
    BY DEF IInv, JobOK
  <2>2. \A k \in Instructions : ~Claimed(k) => Due(k) = {}
    BY DEF Due
  <2>3. QED
    BY <2>1, <2>2
<1>8. (\A k, j \in Instructions : j < k /\ Claimed(k) => Claimed(j))'
  <2>1. ASSUME NEW k \in Instructions, NEW j \in Instructions, j < k, Claimed(k)'
        PROVE  Claimed(j)'
    <3>1. k = i => Claimed(j)
      BY <2>1 DEF ClaimStep
    <3>2. k # i => Claimed(j)
      BY <1>1, <1>4, <2>1
    <3>3. QED
      BY <1>1, <3>1, <3>2
  <2>2. QED
    BY <2>1
<1>9. (\A k \in Instructions :
         Alone(k) /\ job[k].step \in {"queued", "acting", "between"} => job[k].at = 1)'
  <2>1. ASSUME NEW k \in Instructions, ~job'[k].plan.batch,
               job'[k].step \in {"queued", "acting", "between"}
        PROVE  job'[k].at = 1
    <3>1. k = i => job'[k].at = 1
      BY <1>1, <2>1 DEF ClaimStep, Alone
    <3>2. k # i => job'[k].at = 1
      BY <1>1, <2>1 DEF ClaimsOK, Alone
    <3>3. QED
      BY <3>1, <3>2
  <2>2. QED
    BY <2>1 DEF Alone
<1>10. ASSUME NEW t \in Tabs
       PROVE  Ordered(queue'[t])
  <2> SUFFICES ASSUME NEW m \in 1 .. Len(queue'[t]), NEW n \in 1 .. Len(queue'[t]), m < n,
                      Alone(queue'[t][m]), Alone(queue'[t][n])
               PROVE  queue'[t][m] < queue'[t][n]
    OBVIOUS
  <2>0. Len(queue[t]) \in Nat /\ Ordered(queue[t]) /\ queue[t] \in Seq(Instructions)
    BY <1>2, <1>4
  <2>1. CASE queue'[t] = queue[t]
    <3>1. Alone(queue[t][m]) /\ Alone(queue[t][n])
      BY <2>1
    <3>2. QED
      BY <2>0, <2>1, <3>1
  <2>2. CASE queue[t] # <<>> /\ queue'[t] = Tail(queue[t])
    <3>1. /\ m + 1 \in 1 .. Len(queue[t]) /\ n + 1 \in 1 .. Len(queue[t]) /\ m + 1 < n + 1
          /\ queue'[t][m] = queue[t][m + 1] /\ queue'[t][n] = queue[t][n + 1]
      BY <2>0, <2>2
    <3>2. Alone(queue[t][m + 1]) /\ Alone(queue[t][n + 1])
      BY <3>1
    <3>3. QED
      BY <2>0, <3>1, <3>2
  <2>3. CASE queue'[t] = Append(queue[t], i) /\ (Alone(i) => job[i].step = "unclaimed")
    <3>1. /\ m \in 1 .. Len(queue[t]) /\ queue'[t][m] = queue[t][m]
          /\ n \in 1 .. Len(queue[t]) => queue'[t][n] = queue[t][n]
          /\ n \notin 1 .. Len(queue[t]) => queue'[t][n] = i
      BY <2>0, <2>3
    <3>2. queue[t][m] \in Instructions /\ Alone(queue[t][m])
      BY <1>6, <3>1
    <3>3. CASE n \in 1 .. Len(queue[t])
      <4>1. Alone(queue[t][n])
        BY <3>1, <3>3
      <4>2. QED
        BY <2>0, <3>1, <3>2, <3>3, <4>1
    <3>4. CASE n \notin 1 .. Len(queue[t])
      <4>1. ~Claimed(i)
        BY <2>3, <3>1, <3>4
      <4>2. Claimed(queue[t][m])
        BY <1>6, <1>7, <3>1
      <4>3. QED
        BY <1>5, <3>1, <3>2, <3>4, <4>1, <4>2
    <3>5. QED
      BY <3>3, <3>4
  <2>4. QED
    BY <2>1, <2>2, <2>3 DEF ClaimStep
<1>11. ASSUME NEW t \in Tabs, NEW k \in Instructions, Alone(k), Waits(k, t)'
       PROVE  Waits(k, t) \/ (k = i /\ ~Claimed(i))
  <2>1. k # i => Waits(k, t)
    BY <1>1, <1>11
  <2>2. CASE k = i /\ job[i].step = "queued"
    BY <1>11, <2>2 DEF ClaimStep
  <2>3. CASE k = i /\ job[i].step # "queued"
    BY <1>11, <2>3 DEF ClaimStep
  <2>4. QED
    BY <2>1, <2>2, <2>3
<1>12. ASSUME NEW t \in Tabs, Alone(i), queue[t] # <<>>, queue[t][1] = i,
              NEW k \in Instructions, k # i, Alone(k), Waits(k, t)
       PROVE  i < k
  <2>1. PICK n \in 1 .. Len(queue[t]) : queue[t][n] = k
    BY <1>2, <1>12 DEF LaneOK
  <2>2. Len(queue[t]) \in Nat /\ 1 \in 1 .. Len(queue[t]) /\ 1 < n
    BY <1>2, <1>12, <2>1
  <2>3. QED
    BY <1>4, <1>12, <2>1, <2>2
<1>13. ASSUME NEW t \in Tabs, NEW m \in 1 .. Len(begun'[t])
       PROVE  /\ Claimed(begun[t][m])'
              /\ begun'[t][m] \in Instructions
              /\ \A k \in Instructions :
                   Alone(begun'[t][m]) /\ Alone(k) /\ Waits(k, t)' => begun'[t][m] < k
  <2>0. Len(begun[t]) \in Nat /\ begun[t] \in Seq(Instructions)
    BY <1>2
  <2>1. CASE m \in 1 .. Len(begun[t]) /\ begun'[t][m] = begun[t][m]
    <3>1. begun[t][m] \in Instructions /\ Claimed(begun[t][m])
      BY <1>4, <2>0, <2>1
    <3>2. ASSUME NEW k \in Instructions, Alone(begun[t][m]), Alone(k), Waits(k, t)'
          PROVE  begun[t][m] < k
      <4>1. CASE Waits(k, t)
        BY <1>4, <2>1, <3>2, <4>1
      <4>2. CASE k = i /\ ~Claimed(i)
        BY <1>5, <3>1, <4>2
      <4>3. QED
        BY <1>11, <3>2, <4>1, <4>2
    <3>3. QED
      BY <1>1, <2>1, <3>1, <3>2
  <2>2. CASE begun'[t][m] = i /\ (Alone(i) => /\ job'[i].step # "queued"
                                              /\ queue[t] # <<>> /\ queue[t][1] = i
                                              /\ job[i].step = "queued")
    <3>1. ASSUME NEW k \in Instructions, Alone(i), Alone(k), Waits(k, t)'
          PROVE  i < k
      <4>1. k # i /\ Waits(k, t)
        BY <1>11, <2>2, <3>1
      <4>2. QED
        BY <1>12, <2>2, <3>1, <4>1
    <3>2. QED
      BY <1>1, <2>2, <3>1
  <2>3. QED
    <3>1. CASE begun'[t] = begun[t]
      BY <2>1, <3>1
    <3>2. CASE begun'[t] = Append(begun[t], i)
      <4>1. m \in 1 .. Len(begun[t]) => begun'[t][m] = begun[t][m]
        BY <2>0, <3>2
      <4>2. m \notin 1 .. Len(begun[t]) => begun'[t][m] = i
        BY <2>0, <3>2
      <4>3. begun'[t] # begun[t]
        <5>1. Len(begun'[t]) # Len(begun[t])
          BY <2>0, <3>2
        <5>2. QED
          BY <5>1
      <4>4. QED
        BY <2>1, <2>2, <4>1, <4>2, <4>3 DEF ClaimStep
    <3>3. QED
      BY <3>1, <3>2 DEF ClaimStep
<1>14. ASSUME NEW t \in Tabs
       PROVE  Ordered(begun'[t])
  <2> SUFFICES ASSUME NEW m \in 1 .. Len(begun'[t]), NEW n \in 1 .. Len(begun'[t]), m < n,
                      Alone(begun'[t][m]), Alone(begun'[t][n])
               PROVE  begun'[t][m] < begun'[t][n]
    OBVIOUS
  <2>0. /\ Len(begun[t]) \in Nat /\ begun[t] \in Seq(Instructions)
        /\ Ordered(begun[t])
    BY <1>2, <1>4
  <2>1. Alone(begun'[t][m]) /\ Alone(begun'[t][n])
    OBVIOUS
  <2>2. CASE begun'[t] = begun[t]
    BY <2>0, <2>1, <2>2
  <2>3. CASE begun'[t] = Append(begun[t], i) /\ begun'[t] # begun[t]
    <3>1. /\ m \in 1 .. Len(begun[t]) /\ begun'[t][m] = begun[t][m]
          /\ n \in 1 .. Len(begun[t]) => begun'[t][n] = begun[t][n]
          /\ n \notin 1 .. Len(begun[t]) => begun'[t][n] = i
      BY <2>0, <2>3
    <3>2. CASE n \in 1 .. Len(begun[t])
      BY <2>0, <2>1, <3>1, <3>2
    <3>3. CASE n \notin 1 .. Len(begun[t])
      <4>1. Alone(i) /\ begun'[t][n] = i
        BY <2>1, <3>1, <3>3
      <4>2. job[i].step = "queued" /\ t \in AskedFor(i)
        BY <2>3, <4>1 DEF ClaimStep
      <4>3. begun[t][m] < i
        BY <1>4, <2>1, <3>1, <4>1, <4>2
      <4>4. QED
        BY <3>1, <4>1, <4>3
    <3>4. QED
      BY <3>2, <3>3
  <2>4. QED
    BY <2>2, <2>3 DEF ClaimStep
<1>15. ASSUME NEW t \in Tabs
       PROVE  /\ \A n \in 1 .. Len(queue'[t]) : queue'[t][n] \in Instructions
              /\ \A n \in 1 .. Len(begun'[t]) : begun'[t][n] \in Instructions
  <2>1. Len(queue[t]) \in Nat /\ queue[t] \in Seq(Instructions)
    BY <1>2
  <2>2. queue[t] # <<>> => Tail(queue[t]) \in Seq(Instructions)
    BY <2>1
  <2>3. Append(queue[t], i) \in Seq(Instructions)
    BY <2>1
  <2>4. queue'[t] \in Seq(Instructions)
    BY <2>1, <2>2, <2>3 DEF ClaimStep
  <2>5. QED
    BY <1>13, <2>4
<1>16. (\A t \in Tabs : \A m, n \in 1 .. Len(queue[t]) :
          m < n /\ Alone(queue[t][m]) /\ Alone(queue[t][n]) => queue[t][m] < queue[t][n])'
  BY <1>1, <1>10, <1>15 DEF Alone
<1>17. SingleActionsInClaimOrder'
  BY <1>1, <1>14, <1>15 DEF SingleActionsInClaimOrder, Alone
<1>18. (\A t \in Tabs : \A m \in 1 .. Len(begun[t]) :
          /\ job[begun[t][m]].step # "unclaimed"
          /\ \A k \in Instructions :
               Alone(begun[t][m]) /\ Alone(k) /\ job[k].step = "queued" /\ t \in AskedFor(k)
                 => begun[t][m] < k)'
  <2>1. ASSUME NEW t \in Tabs, NEW m \in 1 .. Len(begun'[t])
        PROVE  /\ job'[begun'[t][m]].step # "unclaimed"
               /\ \A k \in Instructions :
                    ~job'[begun'[t][m]].plan.batch /\ ~job'[k].plan.batch
                      /\ job'[k].step = "queued" /\ t \in AskedFor(k)' => begun'[t][m] < k
    BY <1>1, <1>13, <1>15 DEF Alone
  <2>2. QED
    BY <2>1 DEF Alone
<1>19. QED
  BY <1>8, <1>9, <1>16, <1>17, <1>18 DEF ClaimsOK

\* What is not a batch asks for its own lanes, of which only its tab is a tab's, and
\* the lowest.
LEMMA AloneLanes ==
  ASSUME NEW p \in Plans, ~p.batch
  PROVE  /\ Len(p.actions) = 1 /\ Outer(p) = {} /\ Needs(p, 1) = Own(p.actions[1])
         /\ p.actions[1].tab \in Tabs => p.actions[1].tab \in Own(p.actions[1])
         /\ \A l, m \in Own(p.actions[1]) : l < m => m \notin Tabs
<1>1. Len(p.actions) = 1 /\ Outer(p) = {}
  BY PlansAssumption DEF Outer
<1>2. p.actions[1] \in Action
  BY <1>1, PlansAssumption
<1>3. /\ p.actions[1].tab \in Tabs \cup {NoLane}
      /\ p.actions[1].lane \in {NoLane, Input, Creation, Proxy}
  BY <1>2 DEF Action
<1>4. NoLane \notin Tabs
  BY LanesAssumption DEF Lanes
<1>5. /\ Tabs \subseteq Nat /\ Input \in Nat /\ Creation \in Nat /\ Proxy \in Nat
      /\ \A t \in Tabs : t < Input
      /\ Input < Creation /\ Creation < Proxy
  BY LanesAssumption DEF Lanes
<1>6. ASSUME NEW l \in Own(p.actions[1]), NEW m \in Own(p.actions[1]), l < m, m \in Tabs
      PROVE  FALSE
  <2>1. m = p.actions[1].tab
    BY <1>3, <1>5, <1>6 DEF Own
  <2>2. l # m
    <3>1. m \in Nat /\ ~(m < m)
      BY <1>5, <1>6
    <3>2. QED
      BY <1>6, <3>1
  <2>3. l \in {Input, Creation, Proxy}
    BY <1>3, <1>6, <2>1, <2>2 DEF Own
  <2>4. m \in Nat /\ l \in Nat /\ m < Input /\ Input <= l
    BY <1>5, <1>6, <2>3
  <2>5. QED
    BY <1>5, <1>6, <2>4
<1>7. QED
  BY <1>1, <1>4, <1>6 DEF Own, Needs

LEMMA AskIsClaimStep ==
  ASSUME IInv, NEW i \in Instructions, NEW j \in Job, j.plan = job[i].plan,
         NEW lanes \in SUBSET Lanes, lanes # {}, AskFor(i, j, lanes),
         \A k \in Instructions : k < i => job[k].step # "unclaimed",
         Alone(i) => /\ j.at = 1
                     /\ \/ job[i].step = "unclaimed"
                        \/ /\ job[i].step = "queued" /\ First(j.plan, lanes) \notin Tabs
                           /\ j.held \subseteq AskedFor(i)
  PROVE  ClaimStep(i)
<1> DEFINE l == First(j.plan, lanes)
           h == [j EXCEPT !.step = "queued", !.lane = l, !.want = lanes \ {l}]
<1>1. job' = [job EXCEPT ![i] = h] /\ queue' = [queue EXCEPT ![l] = Append(@, i)]
      /\ UNCHANGED begun
  BY DEF AskFor
<1>2. h.step = "queued" /\ h.lane = l /\ h.held = j.held /\ h.at = j.at /\ h.plan = j.plan
  BY DEF Job
<1> HIDE DEF l, h
<1>3. job'[i] = h /\ \A k \in Instructions : k # i => job'[k] = job[k]
  BY <1>1 DEF IInv, TypeOK
<1>4. AskedFor(i)' = j.held \cup {l}
  BY <1>2, <1>3 DEF AskedFor
<1>5. Alone(i) /\ job[i].step = "queued" => l \notin Tabs /\ j.held \subseteq AskedFor(i)
  BY DEF l
<1>6. ASSUME NEW t \in Tabs
      PROVE  \/ queue'[t] = queue[t]
             \/ queue'[t] = Append(queue[t], i) /\ (Alone(i) => job[i].step = "unclaimed")
  <2>1. t \in Lanes
    BY DEF Lanes
  <2>2. t # l => queue'[t] = queue[t]
    BY <1>1, <2>1 DEF IInv, TypeOK
  <2>3. t = l => queue'[t] = Append(queue[t], i) /\ (Alone(i) => job[i].step = "unclaimed")
    BY <1>1, <1>5, <2>1 DEF IInv, TypeOK
  <2>4. QED
    BY <2>2, <2>3
<1>7. \A t \in Tabs : begun'[t] = begun[t]
  BY <1>1
<1>8. Alone(i) /\ job[i].step = "queued"
        => \A t \in Tabs : t \in AskedFor(i)' => t \in AskedFor(i)
  BY <1>4, <1>5
<1>9. QED
  BY <1>2, <1>3, <1>6, <1>7, <1>8 DEF ClaimStep

LEMMA BeginIsClaimStep ==
  ASSUME IInv, NEW i \in Instructions, NEW j \in Job, j.plan = job[i].plan, Begin(i, j),
         \A k \in Instructions : k < i => job[k].step # "unclaimed",
         NEW tab, tab = j.plan.actions[j.at].tab, tab \in Tabs \cup {NoLane},
         Alone(i) => /\ j.at = 1
                     /\ \/ tab = NoLane
                        \/ /\ job[i].step = "queued" /\ tab \in AskedFor(i)
                           /\ queue[tab] # <<>> /\ queue[tab][1] = i
  PROVE  ClaimStep(i)
<1> DEFINE h == [j EXCEPT !.step = "acting", !.lane = NoLane]
<1>1. /\ job' = [job EXCEPT ![i] = h] /\ UNCHANGED queue
      /\ begun' = IF tab = NoLane THEN begun ELSE [begun EXCEPT ![tab] = Append(@, i)]
  BY DEF Begin
<1>2. h.step = "acting" /\ h.at = j.at /\ h.plan = j.plan
  BY DEF Job
<1> HIDE DEF h
<1>3. job'[i] = h /\ \A k \in Instructions : k # i => job'[k] = job[k]
  BY <1>1 DEF IInv, TypeOK
<1>4. ASSUME NEW t \in Tabs
      PROVE  \/ begun'[t] = begun[t]
             \/ /\ begun'[t] = Append(begun[t], i)
                /\ Alone(i) => /\ job[i].step = "queued" /\ job'[i].step # "queued"
                               /\ t \in AskedFor(i) /\ queue[t] # <<>> /\ queue[t][1] = i
  <2>1. t # NoLane
    BY LanesAssumption DEF Lanes
  <2>2. tab # t => begun'[t] = begun[t]
    BY <1>1 DEF IInv, TypeOK
  <2>3. tab = t => begun'[t] = Append(begun[t], i)
    BY <1>1, <2>1 DEF IInv, TypeOK
  <2>4. QED
    BY <1>2, <1>3, <2>1, <2>2, <2>3
<1>5. \A t \in Tabs : queue'[t] = queue[t]
  BY <1>1
<1>6. QED
  BY <1>2, <1>3, <1>4, <1>5 DEF ClaimStep

\* The action that a job asks for or begins when it is inside its batch's lanes.
LEMMA RunIsClaimStep ==
  ASSUME IInv, NEW i \in Instructions, NEW k \in 1 .. Len(job[i].plan.actions),
         RunAction(i, job[i], k), job[i].step # "queued",
         \A m \in Instructions : m < i => job[m].step # "unclaimed",
         Alone(i) => job[i].step = "unclaimed" /\ k = 1
  PROVE  ClaimStep(i)
<1> DEFINE next == [job[i] EXCEPT !.at = k]
           needs == Needs(job[i].plan, k)
<1>1. job[i] \in Job /\ job[i].plan \in Plans
  BY DEF IInv, TypeOK, Job
<1>2. k \in Nat
  BY <1>1, PlansAssumption
<1>3. next \in Job /\ next.at = k /\ next.plan = job[i].plan
  BY <1>1, <1>2 DEF Job
<1>4. IF needs = {} THEN Begin(i, next) ELSE AskFor(i, next, needs)
  BY DEF RunAction
<1>5. needs \subseteq Lanes /\ job[i].plan.actions[k] \in Action
  BY <1>1, PlanLanes
<1> HIDE DEF next
<1>6. CASE needs = {}
  <2> DEFINE tab == next.plan.actions[next.at].tab
  <2>1. tab = job[i].plan.actions[k].tab /\ tab \in Tabs \cup {NoLane}
    BY <1>3, <1>5 DEF Action
  <2>2. Alone(i) => tab \notin Tabs
    BY <1>1, <1>6, <2>1, AloneLanes DEF Alone
  <2>3. Alone(i) => next.at = 1 /\ tab = NoLane
    BY <1>3, <2>1, <2>2
  <2>4. Begin(i, next)
    BY <1>4, <1>6
  <2> HIDE DEF tab
  <2>5. tab = next.plan.actions[next.at].tab
    BY DEF tab
  <2>6. QED
    BY <1>3, <2>1, <2>3, <2>4, <2>5, BeginIsClaimStep
<1>7. CASE needs # {}
  <2>1. AskFor(i, next, needs)
    BY <1>4, <1>7
  <2>2. Alone(i) => next.at = 1
    BY <1>3
  <2> HIDE DEF needs
  <2>3. QED
    BY <1>3, <1>5, <1>7, <2>1, <2>2, AskIsClaimStep
<1>8. QED
  BY <1>6, <1>7

LEMMA ExecuteIsClaimStep ==
  ASSUME IInv, NEW i \in Instructions, Execute(i)
  PROVE  ClaimStep(i)
<1> DEFINE outer == Outer(job[i].plan)
<1>1. /\ job[i].step = "unclaimed"
      /\ \A k \in Instructions : k < i => job[k].step # "unclaimed"
      /\ IF scheduled
           THEN /\ job' = [job EXCEPT ![i].step = "done"]
                /\ UNCHANGED <<queue, begun>>
           ELSE IF outer = {} THEN RunAction(i, job[i], 1) ELSE AskFor(i, job[i], outer)
  BY DEF Execute
<1>2. job[i] \in Job /\ job[i].plan \in Plans
  BY DEF IInv, TypeOK, Job
<1>3. 1 \in 1 .. Len(job[i].plan.actions)
  BY <1>2, PlansAssumption
<1>4. CASE scheduled
  <2>1. /\ job'[i].step = "done" /\ job'[i].plan = job[i].plan
        /\ \A k \in Instructions : k # i => job'[k] = job[k]
    BY <1>1, <1>2, <1>4 DEF IInv, TypeOK, Job
  <2>2. UNCHANGED <<queue, begun>>
    BY <1>1, <1>4
  <2>3. QED
    BY <1>1, <2>1, <2>2 DEF ClaimStep
<1>5. CASE ~scheduled /\ outer = {}
  <2>1. RunAction(i, job[i], 1)
    BY <1>1, <1>5
  <2>2. QED
    BY <1>1, <1>3, <2>1, RunIsClaimStep
<1>6. CASE ~scheduled /\ outer # {}
  <2>1. outer \subseteq Lanes
    BY <1>2, <1>3, PlanLanes
  <2>2. ~Alone(i)
    BY <1>6 DEF Alone, Outer
  <2>3. AskFor(i, job[i], outer)
    BY <1>1, <1>6
  <2> HIDE DEF outer
  <2>4. QED
    BY <1>1, <1>2, <1>6, <2>1, <2>2, <2>3, AskIsClaimStep
<1>7. QED
  BY <1>4, <1>5, <1>6

LEMMA GrantedIsClaimStep ==
  ASSUME IInv, ClaimsOK, NEW i \in Instructions, Granted(i)
  PROVE  ClaimStep(i)
<1> DEFINE j == job[i]
           inside == [j EXCEPT !.held = @ \cup {j.lane}]
<1>1. /\ j.step = "queued" /\ Head(queue[j.lane]) = i
      /\ IF j.want # {} THEN AskFor(i, inside, j.want)
         ELSE IF j.at = 0
           THEN /\ job' = [job EXCEPT ![i] = [inside EXCEPT !.step = "between",
                                                            !.lane = NoLane]]
                /\ UNCHANGED <<queue, begun>>
           ELSE Begin(i, inside)
  BY DEF Granted
<1>2. j \in Job /\ j.plan \in Plans /\ j.at \in Nat /\ j.held \subseteq Lanes
      /\ j.want \subseteq Lanes
  BY DEF IInv, TypeOK, Job
<1>3. /\ j.at <= Len(j.plan.actions) /\ j.lane \in Lanes
      /\ AskedFor(i) \cup j.want = Due(i)
      /\ \A l \in j.want : j.lane < l
  BY <1>1 DEF IInv, JobOK
<1>4. /\ inside \in Job /\ inside.held = j.held \cup {j.lane} /\ inside.plan = j.plan
      /\ inside.at = j.at
  BY <1>2, <1>3 DEF Job
<1>5. AskedFor(i) = inside.held
  BY <1>1, <1>4 DEF AskedFor
<1>6. \A k \in Instructions : k < i => job[k].step # "unclaimed"
  BY <1>1 DEF ClaimsOK
<1>7. Alone(i) => j.at = 1
  BY <1>1 DEF ClaimsOK
<1>8. Alone(i) => Due(i) = Own(j.plan.actions[1])
  <2>1. j.at = 1 => Due(i) = Outer(j.plan) \cup Needs(j.plan, 1)
    BY <1>1 DEF Due
  <2>2. ~j.plan.batch => Outer(j.plan) = {} /\ Needs(j.plan, 1) = Own(j.plan.actions[1])
    BY <1>2, AloneLanes
  <2>3. QED
    BY <1>7, <2>1, <2>2 DEF Alone
<1> HIDE DEF inside
<1>9. CASE j.want # {}
  <2>1. AskFor(i, inside, j.want)
    BY <1>1, <1>9
  <2>2. ASSUME Alone(i)
        PROVE  First(inside.plan, j.want) \notin Tabs
    <3>1. First(inside.plan, j.want) \in j.want
      BY <1>2, <1>9, FirstIsLowest
    <3>2. /\ j.lane \in Own(j.plan.actions[1])
          /\ First(inside.plan, j.want) \in Own(j.plan.actions[1])
      BY <1>3, <1>4, <1>5, <1>8, <2>2, <3>1
    <3>3. QED
      BY <1>2, <1>3, <2>2, <3>1, <3>2, AloneLanes DEF Alone
  <2>3. Alone(i) => inside.at = 1 /\ inside.held \subseteq AskedFor(i)
    BY <1>4, <1>5, <1>7
  <2> HIDE DEF j
  <2>4. inside.plan = job[i].plan /\ job[i].step = "queued"
    BY <1>1, <1>4 DEF j
  <2>5. QED
    BY <1>2, <1>4, <1>6, <1>9, <2>1, <2>2, <2>3, <2>4, AskIsClaimStep
<1>10. CASE j.want = {} /\ j.at # 0
  <2> DEFINE tab == inside.plan.actions[inside.at].tab
  <2>1. Begin(i, inside)
    BY <1>1, <1>10
  <2>2. j.at \in 1 .. Len(j.plan.actions)
    BY <1>2, <1>3, <1>10, PlansAssumption
  <2>3. tab = j.plan.actions[j.at].tab /\ tab \in Tabs \cup {NoLane}
    <3>1. j.plan.actions[j.at] \in Action
      BY <1>2, <2>2, PlanLanes
    <3>2. QED
      BY <1>4, <3>1 DEF Action
  <2>4. ASSUME Alone(i), tab # NoLane
        PROVE  tab \in AskedFor(i) /\ queue[tab] # <<>> /\ queue[tab][1] = i
    <3>1. tab \in Tabs /\ tab \in Lanes /\ tab \in AskedFor(i)
      BY <1>2, <1>3, <1>7, <1>8, <1>10, <2>3, <2>4, AloneLanes DEF Alone, Lanes
    <3>2. LaneOK(tab) /\ queue[tab] \in Seq(Instructions)
      BY <3>1 DEF IInv, TypeOK
    <3>3. \E n \in 1 .. Len(queue[tab]) : queue[tab][n] = i
      BY <3>1, <3>2 DEF LaneOK
    <3>4. queue[tab] # <<>> /\ Head(queue[tab]) = queue[tab][1]
      BY <3>2, <3>3
    <3>5. tab \in j.held => queue[tab][1] = i
      BY <3>2 DEF LaneOK
    <3>6. tab = j.lane => queue[tab][1] = i
      BY <1>1, <3>4
    <3>7. QED
      BY <1>4, <1>5, <3>1, <3>4, <3>5, <3>6
  <2>5. tab = inside.plan.actions[inside.at].tab
    OBVIOUS
  <2> HIDE DEF tab
  <2>6. Alone(i) => /\ inside.at = 1
                    /\ \/ tab = NoLane
                       \/ /\ job[i].step = "queued" /\ tab \in AskedFor(i)
                          /\ queue[tab] # <<>> /\ queue[tab][1] = i
    BY <1>1, <1>4, <1>7, <2>4
  <2>7. inside.plan = job[i].plan
    BY <1>4
  <2>8. QED
    BY <1>4, <1>6, <2>1, <2>3, <2>5, <2>6, <2>7, BeginIsClaimStep
<1>11. CASE j.want = {} /\ j.at = 0
  <2> DEFINE h == [inside EXCEPT !.step = "between", !.lane = NoLane]
  <2>1. h.step = "between" /\ h.plan = j.plan
    BY <1>4 DEF Job
  <2>2. job' = [job EXCEPT ![i] = h] /\ UNCHANGED <<queue, begun>>
    BY <1>1, <1>11
  <2> HIDE DEF h
  <2>3. job'[i] = h /\ \A k \in Instructions : k # i => job'[k] = job[k]
    BY <2>2 DEF IInv, TypeOK
  <2>4. ~Alone(i)
    BY <1>7, <1>11
  <2>5. QED
    BY <1>6, <2>1, <2>2, <2>3, <2>4 DEF ClaimStep
<1>12. QED
  BY <1>9, <1>10, <1>11

\* Giving lanes back, after an action or at the end.
LEMMA SettleIsClaimStep ==
  ASSUME IInv, ClaimsOK, NEW i \in Instructions, NEW h, NEW lanes \in SUBSET job[i].held,
         UNCHANGED begun, queue' = Settle(lanes), job' = [job EXCEPT ![i] = h],
         h.plan = job[i].plan, h.at = job[i].at, h.step \in {"between", "done"},
         job[i].step \in {"acting", "between"}
  PROVE  ClaimStep(i)
<1>1. job'[i] = h /\ \A k \in Instructions : k # i => job'[k] = job[k]
  BY DEF IInv, TypeOK
<1>2. \A k \in Instructions : k < i => job[k].step # "unclaimed"
  BY DEF ClaimsOK
<1>3. Alone(i) => h.at = 1
  BY DEF ClaimsOK
<1>4. ASSUME NEW t \in Tabs
      PROVE  queue'[t] = queue[t] \/ (queue[t] # <<>> /\ queue'[t] = Tail(queue[t]))
  <2>1. t \in Lanes /\ LaneOK(t) /\ queue[t] \in Seq(Instructions)
    BY DEF IInv, TypeOK, Lanes
  <2>2. t \notin lanes => queue'[t] = queue[t]
    BY <2>1 DEF Settle
  <2>3. ASSUME t \in lanes
        PROVE  queue[t] # <<>> /\ queue'[t] = Tail(queue[t])
    <3>1. t \in AskedFor(i)
      BY <2>3 DEF AskedFor
    <3>2. \E n \in 1 .. Len(queue[t]) : queue[t][n] = i
      BY <2>1, <3>1 DEF LaneOK
    <3>3. QED
      BY <2>1, <2>3, <3>2 DEF Settle
  <2>4. QED
    BY <2>2, <2>3
<1>5. \A t \in Tabs : begun'[t] = begun[t]
  OBVIOUS
<1>6. QED
  BY <1>1, <1>2, <1>3, <1>4, <1>5 DEF ClaimStep

\* Whatever i does is such a step.
LEMMA JobStepIsClaimStep ==
  ASSUME IInv, ClaimsOK, NEW i \in Instructions, JobStep(i)
  PROVE  ClaimStep(i)
<1>1. job[i] \in Job /\ job[i].plan \in Plans /\ job[i].at \in Nat
  BY DEF IInv, TypeOK, Job
<1>2. ASSUME SettleAction(i) PROVE ClaimStep(i)
  <2> DEFINE own == job[i].held \ Outer(job[i].plan)
             h == [job[i] EXCEPT !.step = "between", !.held = @ \ own]
  <2>1. /\ job[i].step = "acting" /\ queue' = Settle(own) /\ job' = [job EXCEPT ![i] = h]
        /\ UNCHANGED begun
    BY <1>2 DEF SettleAction
  <2>2. h.step = "between" /\ h.at = job[i].at /\ h.plan = job[i].plan
    BY <1>1 DEF Job
  <2>3. own \in SUBSET job[i].held
    OBVIOUS
  <2> HIDE DEF h, own
  <2>4. QED
    BY <2>1, <2>2, <2>3, SettleIsClaimStep
<1>3. ASSUME Finish(i) PROVE ClaimStep(i)
  <2> DEFINE h == [job[i] EXCEPT !.step = "done", !.held = {}]
             lanes == job[i].held
  <2>1. /\ job[i].step = "between" /\ queue' = Settle(lanes)
        /\ job' = [job EXCEPT ![i] = h] /\ UNCHANGED begun
    BY <1>3 DEF Finish
  <2>2. h.step = "done" /\ h.at = job[i].at /\ h.plan = job[i].plan
    BY <1>1 DEF Job
  <2>3. lanes \in SUBSET job[i].held
    OBVIOUS
  <2> HIDE DEF h, lanes
  <2>4. QED
    BY <2>1, <2>2, <2>3, SettleIsClaimStep
<1>4. ASSUME NextAction(i) PROVE ClaimStep(i)
  <2>1. /\ job[i].step = "between" /\ job[i].at < Len(job[i].plan.actions)
        /\ RunAction(i, job[i], job[i].at + 1)
    BY <1>4 DEF NextAction
  <2>2. Len(job[i].plan.actions) \in Nat
    BY <1>1, PlansAssumption
  <2>3. job[i].at + 1 \in 1 .. Len(job[i].plan.actions)
    BY <1>1, <2>1, <2>2
  <2>4. ~Alone(i)
    <3>1. Alone(i) => job[i].at = 1
      BY <2>1 DEF ClaimsOK
    <3>2. Alone(i) => Len(job[i].plan.actions) = 1
      BY <1>1, AloneLanes DEF Alone
    <3>3. Alone(i) => 1 < 1
      BY <2>1, <3>1, <3>2
    <3>4. ~(1 < 1)
      OBVIOUS
    <3>5. QED
      BY <3>3, <3>4
  <2>5. \A k \in Instructions : k < i => job[k].step # "unclaimed"
    BY <2>1 DEF ClaimsOK
  <2>6. QED
    BY <2>1, <2>3, <2>4, <2>5, RunIsClaimStep
<1>5. QED
  BY <1>2, <1>3, <1>4, GrantedIsClaimStep DEF JobStep

\* The claim order's invariant: who is claimed, who waits in a tab's queue and who has
\* begun on the tab.
THEOREM ClaimsInvariant == Spec => []ClaimsOK
<1>1. Init => ClaimsOK
  <2> SUFFICES ASSUME Init PROVE ClaimsOK
    OBVIOUS
  <2>1. \A i \in Instructions : job[i].step = "unclaimed"
    BY DEF Init, Unclaimed
  <2>2. \A t \in Tabs : queue[t] = <<>> /\ begun[t] = <<>>
    BY DEF Init, Lanes
  <2>3. \A t \in Tabs : 1 .. Len(queue[t]) = {} /\ 1 .. Len(begun[t]) = {}
    BY <2>2
  <2>4. QED
    BY <2>1, <2>3 DEF ClaimsOK, SingleActionsInClaimOrder
<1>2. IInv /\ ClaimsOK /\ [Next]_vars => ClaimsOK'
  <2> SUFFICES ASSUME IInv, ClaimsOK, [Next]_vars PROVE ClaimsOK'
    OBVIOUS
  <2>1. ASSUME NEW i \in Instructions, Execute(i) \/ JobStep(i) PROVE ClaimsOK'
    BY <2>1, ExecuteIsClaimStep, JobStepIsClaimStep, ClaimStepKeeps
  <2>2. ASSUME UNCHANGED <<queue, job, begun>> PROVE ClaimsOK'
    BY <2>2 DEF ClaimsOK, Alone, AskedFor, SingleActionsInClaimOrder
  <2>3. QED
    BY <2>1, <2>2 DEF Next, ScheduleReinstall, AllDone, vars
<1>3. QED
  BY <1>1, <1>2, QueuesInvariant, PTL DEF Spec

\* Actions that are not in a batch begin on a tab in the order in which they were
\* claimed, whatever else the tab's queue, the input queue and overlapping batches do:
\* executeInstruction reaches the tab's queue without an await before it.
THEOREM SinglesBeginInClaimOrder == Spec => []SingleActionsInClaimOrder
<1>1. ClaimsOK => SingleActionsInClaimOrder
  BY DEF ClaimsOK
<1>2. QED
  BY <1>1, ClaimsInvariant, PTL

(***************************************************************************)
(* What the queues promise: ExclusiveActions.  Asking for a lane and       *)
(* getting one of several are invisible; an action begins with its last    *)
(* lane.                                                                   *)
(***************************************************************************)

\* A job that becomes h is mapped to what h is mapped to.
LEMMA MapStep ==
  ASSUME IInv, NEW i \in Instructions, NEW h, h.plan = job[i].plan,
         job' = [job EXCEPT ![i] = h]
  PROVE  /\ PlanOfJobs' = PlanOfJobs
         /\ RanOfJobs' = [RanOfJobs EXCEPT ![i] = RanOf(h)]
         /\ PhaseOfJobs' = [PhaseOfJobs EXCEPT ![i] = PhaseOf(h)]
<1>1. job'[i] = h /\ \A k \in Instructions : k # i => job'[k] = job[k]
  BY DEF IInv, TypeOK
<1>2. \A k \in Instructions : job'[k].plan = job[k].plan
  BY <1>1
<1>3. PlanOfJobs' = PlanOfJobs
  BY <1>2 DEF PlanOfJobs
<1>4. RanOfJobs' = [RanOfJobs EXCEPT ![i] = RanOf(h)]
  <2>1. RanOfJobs' = [k \in Instructions |-> RanOf(job'[k])]
    BY DEF RanOfJobs, RanOf
  <2>2. \A k \in Instructions : RanOf(job'[k]) = IF k = i THEN RanOf(h) ELSE RanOf(job[k])
    BY <1>1
  <2>3. QED
    BY <2>1, <2>2 DEF RanOfJobs
<1>5. PhaseOfJobs' = [PhaseOfJobs EXCEPT ![i] = PhaseOf(h)]
  <2>1. PhaseOfJobs' = [k \in Instructions |-> PhaseOf(job'[k])]
    BY DEF PhaseOfJobs, PhaseOf
  <2>2. \A k \in Instructions :
          PhaseOf(job'[k]) = IF k = i THEN PhaseOf(h) ELSE PhaseOf(job[k])
    BY <1>1
  <2>3. QED
    BY <2>1, <2>2 DEF PhaseOfJobs
<1>6. QED
  BY <1>3, <1>4, <1>5

\* What it has run, is at and is in the middle of may all stay the same.
LEMMA MapStutter ==
  ASSUME IInv, NEW i \in Instructions, NEW h, h.plan = job[i].plan,
         job' = [job EXCEPT ![i] = h], UNCHANGED scheduled,
         RanOf(h) = RanOf(job[i]), PhaseOf(h) = PhaseOf(job[i])
  PROVE  UNCHANGED Exclusive!exclusiveVars
<1>1. RanOfJobs[i] = RanOf(job[i]) /\ PhaseOfJobs[i] = PhaseOf(job[i])
  BY DEF RanOfJobs, PhaseOfJobs
<1>2. RanOfJobs' = RanOfJobs /\ PhaseOfJobs' = PhaseOfJobs
  <2>1. [RanOfJobs EXCEPT ![i] = RanOfJobs[i]] = RanOfJobs
    BY DEF RanOfJobs
  <2>2. [PhaseOfJobs EXCEPT ![i] = PhaseOfJobs[i]] = PhaseOfJobs
    BY DEF PhaseOfJobs
  <2>3. /\ RanOfJobs' = [RanOfJobs EXCEPT ![i] = RanOf(h)]
        /\ PhaseOfJobs' = [PhaseOfJobs EXCEPT ![i] = PhaseOf(h)]
    BY MapStep
  <2>4. QED
    BY <1>1, <2>1, <2>2, <2>3
<1>3. PlanOfJobs' = PlanOfJobs
  BY MapStep
<1>4. QED
  BY <1>2, <1>3 DEF Exclusive!exclusiveVars

\* Whoever has a lane in use, to an observer, is the first of its queue.
LEMMA InUseIsFirst ==
  ASSUME IInv, NEW k \in Instructions, NEW l \in Exclusive!InUse(k)
  PROVE  l \in Lanes /\ queue[l][1] = k
<1>1. /\ PlanOfJobs[k] = job[k].plan /\ RanOfJobs[k] = RanOf(job[k])
      /\ PhaseOfJobs[k] = PhaseOf(job[k])
  BY DEF PlanOfJobs, RanOfJobs, PhaseOfJobs
<1>2. job[k].at \in Nat
  BY DEF IInv, TypeOK, Job
<1>3. RanOf(job[k]) > 0 => job[k].at > 0
  BY <1>2 DEF RanOf
<1>4. /\ PhaseOf(job[k]) # "over" <=> job[k].step # "done"
      /\ PhaseOf(job[k]) = "acting" <=> job[k].step = "acting"
      /\ job[k].step = "acting" => RanOf(job[k]) = job[k].at
  BY DEF PhaseOf, RanOf
<1>5. Exclusive!Kept(job[k].plan) = Outer(job[k].plan)
      /\ \A a : Exclusive!Own(a) = Own(a)
  BY DEF Exclusive!Kept, Outer, Exclusive!Own, Own
<1>6. l \in Occupied(k)
  BY <1>1, <1>3, <1>4, <1>5 DEF Exclusive!InUse, Occupied
<1>7. l \in Lanes /\ l \in job[k].held
  BY <1>6, OccupiedIsHeld
<1>8. QED
  BY <1>7 DEF IInv, LaneOK

\* A single action that has not begun is ahead of later ones in its tab's queue.
LEMMA ToComeIsAhead ==
  ASSUME IInv, ClaimsOK, NEW k \in Instructions, Exclusive!ToCome(k),
         job[k].step # "unclaimed", NEW t \in Tabs, job[k].plan.actions[1].tab = t,
         NEW i \in Instructions, Alone(i), queue[t][1] = i
  PROVE  i <= k
<1>1. Alone(k) /\ PhaseOf(job[k]) = "waiting" /\ RanOf(job[k]) = 0
  BY DEF Exclusive!ToCome, PlanOfJobs, RanOfJobs, PhaseOfJobs, Alone
<1>2. job[k] \in Job /\ job[k].step \in {"queued", "between"} /\ job[k].plan \in Plans
  BY <1>1 DEF IInv, TypeOK, Job, Steps, PhaseOf
<1>3. job[k].at = 1
  BY <1>1, <1>2 DEF ClaimsOK
<1>4. job[k].step = "queued"
  BY <1>1, <1>2, <1>3 DEF RanOf
<1>5. Due(k) = Own(job[k].plan.actions[1]) /\ t \in Due(k)
  BY <1>1, <1>2, <1>3, <1>4, AloneLanes DEF Due, Alone
<1>6. /\ AskedFor(k) \cup job[k].want = Due(k)
      /\ job[k].lane \in AskedFor(k)
      /\ \A l \in job[k].want : job[k].lane < l
  BY <1>4 DEF IInv, JobOK, AskedFor
<1>7. t \notin job[k].want
  BY <1>1, <1>2, <1>5, <1>6, AloneLanes DEF Alone
<1>8. t \in AskedFor(k) /\ t \in Lanes /\ LaneOK(t) /\ queue[t] \in Seq(Instructions)
  BY <1>5, <1>6, <1>7 DEF Lanes, IInv, TypeOK
<1>9. PICK n \in 1 .. Len(queue[t]) : queue[t][n] = k
  BY <1>8 DEF LaneOK
<1>10. i \in Nat /\ k \in Nat
  BY InstructionsAssumption
<1>11. CASE n = 1
  BY <1>9, <1>10, <1>11
<1>12. CASE n # 1
  <2>1. 1 \in 1 .. Len(queue[t]) /\ 1 < n
    BY <1>8, <1>9, <1>12
  <2>2. i < k
    BY <1>1, <1>9, <2>1 DEF ClaimsOK
  <2>3. QED
    BY <1>10, <2>2
<1>13. QED
  BY <1>11, <1>12

\* Inside all its lanes, an action begins as the promise has it.
LEMMA BeginIsAbstract ==
  ASSUME IInv, ClaimsOK, NEW i \in Instructions, ClaimStep(i), UNCHANGED scheduled,
         NEW j, Inside(i, j), j.plan = job[i].plan, Begin(i, j),
         j.at \in 1 .. Len(j.plan.actions), RanOf(job[i]) = j.at - 1,
         PhaseOf(job[i]) = "waiting", j.held = Outer(j.plan) \cup Needs(j.plan, j.at)
  PROVE  Exclusive!BeginAction(i)
<1> DEFINE h == [j EXCEPT !.step = "acting", !.lane = NoLane]
           a == j.plan.actions[j.at]
<1>1. h.step = "acting" /\ h.at = j.at /\ h.plan = j.plan
  BY DEF Inside, Job
<1>2. job' = [job EXCEPT ![i] = h]
      /\ begun' = IF a.tab = NoLane THEN begun ELSE [begun EXCEPT ![a.tab] = Append(@, i)]
  BY DEF Begin
<1>3. RanOf(h) = j.at /\ PhaseOf(h) = "acting"
  BY <1>1 DEF RanOf, PhaseOf
<1>4. j.plan \in Plans /\ j.at \in Nat /\ Len(j.plan.actions) \in Nat
  BY PlansAssumption DEF Inside, Job
<1> HIDE DEF h
<1>5. /\ PlanOfJobs' = PlanOfJobs
      /\ RanOfJobs' = [RanOfJobs EXCEPT ![i] = j.at]
      /\ PhaseOfJobs' = [PhaseOfJobs EXCEPT ![i] = "acting"]
  <2>1. /\ PlanOfJobs' = PlanOfJobs
        /\ RanOfJobs' = [RanOfJobs EXCEPT ![i] = RanOf(h)]
        /\ PhaseOfJobs' = [PhaseOfJobs EXCEPT ![i] = PhaseOf(h)]
    BY <1>1, <1>2, MapStep
  <2>2. QED
    BY <1>3, <2>1
<1>6. /\ PlanOfJobs[i] = j.plan /\ RanOfJobs[i] = j.at - 1 /\ PhaseOfJobs[i] = "waiting"
      /\ \A k \in Instructions : PlanOfJobs[k] = job[k].plan
  BY DEF PlanOfJobs, RanOfJobs, PhaseOfJobs
<1>7. (j.at - 1) + 1 = j.at /\ j.at - 1 < Len(j.plan.actions)
  BY <1>4
<1>8. Exclusive!Own(a) \cup Exclusive!Kept(j.plan) \subseteq j.held
  <2>1. Own(a) \subseteq Outer(j.plan) \cup Needs(j.plan, j.at)
    BY <1>4, PlanLanes
  <2>2. Exclusive!Own(a) = Own(a) /\ Exclusive!Kept(j.plan) = Outer(j.plan)
    BY DEF Exclusive!Kept, Outer, Exclusive!Own, Own
  <2>3. QED
    BY <2>1, <2>2
<1>9. ASSUME NEW k \in Instructions \ {i}
      PROVE  Exclusive!InUse(k) \cap (Exclusive!Own(a) \cup Exclusive!Kept(j.plan)) = {}
  <2>1. ASSUME NEW l \in Exclusive!InUse(k), l \in j.held
        PROVE  FALSE
    <3>1. queue[l][1] = k
      BY InUseIsFirst
    <3>2. queue[l][1] = i
      BY <2>1 DEF Inside
    <3>3. QED
      BY <3>1, <3>2
  <2>2. QED
    BY <1>8, <2>1
<1>10. a.tab \in Tabs \cup {NoLane}
  BY <1>4, PlanLanes DEF Action
<1>11. ASSUME ~j.plan.batch, a.tab # NoLane
       PROVE  queue[a.tab][1] = i
  <2>1. a.tab \in Tabs /\ begun[a.tab] \in Seq(Instructions)
    BY <1>10, <1>11 DEF IInv, TypeOK
  <2>2. begun'[a.tab] = Append(begun[a.tab], i)
    BY <1>2, <1>11, <2>1 DEF IInv, TypeOK
  <2>3. Len(begun'[a.tab]) # Len(begun[a.tab])
    <3>1. ASSUME NEW s \in Seq(Instructions)
          PROVE  Len(Append(s, i)) # Len(s)
      OBVIOUS
    <3>2. QED
      BY <2>1, <2>2, <3>1
  <2>4. begun'[a.tab] # begun[a.tab]
    BY <2>3
  <2>5. QED
    BY <1>11, <2>1, <2>4 DEF ClaimStep, Alone
<1>12. ASSUME ~j.plan.batch, a.tab # NoLane,
              NEW k \in Instructions, k < i, Exclusive!ToCome(k)
       PROVE  job[k].plan.actions[1].tab # a.tab
  <2> SUFFICES ASSUME job[k].plan.actions[1].tab = a.tab PROVE FALSE
    OBVIOUS
  <2>1. a.tab \in Tabs /\ Alone(i) /\ queue[a.tab][1] = i
    BY <1>10, <1>11, <1>12 DEF Alone
  <2>2. job[k].step # "unclaimed"
    BY <1>12 DEF ClaimStep
  <2> HIDE DEF a
  <2>3. i <= k
    BY <1>12, <2>1, <2>2, ToComeIsAhead
  <2>4. i \in Nat /\ k \in Nat
    BY InstructionsAssumption
  <2>5. QED
    BY <1>12, <2>3, <2>4
<1>13. PlanOfJobs[i].actions[RanOfJobs[i] + 1] = a
  BY <1>6, <1>7
<1> HIDE DEF a
<1>14. QED
  BY <1>5, <1>6, <1>7, <1>9, <1>12, <1>13 DEF Exclusive!BeginAction

\* Asking for another lane is invisible.
LEMMA AskIsAbstract ==
  ASSUME IInv, NEW i \in Instructions, UNCHANGED scheduled, NEW j \in Job,
         j.plan = job[i].plan, NEW lanes, AskFor(i, j, lanes),
         RanOf(job[i]) = IF j.at > 0 THEN j.at - 1 ELSE j.at, PhaseOf(job[i]) = "waiting"
  PROVE  UNCHANGED Exclusive!exclusiveVars
<1> DEFINE l == First(j.plan, lanes)
           h == [j EXCEPT !.step = "queued", !.lane = l, !.want = lanes \ {l}]
<1>1. h.step = "queued" /\ h.at = j.at /\ h.plan = j.plan
  BY DEF Job
<1>2. job' = [job EXCEPT ![i] = h]
  BY DEF AskFor
<1>3. RanOf(h) = RanOf(job[i]) /\ PhaseOf(h) = PhaseOf(job[i])
  BY <1>1 DEF RanOf, PhaseOf
<1> HIDE DEF h
<1>4. QED
  BY <1>1, <1>2, <1>3, MapStutter

\* The next action: it begins, or asks for its first lane.
LEMMA RunIsAbstract ==
  ASSUME IInv, ClaimsOK, NEW i \in Instructions, ClaimStep(i), UNCHANGED scheduled,
         NEW k \in 1 .. Len(job[i].plan.actions), k = job[i].at + 1,
         job[i].step \in {"unclaimed", "between"}, job[i].held = Outer(job[i].plan),
         RunAction(i, job[i], k)
  PROVE  Exclusive!BeginAction(i) \/ UNCHANGED Exclusive!exclusiveVars
<1> DEFINE next == [job[i] EXCEPT !.at = k]
           needs == Needs(job[i].plan, k)
<1>1. job[i] \in Job /\ job[i].plan \in Plans /\ job[i].at \in Nat
  BY DEF IInv, TypeOK, Job
<1>2. k \in Nat /\ k > 0 /\ k - 1 = job[i].at
  BY <1>1
<1>3. /\ next \in Job /\ next.at = k /\ next.held = job[i].held
      /\ next.plan = job[i].plan
  BY <1>1, <1>2 DEF Job
<1>4. IF needs = {} THEN Begin(i, next) ELSE AskFor(i, next, needs)
  BY DEF RunAction
<1>5. RanOf(job[i]) = next.at - 1 /\ PhaseOf(job[i]) = "waiting"
  BY <1>2, <1>3 DEF RanOf, PhaseOf
<1>6. Inside(i, next)
  <2>1. AskedFor(i) = job[i].held
    BY DEF AskedFor
  <2>2. \A l \in job[i].held : l \in Lanes
    BY <1>1 DEF Job
  <2>3. \A l \in job[i].held : queue[l][1] = i
    BY <2>2 DEF IInv, LaneOK
  <2>4. QED
    BY <1>3, <2>1, <2>3 DEF Inside
<1> HIDE DEF next
<1>7. CASE needs = {}
  <2>1. next.held = Outer(next.plan) \cup Needs(next.plan, next.at)
    BY <1>3, <1>7
  <2>2. Begin(i, next)
    BY <1>4, <1>7
  <2>3. QED
    BY <1>3, <1>5, <1>6, <2>1, <2>2, BeginIsAbstract
<1>8. CASE needs # {}
  <2>1. AskFor(i, next, needs)
    BY <1>4, <1>8
  <2>2. RanOf(job[i]) = IF next.at > 0 THEN next.at - 1 ELSE next.at
    BY <1>2, <1>3, <1>5
  <2> HIDE DEF needs
  <2>3. QED
    BY <1>3, <1>5, <2>1, <2>2, AskIsAbstract
<1>9. QED
  BY <1>7, <1>8

\* The end of an instruction, with its last action or for a reinstall.
LEMMA EndIsAbstract ==
  ASSUME IInv, NEW i \in Instructions, UNCHANGED scheduled, NEW h,
         job' = [job EXCEPT ![i] = h], h.step = "done", h.plan = job[i].plan,
         h.at = job[i].at, job[i].step \in {"unclaimed", "between"},
         scheduled \/ job[i].at = Len(job[i].plan.actions)
  PROVE  Exclusive!End(i)
<1>1. /\ RanOf(job[i]) = job[i].at /\ PhaseOf(job[i]) = "waiting"
      /\ RanOf(h) = job[i].at /\ PhaseOf(h) = "over"
  BY DEF RanOf, PhaseOf
<1>2. /\ PlanOfJobs[i] = job[i].plan /\ RanOfJobs[i] = job[i].at
      /\ PhaseOfJobs[i] = "waiting"
  BY <1>1 DEF PlanOfJobs, RanOfJobs, PhaseOfJobs
<1>3. /\ PlanOfJobs' = PlanOfJobs
      /\ RanOfJobs' = [RanOfJobs EXCEPT ![i] = RanOf(h)]
      /\ PhaseOfJobs' = [PhaseOfJobs EXCEPT ![i] = PhaseOf(h)]
  BY MapStep
<1>4. RanOfJobs' = RanOfJobs /\ PhaseOfJobs' = [PhaseOfJobs EXCEPT ![i] = "over"]
  <2>1. [RanOfJobs EXCEPT ![i] = RanOfJobs[i]] = RanOfJobs
    BY DEF RanOfJobs
  <2>2. QED
    BY <1>1, <1>2, <1>3, <2>1
<1>5. QED
  BY <1>2, <1>3, <1>4 DEF Exclusive!End

LEMMA ExecuteIsAbstract ==
  ASSUME IInv, ClaimsOK, NEW i \in Instructions, Execute(i)
  PROVE  Exclusive!Next \/ UNCHANGED Exclusive!exclusiveVars
<1> DEFINE outer == Outer(job[i].plan)
<1>1. /\ job[i].step = "unclaimed" /\ UNCHANGED scheduled
      /\ IF scheduled
           THEN /\ job' = [job EXCEPT ![i].step = "done"]
                /\ UNCHANGED <<queue, begun>>
           ELSE IF outer = {} THEN RunAction(i, job[i], 1) ELSE AskFor(i, job[i], outer)
  BY DEF Execute
<1>2. job[i] \in Job /\ job[i].plan \in Plans
  BY DEF IInv, TypeOK, Job
<1>3. job[i].at = 0 /\ job[i].held = {}
  BY <1>1 DEF IInv, JobOK, Due, AskedFor
<1>4. CASE scheduled
  <2> DEFINE h == [job[i] EXCEPT !.step = "done"]
  <2>1. h.step = "done" /\ h.at = job[i].at /\ h.plan = job[i].plan
    BY <1>2 DEF Job
  <2>2. job' = [job EXCEPT ![i] = h]
    BY <1>1, <1>4
  <2> HIDE DEF h
  <2>3. Exclusive!End(i)
    BY <1>1, <1>4, <2>1, <2>2, EndIsAbstract
  <2>4. QED
    BY <2>3 DEF Exclusive!Next
<1>5. CASE ~scheduled /\ outer = {}
  <2>1. 1 \in 1 .. Len(job[i].plan.actions) /\ 1 = job[i].at + 1
    BY <1>2, <1>3, PlansAssumption
  <2>2. ClaimStep(i)
    BY ExecuteIsClaimStep
  <2>3. Exclusive!BeginAction(i) \/ UNCHANGED Exclusive!exclusiveVars
    BY <1>1, <1>3, <1>5, <2>1, <2>2, RunIsAbstract
  <2>4. QED
    BY <2>3 DEF Exclusive!Next
<1>6. CASE ~scheduled /\ outer # {}
  <2>1. AskFor(i, job[i], outer)
    BY <1>1, <1>6
  <2>2. RanOf(job[i]) = (IF job[i].at > 0 THEN job[i].at - 1 ELSE job[i].at)
        /\ PhaseOf(job[i]) = "waiting"
    BY <1>1, <1>3 DEF RanOf, PhaseOf
  <2> HIDE DEF outer
  <2>3. QED
    BY <1>1, <1>2, <2>1, <2>2, AskIsAbstract
<1>7. QED
  BY <1>4, <1>5, <1>6

LEMMA GrantedIsAbstract ==
  ASSUME IInv, ClaimsOK, NEW i \in Instructions, Granted(i)
  PROVE  Exclusive!Next \/ UNCHANGED Exclusive!exclusiveVars
<1> DEFINE j == job[i]
           inside == [j EXCEPT !.held = @ \cup {j.lane}]
<1>1. /\ j.step = "queued" /\ Head(queue[j.lane]) = i /\ UNCHANGED scheduled
      /\ IF j.want # {} THEN AskFor(i, inside, j.want)
         ELSE IF j.at = 0
           THEN /\ job' = [job EXCEPT ![i] = [inside EXCEPT !.step = "between",
                                                            !.lane = NoLane]]
                /\ UNCHANGED <<queue, begun>>
           ELSE Begin(i, inside)
  BY DEF Granted
<1>2. j \in Job /\ j.plan \in Plans /\ j.at \in Nat /\ j.held \subseteq Lanes
      /\ j.want \subseteq Lanes
  BY DEF IInv, TypeOK, Job
<1>3. /\ j.at <= Len(j.plan.actions) /\ j.lane \in Lanes
      /\ AskedFor(i) \cup j.want = Due(i)
  BY <1>1 DEF IInv, JobOK
<1>4. /\ inside \in Job /\ inside.held = j.held \cup {j.lane} /\ inside.plan = j.plan
      /\ inside.at = j.at
  BY <1>2, <1>3 DEF Job
<1>5. AskedFor(i) = inside.held
  BY <1>1, <1>4 DEF AskedFor
<1>6. RanOf(j) = (IF j.at > 0 THEN j.at - 1 ELSE j.at) /\ PhaseOf(j) = "waiting"
  BY <1>1 DEF RanOf, PhaseOf
<1>7. Inside(i, inside)
  <2>1. queue[j.lane][1] = i
    BY <1>1, <1>3 DEF IInv, TypeOK
  <2>2. \A l \in j.held : queue[l][1] = i
    BY <1>2 DEF IInv, LaneOK
  <2>3. QED
    BY <1>4, <1>5, <2>1, <2>2 DEF Inside
<1> HIDE DEF inside
<1>8. CASE j.want # {}
  <2>1. AskFor(i, inside, j.want)
    BY <1>1, <1>8
  <2>2. QED
    BY <1>1, <1>4, <1>6, <2>1, AskIsAbstract
<1>9. CASE j.want = {} /\ j.at # 0
  <2>1. Begin(i, inside)
    BY <1>1, <1>9
  <2>2. inside.at \in 1 .. Len(inside.plan.actions)
    BY <1>2, <1>3, <1>4, <1>9, PlansAssumption
  <2>3. Due(i) = Outer(j.plan) \cup Needs(j.plan, j.at)
    BY <1>1, <1>9 DEF Due
  <2>4. inside.held = Outer(inside.plan) \cup Needs(inside.plan, inside.at)
    BY <1>3, <1>4, <1>5, <1>9, <2>3
  <2>5. RanOf(job[i]) = inside.at - 1
    BY <1>2, <1>4, <1>6, <1>9
  <2>6. ClaimStep(i)
    BY GrantedIsClaimStep
  <2>7. Exclusive!BeginAction(i)
    BY <1>1, <1>4, <1>6, <1>7, <2>1, <2>2, <2>4, <2>5, <2>6, BeginIsAbstract
  <2>8. QED
    BY <2>7 DEF Exclusive!Next
<1>10. CASE j.want = {} /\ j.at = 0
  <2> DEFINE h == [inside EXCEPT !.step = "between", !.lane = NoLane]
  <2>1. h.step = "between" /\ h.at = 0 /\ h.plan = j.plan
    BY <1>4, <1>10 DEF Job
  <2>2. job' = [job EXCEPT ![i] = h]
    BY <1>1, <1>10
  <2>3. RanOf(h) = RanOf(j) /\ PhaseOf(h) = PhaseOf(j)
    BY <1>6, <1>10, <2>1 DEF RanOf, PhaseOf
  <2> HIDE DEF h
  <2>4. QED
    BY <1>1, <2>1, <2>2, <2>3, MapStutter
<1>11. QED
  BY <1>8, <1>9, <1>10

LEMMA JobStepIsAbstract ==
  ASSUME IInv, ClaimsOK, NEW i \in Instructions, JobStep(i)
  PROVE  Exclusive!Next \/ UNCHANGED Exclusive!exclusiveVars
<1>1. job[i] \in Job /\ job[i].plan \in Plans /\ job[i].at \in Nat
  BY DEF IInv, TypeOK, Job
<1>2. ASSUME SettleAction(i) PROVE Exclusive!EndAction(i)
  <2> DEFINE own == job[i].held \ Outer(job[i].plan)
             h == [job[i] EXCEPT !.step = "between", !.held = @ \ own]
  <2>1. job[i].step = "acting" /\ job' = [job EXCEPT ![i] = h] /\ UNCHANGED scheduled
    BY <1>2 DEF SettleAction
  <2>2. h.step = "between" /\ h.at = job[i].at /\ h.plan = job[i].plan
    BY <1>1 DEF Job
  <2>3. RanOf(h) = RanOf(job[i]) /\ PhaseOf(h) = "waiting" /\ PhaseOf(job[i]) = "acting"
    BY <2>1, <2>2 DEF RanOf, PhaseOf
  <2> HIDE DEF h
  <2>4. /\ PlanOfJobs' = PlanOfJobs
        /\ RanOfJobs' = [RanOfJobs EXCEPT ![i] = RanOf(job[i])]
        /\ PhaseOfJobs' = [PhaseOfJobs EXCEPT ![i] = "waiting"]
    <3>1. /\ PlanOfJobs' = PlanOfJobs
          /\ RanOfJobs' = [RanOfJobs EXCEPT ![i] = RanOf(h)]
          /\ PhaseOfJobs' = [PhaseOfJobs EXCEPT ![i] = PhaseOf(h)]
      BY <2>1, <2>2, MapStep
    <3>2. QED
      BY <2>3, <3>1
  <2>5. RanOfJobs' = RanOfJobs /\ PhaseOfJobs[i] = "acting"
    BY <2>3, <2>4 DEF RanOfJobs, PhaseOfJobs
  <2>6. QED
    BY <2>1, <2>4, <2>5 DEF Exclusive!EndAction
<1>3. ASSUME Finish(i) PROVE Exclusive!End(i)
  <2> DEFINE h == [job[i] EXCEPT !.step = "done", !.held = {}]
  <2>1. /\ job[i].step = "between" /\ job' = [job EXCEPT ![i] = h] /\ UNCHANGED scheduled
        /\ scheduled \/ job[i].at = Len(job[i].plan.actions)
    BY <1>3 DEF Finish
  <2>2. h.step = "done" /\ h.at = job[i].at /\ h.plan = job[i].plan
    BY <1>1 DEF Job
  <2> HIDE DEF h
  <2>3. QED
    BY <2>1, <2>2, EndIsAbstract
<1>4. ASSUME NextAction(i)
      PROVE  Exclusive!BeginAction(i) \/ UNCHANGED Exclusive!exclusiveVars
  <2>1. /\ job[i].step = "between" /\ job[i].at < Len(job[i].plan.actions)
        /\ RunAction(i, job[i], job[i].at + 1) /\ UNCHANGED scheduled
    BY <1>4 DEF NextAction
  <2>2. Len(job[i].plan.actions) \in Nat
    BY <1>1, PlansAssumption
  <2>3. job[i].at + 1 \in 1 .. Len(job[i].plan.actions)
    BY <1>1, <2>1, <2>2
  <2>4. job[i].held = Outer(job[i].plan)
    BY <2>1 DEF IInv, JobOK, AskedFor, Due
  <2>5. ClaimStep(i)
    BY JobStepIsClaimStep
  <2>6. QED
    BY <2>1, <2>3, <2>4, <2>5, RunIsAbstract
<1>5. QED
  BY <1>2, <1>3, <1>4, GrantedIsAbstract DEF JobStep, Exclusive!Next

\* The queues keep the promise of ExclusiveActions: runInstruction and the queues of
\* execution.ts, input.ts, tabs.ts and proxy.ts give each action its tab and its
\* browser-wide lane as if it had taken them at once, run every action of a batch once
\* and in order, and let a batch with input keep its tabs from its first action on.
THEOREM QueuesImplementExclusiveActions == Spec => ImplementsExclusiveActions
<1>1. Init => Exclusive!Init
  <2> SUFFICES ASSUME Init PROVE Exclusive!Init
    OBVIOUS
  <2>1. ASSUME NEW i \in Instructions
        PROVE  job[i].plan \in Plans /\ RanOf(job[i]) = 0 /\ PhaseOf(job[i]) = "waiting"
    BY DEF Init, Unclaimed, RanOf, PhaseOf
  <2>2. QED
    BY <2>1 DEF Init, Exclusive!Init, PlanOfJobs, RanOfJobs, PhaseOfJobs
<1>2. IInv /\ ClaimsOK /\ [Next]_vars => [Exclusive!Next]_(Exclusive!exclusiveVars)
  <2> SUFFICES ASSUME IInv, ClaimsOK, [Next]_vars
               PROVE  Exclusive!Next \/ UNCHANGED Exclusive!exclusiveVars
    OBVIOUS
  <2>1. ASSUME NEW i \in Instructions, Execute(i) \/ JobStep(i)
        PROVE  Exclusive!Next \/ UNCHANGED Exclusive!exclusiveVars
    BY <2>1, ExecuteIsAbstract, JobStepIsAbstract
  <2>2. ASSUME UNCHANGED job
        PROVE  UNCHANGED <<PlanOfJobs, RanOfJobs, PhaseOfJobs>>
    BY <2>2 DEF PlanOfJobs, RanOfJobs, PhaseOfJobs, RanOf, PhaseOf
  <2>3. ASSUME ScheduleReinstall PROVE Exclusive!Next
    BY <2>2, <2>3 DEF ScheduleReinstall, Exclusive!Next, Exclusive!ScheduleReinstall
  <2>4. ASSUME AllDone \/ UNCHANGED vars PROVE UNCHANGED Exclusive!exclusiveVars
    BY <2>2, <2>4 DEF AllDone, vars, Exclusive!exclusiveVars
  <2>5. QED
    BY <2>1, <2>3, <2>4 DEF Next
<1>3. QED
  BY <1>1, <1>2, QueuesInvariant, ClaimsInvariant, PTL
     DEF Spec, ImplementsExclusiveActions, Exclusive!Spec
===============================================================================
