--------------------------- MODULE Recording_proofs ----------------------------
(***************************************************************************)
(* Proofs about Recording: its inductive invariant IInv and, from it, that *)
(* recordings reach their own sinks only, that videos are complete, that   *)
(* who was told of a start can stop it, and that a cleanup spares what is  *)
(* recorded.  Each part of the invariant has a lemma that says which steps *)
(* cannot disturb it; the others are proved action by action.              *)
(***************************************************************************)
EXTENDS Recording, SequenceTheorems, TLAPS

(***************************************************************************)
(* Types.                                                                  *)
(***************************************************************************)

Ops == {Idle} \cup [kind: {"start", "ready", "stop"}, rec: Recordings]
Messages == [type: {"start", "finalize"}, rec: Recordings]
Pipes == Alive \cup {"unused", "asked", "finished", "failed"}
Replies == {"none", "finalized", "error"}
Videos == [data: Seq(Recordings), reason: {"none", "user", "max_duration"}]
Sinks == {NoSink} \cup [rec: Recordings, phase: {"recording", "finalizing"},
                        for: Recordings \cup {None}, left: 0..ChunksPerVideo]

LEMMA Typed ==
  TypeOK <=> /\ op \in [Tabs -> Ops]
             /\ session \in [Tabs -> Recordings \cup {None}]
             /\ chunks \in [Tabs -> Seq(Recordings)]
             /\ pipe \in [Recordings -> Pipes]
             /\ stops \in [Recordings -> Seq({"user", "timer"})]
             /\ outcome \in [Recordings -> Videos]
             /\ inbox \in [Tabs -> Seq(Messages)]
             /\ reply \in [Recordings -> Replies]
             /\ sink \in [Tabs -> Sinks]
             /\ recreating \in BOOLEAN /\ cleaning \in BOOLEAN
             /\ told \subseteq Recordings /\ lost \subseteq Recordings /\ dropped \subseteq Recordings
BY DEF TypeOK, Ops, Messages, Pipes, Replies, Videos, Sinks

LEMMA OpFacts ==
  ASSUME NEW o \in Ops
  PROVE  /\ o.kind \in {"none", "start", "ready", "stop"} /\ o.rec \in Recordings \cup {None}
         /\ o = Idle <=> o.kind = "none"
         /\ o # Idle => o.rec \in Recordings
         /\ \A r \in Recordings : o.kind = "start" /\ o.rec = r <=> o = [kind |-> "start", rec |-> r]
         /\ \A r \in Recordings : o.kind = "ready" /\ o.rec = r <=> o = [kind |-> "ready", rec |-> r]
BY DEF Ops, Idle

LEMMA NewOps ==
  /\ Idle \in Ops /\ Idle.kind = "none" /\ Idle.rec = None
  /\ \A r \in Recordings, kind \in {"start", "ready", "stop"} : [kind |-> kind, rec |-> r] \in Ops
BY DEF Ops, Idle

LEMMA SinkFacts ==
  ASSUME NEW s \in Sinks
  PROVE  /\ s.rec \in Recordings \cup {None} /\ s.for \in Recordings \cup {None}
         /\ s.phase \in {"none", "recording", "finalizing"}
         /\ s.left \in Nat /\ s.left <= ChunksPerVideo
         /\ s = NoSink <=> s.rec = None
         /\ s.rec = None <=> s.phase = "none"
BY RecordingAssumption DEF Sinks, NoSink

LEMMA NewSinks ==
  /\ NoSink \in Sinks /\ NoSink.rec = None /\ NoSink.phase = "none"
  /\ \A r \in Recordings :
       [rec |-> r, phase |-> "recording", for |-> None, left |-> ChunksPerVideo] \in Sinks
BY RecordingAssumption DEF Sinks, NoSink

LEMMA AppendFacts ==
  ASSUME NEW S, NEW s \in Seq(S), NEW e \in S
  PROVE  /\ Append(s, e) \in Seq(S) /\ Len(Append(s, e)) = Len(s) + 1 /\ Len(s) \in Nat
         /\ \A i \in 1..Len(s) : Append(s, e)[i] = s[i]
         /\ Append(s, e)[Len(s) + 1] = e
OBVIOUS

LEMMA TailFacts ==
  ASSUME NEW S, NEW s \in Seq(S), s # <<>>
  PROVE  /\ Tail(s) \in Seq(S) /\ Len(Tail(s)) = Len(s) - 1 /\ Len(s) \in Nat \ {0}
         /\ \A i \in 1..Len(Tail(s)) : Tail(s)[i] = s[i + 1]
         /\ Head(s) = s[1] /\ Head(s) \in S
OBVIOUS

LEMMA ContainsAppend ==
  ASSUME NEW S, NEW s \in Seq(S), NEW e \in S, NEW x
  PROVE  Contains(Append(s, e), x) <=> Contains(s, x) \/ x = e
<1>1. Contains(s, x) => Contains(Append(s, e), x)
  BY AppendFacts DEF Contains
<1>2. Contains(Append(s, e), e)
  BY AppendFacts DEF Contains
<1>3. Contains(Append(s, e), x) => Contains(s, x) \/ x = e
  BY AppendFacts DEF Contains
<1>4. QED
  BY <1>1, <1>2, <1>3

(***************************************************************************)
(* What leaves a part of the invariant alone.                              *)
(***************************************************************************)

LEMMA Facts ==
  ASSUME IInv
  PROVE  /\ op \in [Tabs -> Ops] /\ session \in [Tabs -> Recordings \cup {None}]
         /\ pipe \in [Recordings -> Pipes] /\ reply \in [Recordings -> Replies]
         /\ sink \in [Tabs -> Sinks] /\ chunks \in [Tabs -> Seq(Recordings)]
         /\ inbox \in [Tabs -> Seq(Messages)] /\ stops \in [Recordings -> Seq({"user", "timer"})]
         /\ outcome \in [Recordings -> Videos]
         /\ \A r \in Recordings : TabOf[r] \in Tabs /\ r # None
         /\ told \subseteq Recordings /\ lost \subseteq Recordings /\ dropped \subseteq Recordings
         /\ recreating \in BOOLEAN /\ cleaning \in BOOLEAN
         /\ ChunksPerVideo \in Nat \ {0}
BY Typed, RecordingAssumption DEF IInv

\* What the invariant says of a recording that waits for its video.
LEMMA FinalizingFacts ==
  ASSUME IInv, NEW r \in Recordings
  PROVE  /\ pipe[r] = "finalizing" /\ reply[r] = "none" => sink[TabOf[r]].rec = r
         /\ reply[r] # "none" => pipe[r] = "finalizing" /\ sink[TabOf[r]].rec = None
         /\ r \in lost => pipe[r] \in {"failing", "failed"}
         /\ \A s \in Recordings :
              pipe[r] = "finalizing" /\ pipe[s] = "finalizing" /\ TabOf[r] = TabOf[s] => r = s
BY DEF IInv, FinalizingOK

\* The messages of the other tabs are not concerned by what happens on one.
LEMMA OtherInbox ==
  ASSUME IInv, NEW s \in Tabs, NEW i \in 1..Len(inbox[s]),
         inbox'[s] = inbox[s], sink'[s] = sink[s], lost \subseteq lost',
         \A r \in Recordings : pipe[r] = "finalizing" => pipe'[r] = "finalizing"
  PROVE  /\ TabOf[inbox'[s][i].rec] = s
         /\ inbox'[s][i].type = "finalize" =>
              /\ sink'[s].rec = inbox'[s][i].rec /\ sink'[s].phase = "recording"
              /\ pipe'[inbox'[s][i].rec] = "finalizing" \/ inbox'[s][i].rec \in lost'
              /\ \A j \in 1..Len(inbox'[s]) : inbox'[s][j].type = "finalize" => i = j
<1>1. inbox[s] \in Seq(Messages)
  BY Facts
<1>2. inbox[s][i] \in Messages
  BY <1>1
<1>3. inbox[s][i].rec \in Recordings
  BY <1>2 DEF Messages
<1>4. /\ TabOf[inbox[s][i].rec] = s
      /\ inbox[s][i].type = "finalize" =>
           /\ sink[s].rec = inbox[s][i].rec /\ sink[s].phase = "recording"
           /\ pipe[inbox[s][i].rec] = "finalizing" \/ inbox[s][i].rec \in lost
           /\ \A j \in 1..Len(inbox[s]) : inbox[s][j].type = "finalize" => i = j
  BY DEF IInv, InboxOK
<1>5. QED
  BY <1>3, <1>4

\* The types that a step has to show.
LEMMA TypesKept ==
  ASSUME IInv,
         op' \in [Tabs -> Ops], session' \in [Tabs -> Recordings \cup {None}],
         chunks' \in [Tabs -> Seq(Recordings)], pipe' \in [Recordings -> Pipes],
         stops' \in [Recordings -> Seq({"user", "timer"})], outcome' \in [Recordings -> Videos],
         inbox' \in [Tabs -> Seq(Messages)], reply' \in [Recordings -> Replies],
         sink' \in [Tabs -> Sinks], recreating' \in BOOLEAN, cleaning' \in BOOLEAN,
         told' \subseteq Recordings, lost' \subseteq Recordings, dropped' \subseteq Recordings
  PROVE  TypeOK'
BY DEF TypeOK, Ops, Messages, Pipes, Replies, Videos, Sinks

\* Operations end, or wait on as they did.
LEMMA OpKept ==
  ASSUME IInv,
         \A t \in Tabs : op'[t] \in {op[t], Idle},
         \A t \in Tabs : op'[t].kind = "start" =>
           pipe'[op[t].rec] = pipe[op[t].rec] /\ session'[t] = session[t],
         \A t \in Tabs : session'[t] \in {session[t], None},
         \A r \in Recordings : Contains(stops[r], "user") => Contains(stops'[r], "user")
  PROVE  OpOK'
<1>1. ASSUME NEW t \in Tabs, op'[t] # Idle
      PROVE  /\ TabOf[op'[t].rec] = t
             /\ op'[t].kind = "start" => pipe'[op'[t].rec] = "asked" /\ session'[t] = None
             /\ op'[t].kind = "stop" =>
                  Contains(stops'[op'[t].rec], "user") /\ session'[t] \in {None, op'[t].rec}
  <2>1. op'[t] = op[t] /\ op[t] # Idle
    BY <1>1
  <2>2. op[t].rec \in Recordings
    BY <2>1, Facts, OpFacts
  <2>3. /\ TabOf[op[t].rec] = t
        /\ op[t].kind = "start" => pipe[op[t].rec] = "asked" /\ session[t] = None
        /\ op[t].kind = "stop" =>
             Contains(stops[op[t].rec], "user") /\ session[t] \in {None, op[t].rec}
    BY <2>1 DEF IInv, OpOK
  <2>4. QED
    BY <2>1, <2>2, <2>3
<1>2. QED
  BY <1>1, NewOps DEF OpOK

LEMMA RecreatingKept ==
  ASSUME IInv, recreating' => recreating /\ UNCHANGED <<op, session, pipe>>
  PROVE  RecreatingOK'
BY DEF IInv, RecreatingOK

\* Nobody's session is replaced, and those that must have one keep it.
LEMMA SessionKept ==
  ASSUME IInv,
         \A t \in Tabs : session'[t] \in {session[t], None},
         dropped \subseteq dropped',
         \A r \in Recordings : Stoppable(r)' /\ (\A s \in dropped' : TabOf[s] # TabOf[r]) =>
           Stoppable(r) /\ session'[TabOf[r]] = session[TabOf[r]]
  PROVE  SessionOK'
<1>1. \A t \in Tabs : session'[t] # None => TabOf[session'[t]] = t
  BY DEF IInv, SessionOK
<1>2. ASSUME NEW r \in Recordings, Stoppable(r)', \A s \in dropped' : TabOf[s] # TabOf[r]
      PROVE  session'[TabOf[r]] = r
  BY <1>2 DEF IInv, SessionOK
<1>3. QED
  BY <1>1, <1>2 DEF SessionOK

LEMMA SinkKept ==
  ASSUME IInv, UNCHANGED sink, lost \subseteq lost',
         \A r \in Recordings : pipe[r] = "finalizing" /\ sink[TabOf[r]].rec = r =>
           pipe'[r] = "finalizing" \/ r \in lost',
         \A r \in Recordings : pipe'[r] \in {"attaching", "capturing"} =>
           pipe[r] \in {"attaching", "capturing"}
  PROVE  SinkOK'
<1>1. ASSUME NEW t \in Tabs, sink[t].phase = "finalizing"
      PROVE  pipe'[sink[t].rec] = "finalizing" \/ sink[t].rec \in lost'
  <2>1. sink[t].rec \in Recordings /\ TabOf[sink[t].rec] = t
    BY <1>1, Facts, SinkFacts DEF IInv, SinkOK
  <2>2. pipe[sink[t].rec] = "finalizing" \/ sink[t].rec \in lost
    BY <1>1 DEF IInv, SinkOK
  <2>3. QED
    BY <2>1, <2>2
<1>2. QED
  BY <1>1 DEF IInv, SinkOK

LEMMA InboxKept ==
  ASSUME IInv, UNCHANGED inbox, lost \subseteq lost',
         \A t \in Tabs : inbox[t] # <<>> /\ sink[t].phase = "recording" =>
           sink'[t].rec = sink[t].rec /\ sink'[t].phase = "recording",
         \A r \in Recordings : pipe[r] = "finalizing" /\ sink[TabOf[r]].rec = r =>
           pipe'[r] = "finalizing" \/ r \in lost'
  PROVE  InboxOK'
<1>1. ASSUME NEW t \in Tabs, NEW i \in 1..Len(inbox[t]), inbox[t][i].type = "finalize"
      PROVE  /\ sink'[t].rec = inbox[t][i].rec /\ sink'[t].phase = "recording"
             /\ pipe'[inbox[t][i].rec] = "finalizing" \/ inbox[t][i].rec \in lost'
  <2>1. inbox[t] \in Seq(Messages) /\ inbox[t] # <<>> /\ inbox[t][i] \in Messages
    BY Facts
  <2>2. inbox[t] # <<>> /\ inbox[t][i].rec \in Recordings
    BY <2>1 DEF Messages
  <2>3. /\ sink[t].rec = inbox[t][i].rec /\ sink[t].phase = "recording" /\ TabOf[inbox[t][i].rec] = t
        /\ pipe[inbox[t][i].rec] = "finalizing" \/ inbox[t][i].rec \in lost
    BY <1>1 DEF IInv, InboxOK
  <2>4. QED
    BY <2>2, <2>3
<1>2. QED
  BY <1>1 DEF IInv, InboxOK

LEMMA FinalizingKept ==
  ASSUME IInv, UNCHANGED <<inbox, sink>>,
         \A r \in Recordings : pipe'[r] = "finalizing" => pipe[r] = "finalizing" /\ reply'[r] = reply[r],
         \A r \in Recordings : reply'[r] # "none" => pipe'[r] = "finalizing",
         \A r \in Recordings : r \in lost' => pipe'[r] \in {"failing", "failed"}
  PROVE  FinalizingOK'
BY DEF IInv, FinalizingOK

LEMMA ChunksKept ==
  ASSUME IInv, UNCHANGED <<chunks, sink>>, lost \subseteq lost',
         \A r \in Recordings : pipe[r] = "finalizing" => pipe'[r] = "finalizing" \/ r \in lost',
         \A r \in Recordings : pipe'[r] = "finalizing" => pipe[r] = "finalizing" /\ reply'[r] = reply[r]
  PROVE  ChunksOK'
<1>1. ASSUME NEW t \in Tabs, NEW i \in 1..Len(chunks[t])
      PROVE  TabOf[chunks[t][i]] = t /\ (chunks[t][i] \in lost' \/ pipe'[chunks[t][i]] = "finalizing")
  <2>1. chunks[t] \in Seq(Recordings)
    BY Facts
  <2>2. chunks[t][i] \in Recordings
    BY <2>1
  <2>3. TabOf[chunks[t][i]] = t /\ (chunks[t][i] \in lost \/ pipe[chunks[t][i]] = "finalizing")
    BY DEF IInv, ChunksOK
  <2>4. QED
    BY <2>2, <2>3
<1>2. QED
  BY <1>1 DEF IInv, ChunksOK, Sent

LEMMA VideosKept ==
  ASSUME IInv, lost \subseteq lost', \A r \in Recordings : outcome'[r] \in {outcome[r], NoVideo}
  PROVE  VideosAreComplete'
BY DEF IInv, VideosAreComplete

(***************************************************************************)
(* Messages to the page.                                                   *)
(***************************************************************************)

LEMMA InboxGrows ==
  ASSUME IInv, NEW t \in Tabs, NEW m \in Messages, inbox' = [inbox EXCEPT ![t] = Append(@, m)]
  PROVE  /\ inbox' \in [Tabs -> Seq(Messages)] /\ inbox'[t][Len(inbox[t]) + 1] = m
         /\ Len(inbox[t]) + 1 \in 1..Len(inbox'[t])
         /\ \A s \in Tabs : \A i \in 1..Len(inbox[s]) :
              /\ i \in 1..Len(inbox'[s]) /\ inbox'[s][i] = inbox[s][i]
              /\ inbox[s][i].rec \in Recordings
         /\ \A s \in Tabs : \A i \in 1..Len(inbox'[s]) :
              i \in 1..Len(inbox[s]) \/ (s = t /\ i = Len(inbox[t]) + 1)
<1>1. /\ inbox \in [Tabs -> Seq(Messages)] /\ inbox[t] \in Seq(Messages)
      /\ inbox'[t] = Append(inbox[t], m) /\ \A s \in Tabs : s # t => inbox'[s] = inbox[s]
  BY Facts
<1> DEFINE q == inbox[t]
<1>2. /\ Append(q, m) \in Seq(Messages) /\ Len(Append(q, m)) = Len(q) + 1 /\ Len(q) \in Nat
      /\ \A i \in 1..Len(q) : Append(q, m)[i] = q[i]
      /\ Append(q, m)[Len(q) + 1] = m
  BY <1>1, AppendFacts
<1>3. inbox' \in [Tabs -> Seq(Messages)]
  BY <1>1, <1>2
<1>4. \A s \in Tabs : \A i \in 1..Len(inbox[s]) : inbox[s][i].rec \in Recordings
  <2>1. ASSUME NEW s \in Tabs, NEW i \in 1..Len(inbox[s]) PROVE inbox[s][i] \in Messages
    <3>1. inbox[s] \in Seq(Messages)
      BY <1>1
    <3>2. QED
      BY <3>1
  <2>2. QED
    BY <2>1 DEF Messages
<1>5. inbox'[t][Len(inbox[t]) + 1] = m /\ Len(inbox[t]) + 1 \in 1..Len(inbox'[t])
  BY <1>1, <1>2
<1>6. ASSUME NEW s \in Tabs, NEW i \in 1..Len(inbox[s])
      PROVE  i \in 1..Len(inbox'[s]) /\ inbox'[s][i] = inbox[s][i]
  <2>1. CASE s = t
    BY <1>1, <1>2, <2>1
  <2>2. CASE s # t
    BY <1>1, <2>2
  <2>3. QED
    BY <2>1, <2>2
<1>7. ASSUME NEW s \in Tabs, NEW i \in 1..Len(inbox'[s])
      PROVE  i \in 1..Len(inbox[s]) \/ (s = t /\ i = Len(inbox[t]) + 1)
  <2>1. CASE s = t
    BY <1>1, <1>2, <2>1
  <2>2. CASE s # t
    BY <1>1, <2>2
  <2>3. QED
    BY <2>1, <2>2
<1>8. QED
  BY <1>3, <1>4, <1>5, <1>6, <1>7

LEMMA InboxShrinks ==
  ASSUME IInv, NEW t \in Tabs, inbox[t] # <<>>, inbox' = [inbox EXCEPT ![t] = Tail(@)]
  PROVE  /\ inbox' \in [Tabs -> Seq(Messages)] /\ Head(inbox[t]) = inbox[t][1] /\ 1 \in 1..Len(inbox[t])
         /\ \A s \in Tabs : s # t => inbox'[s] = inbox[s]
         /\ \A i \in 1..Len(inbox'[t]) : i + 1 \in 1..Len(inbox[t]) /\ inbox'[t][i] = inbox[t][i + 1]
         /\ \A i \in 1..Len(inbox[t]) :
              i # 1 => \E j \in 1..Len(inbox'[t]) : inbox'[t][j] = inbox[t][i]
         /\ \A s \in Tabs : \A i \in 1..Len(inbox[s]) : inbox[s][i].rec \in Recordings
<1>1. /\ inbox \in [Tabs -> Seq(Messages)] /\ inbox[t] \in Seq(Messages)
      /\ inbox'[t] = Tail(inbox[t]) /\ \A s \in Tabs : s # t => inbox'[s] = inbox[s]
  BY Facts
<1> DEFINE q == inbox[t]
<1>2. /\ Tail(q) \in Seq(Messages) /\ Len(Tail(q)) = Len(q) - 1 /\ Len(q) \in Nat \ {0}
      /\ \A i \in 1..Len(Tail(q)) : Tail(q)[i] = q[i + 1]
      /\ Head(q) = q[1]
  BY <1>1, TailFacts
<1>3. inbox' \in [Tabs -> Seq(Messages)]
  BY <1>1, <1>2
<1>4. \A s \in Tabs : \A i \in 1..Len(inbox[s]) : inbox[s][i].rec \in Recordings
  <2>1. ASSUME NEW s \in Tabs, NEW i \in 1..Len(inbox[s]) PROVE inbox[s][i] \in Messages
    <3>1. inbox[s] \in Seq(Messages)
      BY <1>1
    <3>2. QED
      BY <3>1
  <2>2. QED
    BY <2>1 DEF Messages
<1>5. ASSUME NEW i \in 1..Len(q), i # 1
      PROVE  i - 1 \in 1..Len(Tail(q)) /\ Tail(q)[i - 1] = q[i]
  BY <1>2, <1>5
<1>6. \A i \in 1..Len(Tail(q)) : i + 1 \in 1..Len(q)
  BY <1>2
<1>7. 1 \in 1..Len(q)
  BY <1>2
<1>8. QED
  BY <1>1, <1>2, <1>3, <1>4, <1>5, <1>6, <1>7

\* Appending a message leaves the finalization that is on its way where it is.
LEMMA MessageKept ==
  ASSUME IInv, NEW t \in Tabs, NEW m \in Messages, inbox' = [inbox EXCEPT ![t] = Append(@, m)],
         UNCHANGED <<sink, reply, lost>>, NEW s \in Recordings, pipe[s] = "finalizing", reply[s] = "none"
  PROVE  /\ sink[TabOf[s]].rec = s
         /\ sink[TabOf[s]].phase = "recording" =>
              \E i \in 1..Len(inbox'[TabOf[s]]) :
                inbox'[TabOf[s]][i] = [type |-> "finalize", rec |-> s]
<1>1. /\ sink[TabOf[s]].rec = s
      /\ sink[TabOf[s]].phase = "recording" =>
           \E i \in 1..Len(inbox[TabOf[s]]) : inbox[TabOf[s]][i] = [type |-> "finalize", rec |-> s]
  BY DEF IInv, FinalizingOK
<1>2. TabOf[s] \in Tabs
  BY Facts
<1>3. QED
  BY <1>1, <1>2, InboxGrows

(***************************************************************************)
(* The actions.                                                            *)
(***************************************************************************)

LEMMA RecordStartKeeps ==
  ASSUME IInv, NEW r \in Recordings, RecordStart(r)
  PROVE  IInv'
<1> DEFINE t == TabOf[r]
           m == [type |-> "start", rec |-> r]
<1>1. /\ op[t] = Idle /\ session[t] = None /\ pipe[r] = "unused" /\ ~recreating
      /\ op' = [op EXCEPT ![t] = [kind |-> "start", rec |-> r]]
      /\ pipe' = [pipe EXCEPT ![r] = "asked"]
      /\ inbox' = [inbox EXCEPT ![t] = Append(@, m)]
      /\ UNCHANGED <<session, chunks, stops, outcome, reply, sink, recreating, cleaning, told, lost, dropped>>
  BY DEF RecordStart, IsRecording, history
<1>2. t \in Tabs /\ m \in Messages
  BY Facts DEF Messages
<1>3. pipe' \in [Recordings -> Pipes] /\ pipe'[r] = "asked" /\ \A s \in Recordings : s # r => pipe'[s] = pipe[s]
  BY <1>1, Facts DEF Pipes
<1>4. op' \in [Tabs -> Ops] /\ op'[t] = [kind |-> "start", rec |-> r] /\ \A s \in Tabs : s # t => op'[s] = op[s]
  BY <1>1, <1>2, Facts, NewOps
<1>5. /\ inbox' \in [Tabs -> Seq(Messages)] /\ \A s \in Tabs : s # t => inbox'[s] = inbox[s]
      /\ inbox'[t] = Append(inbox[t], m) /\ inbox[t] \in Seq(Messages)
  BY <1>1, <1>2, Facts
<1>6. TypeOK'
  BY <1>1, <1>3, <1>4, <1>5, Facts, TypesKept
<1>7. OpOK'
  <2>1. ASSUME NEW s \in Tabs, s # t
        PROVE  /\ op[s] # Idle => TabOf[op[s].rec] = s /\ op[s].rec # r /\ op[s].rec \in Recordings
               /\ op[s].kind = "start" => pipe'[op[s].rec] = "asked"
    BY <1>3, <2>1, Facts, OpFacts, NewOps DEF IInv, OpOK
  <2>2. ASSUME NEW s \in Tabs, s # t
        PROVE  /\ op'[s] # Idle => TabOf[op'[s].rec] = s
               /\ op'[s].kind = "start" => pipe'[op'[s].rec] = "asked" /\ session'[s] = None
               /\ op'[s].kind = "stop" => Contains(stops'[op'[s].rec], "user") /\ session'[s] \in {None, op'[s].rec}
    <3>1. op'[s] = op[s]
      BY <1>4, <2>2
    <3>2. QED
      BY <1>1, <2>1, <2>2, <3>1 DEF IInv, OpOK
  <2>3. QED
    BY <1>1, <1>3, <1>4, <2>2 DEF OpOK
<1>8. SessionOK'
  BY <1>1, <1>3, SessionKept DEF Stoppable, Alive
<1>9. RecreatingOK'
  BY <1>1, RecreatingKept
<1>10. SinkOK'
  BY <1>1, <1>3, SinkKept
<1>11. InboxOK'
  <2>1. ASSUME NEW s \in Tabs, NEW i \in 1..Len(inbox'[s])
        PROVE  /\ TabOf[inbox'[s][i].rec] = s
               /\ inbox'[s][i].type = "finalize" =>
                    /\ sink'[s].rec = inbox'[s][i].rec /\ sink'[s].phase = "recording"
                    /\ pipe'[inbox'[s][i].rec] = "finalizing" \/ inbox'[s][i].rec \in lost'
                    /\ \A j \in 1..Len(inbox'[s]) : inbox'[s][j].type = "finalize" => i = j
    <3>1. CASE s = t /\ i = Len(inbox[t]) + 1
      BY <1>1, <1>2, <3>1, InboxGrows
    <3>2. CASE i \in 1..Len(inbox[s])
      <4>1. inbox'[s][i] = inbox[s][i] /\ inbox[s][i].rec \in Recordings
        BY <1>1, <1>2, <3>2, InboxGrows
      <4>2. \A j \in 1..Len(inbox'[s]) : inbox'[s][j].type = "finalize" =>
              j \in 1..Len(inbox[s]) /\ inbox'[s][j] = inbox[s][j]
        BY <1>1, <1>2, InboxGrows
      <4>3. pipe[inbox[s][i].rec] = "finalizing" => pipe'[inbox[s][i].rec] = "finalizing"
        BY <1>1, <1>3, <4>1
      <4>4. QED
        BY <1>1, <3>2, <4>1, <4>2, <4>3 DEF IInv, InboxOK
    <3>3. QED
      BY <1>1, <1>2, <3>1, <3>2, InboxGrows
  <2>2. QED
    BY <2>1 DEF InboxOK
<1>12. FinalizingOK'
  <2>1. \A s \in Recordings : pipe'[s] = "finalizing" => pipe[s] = "finalizing"
    BY <1>3
  <2>2. ASSUME NEW s \in Recordings, pipe'[s] = "finalizing", reply[s] = "none"
        PROVE  /\ sink[TabOf[s]].rec = s
               /\ sink[TabOf[s]].phase = "recording" =>
                    \E i \in 1..Len(inbox'[TabOf[s]]) :
                      inbox'[TabOf[s]][i] = [type |-> "finalize", rec |-> s]
    <3>1. pipe[s] = "finalizing"
      BY <2>1, <2>2
    <3>2. QED
      BY <1>1, <1>2, <2>2, <3>1, MessageKept
  <2>3. QED
    BY <1>1, <1>3, <2>1, <2>2 DEF IInv, FinalizingOK
<1>13. ChunksOK'
  BY <1>1, <1>3, ChunksKept
<1>14. VideosAreComplete'
  BY <1>1, VideosKept
<1>15. QED
  BY <1>6, <1>7, <1>8, <1>9, <1>10, <1>11, <1>12, <1>13, <1>14 DEF IInv

LEMMA StartTimesOutKeeps ==
  ASSUME IInv, NEW t \in Tabs, StartTimesOut(t)
  PROVE  IInv'
<1> DEFINE r == op[t].rec
<1>1. /\ op[t].kind \in {"start", "ready"} /\ op' = [op EXCEPT ![t] = Idle]
      /\ pipe' = IF op[t].kind = "start" THEN [pipe EXCEPT ![r] = "failed"] ELSE pipe
      /\ UNCHANGED <<session, chunks, stops, outcome, inbox, reply, sink, recreating, cleaning,
                     told, lost, dropped>>
  BY DEF StartTimesOut, offscreen, history
<1>2. r \in Recordings /\ TabOf[r] = t /\ (op[t].kind = "start" => pipe[r] = "asked")
  BY <1>1, Facts, OpFacts, NewOps DEF IInv, OpOK
<1>3. op' \in [Tabs -> Ops] /\ \A s \in Tabs : op'[s] = IF s = t THEN Idle ELSE op[s]
  BY <1>1, Facts, NewOps
<1>4. /\ pipe' \in [Recordings -> Pipes]
      /\ \A s \in Recordings : pipe'[s] = pipe[s] \/ (s = r /\ pipe[s] = "asked" /\ pipe'[s] = "failed")
  BY <1>1, <1>2, Facts DEF Pipes
<1>5. TypeOK'
  BY <1>1, <1>3, <1>4, Facts, TypesKept
<1>6. OpOK'
  <2>1. ASSUME NEW s \in Tabs, op'[s].kind = "start"
        PROVE  pipe'[op[s].rec] = pipe[op[s].rec]
    <3>1. s # t /\ op[s].kind = "start" /\ op[s] # Idle
      BY <1>3, <2>1, NewOps
    <3>2. op[s].rec \in Recordings /\ TabOf[op[s].rec] = s
      BY <3>1, Facts, OpFacts DEF IInv, OpOK
    <3>3. QED
      BY <1>2, <1>4, <3>1, <3>2
  <2>2. QED
    BY <1>1, <1>3, <2>1, OpKept
<1>7. SessionOK'
  BY <1>1, <1>4, SessionKept DEF Stoppable, Alive
<1>8. RecreatingOK'
  BY <1>1, NewOps DEF IInv, RecreatingOK
<1>9. SinkOK' /\ InboxOK' /\ FinalizingOK' /\ ChunksOK' /\ VideosAreComplete'
  <2>1. \A s \in Recordings : /\ pipe[s] = "finalizing" <=> pipe'[s] = "finalizing"
                              /\ pipe'[s] \in {"attaching", "capturing"} => pipe[s] \in {"attaching", "capturing"}
    BY <1>4
  <2>2. \A s \in Recordings : pipe[s] \in {"failing", "failed"} => pipe'[s] \in {"failing", "failed"}
    BY <1>4
  <2>3. FinalizingOK'
    BY <1>1, <2>1, <2>2, FinalizingKept DEF IInv, FinalizingOK
  <2>4. QED
    BY <1>1, <2>1, <2>3, SinkKept, InboxKept, ChunksKept, VideosKept
<1>10. QED
  BY <1>5, <1>6, <1>7, <1>8, <1>9 DEF IInv

LEMMA AttachKeeps ==
  ASSUME IInv, NEW r \in Recordings, Attach(r)
  PROVE  IInv'
<1>1. /\ pipe[r] = "attaching" /\ pipe' = [pipe EXCEPT ![r] = "capturing"]
      /\ (op' = op \/ op' = [op EXCEPT ![TabOf[r]] = Idle]) /\ told' \in {told, told \cup {r}}
      /\ UNCHANGED <<session, chunks, stops, outcome, inbox, reply, sink, recreating, cleaning,
                     lost, dropped>>
  BY DEF Attach, offscreen
<1>2. op' \in [Tabs -> Ops] /\ \A s \in Tabs : op'[s] \in {op[s], Idle}
  <2>1. CASE op' = op
    BY <2>1, Facts
  <2>2. CASE op' = [op EXCEPT ![TabOf[r]] = Idle]
    <3>1. op' \in [Tabs -> Ops] /\ \A s \in Tabs : op'[s] = IF s = TabOf[r] THEN Idle ELSE op[s]
      BY <2>2, Facts, NewOps
    <3>2. QED
      BY <3>1
  <2>3. QED
    BY <1>1, <2>1, <2>2
<1>3. pipe' \in [Recordings -> Pipes] /\ \A s \in Recordings : pipe'[s] = IF s = r THEN "capturing" ELSE pipe[s]
  BY <1>1, Facts DEF Pipes, Alive
<1>4. TypeOK'
  BY <1>1, <1>2, <1>3, Facts, TypesKept
<1>5. OpOK'
  <2>1. ASSUME NEW s \in Tabs, op'[s].kind = "start"
        PROVE  pipe'[op[s].rec] = pipe[op[s].rec]
    <3>1. op[s].kind = "start" /\ op[s] # Idle
      BY <1>2, <2>1, NewOps
    <3>2. op[s].rec \in Recordings /\ pipe[op[s].rec] = "asked"
      BY <3>1, Facts, OpFacts DEF IInv, OpOK
    <3>3. QED
      BY <1>1, <1>3, <3>2
  <2>2. QED
    BY <1>1, <1>2, <2>1, OpKept
<1>6. SessionOK'
  BY <1>1, <1>3, SessionKept DEF Stoppable, Alive
<1>7. RecreatingOK'
  BY <1>1 DEF IInv, RecreatingOK
<1>8. SinkOK' /\ InboxOK' /\ ChunksOK' /\ VideosAreComplete'
  BY <1>1, <1>3, SinkKept, InboxKept, ChunksKept, VideosKept
<1>9. FinalizingOK'
  BY <1>1, <1>3, FinalizingKept DEF IInv, FinalizingOK
<1>10. QED
  BY <1>4, <1>5, <1>6, <1>7, <1>8, <1>9 DEF IInv

LEMMA AttachFailsKeeps ==
  ASSUME IInv, NEW r \in Recordings, AttachFails(r)
  PROVE  IInv'
<1> DEFINE t == TabOf[r]
<1>1. /\ pipe[r] = "attaching" /\ pipe' = [pipe EXCEPT ![r] = "failed"]
      /\ session' = [session EXCEPT ![t] = None]
      /\ op' = op \/ op' = [op EXCEPT ![t] = Idle]
      /\ UNCHANGED <<chunks, stops, outcome, inbox, reply, sink, recreating, cleaning, told, lost, dropped>>
  BY DEF AttachFails, offscreen, history
<1>2. op' \in [Tabs -> Ops] /\ \A s \in Tabs : op'[s] \in {op[s], Idle}
  <2>1. CASE op' = op
    BY <2>1, Facts
  <2>2. CASE op' = [op EXCEPT ![TabOf[r]] = Idle]
    <3>1. op' \in [Tabs -> Ops] /\ \A s \in Tabs : op'[s] = IF s = TabOf[r] THEN Idle ELSE op[s]
      BY <2>2, Facts, NewOps
    <3>2. QED
      BY <3>1
  <2>3. QED
    BY <1>1, <2>1, <2>2
<1>3. pipe' \in [Recordings -> Pipes] /\ \A s \in Recordings : pipe'[s] = IF s = r THEN "failed" ELSE pipe[s]
  BY <1>1, Facts DEF Pipes
<1>4. session' \in [Tabs -> Recordings \cup {None}]
      /\ \A s \in Tabs : session'[s] = IF s = t THEN None ELSE session[s]
  BY <1>1, Facts
<1>5. TypeOK'
  BY <1>1, <1>2, <1>3, <1>4, Facts, TypesKept
<1>6. OpOK'
  <2>1. ASSUME NEW s \in Tabs, op'[s].kind = "start"
        PROVE  pipe'[op[s].rec] = pipe[op[s].rec] /\ session'[s] = session[s]
    <3>1. op[s].kind = "start" /\ op[s] # Idle
      BY <1>2, <2>1, NewOps
    <3>2. op[s].rec \in Recordings /\ pipe[op[s].rec] = "asked" /\ session[s] = None
      BY <3>1, Facts, OpFacts DEF IInv, OpOK
    <3>3. QED
      BY <1>1, <1>3, <1>4, <3>2
  <2>2. QED
    BY <1>1, <1>2, <1>4, <2>1, OpKept
<1>7. SessionOK'
  <2>1. ASSUME NEW s \in Recordings, Stoppable(s)', \A d \in dropped' : TabOf[d] # TabOf[s]
        PROVE  Stoppable(s) /\ session'[TabOf[s]] = session[TabOf[s]]
    <3>1. s # r /\ Stoppable(s) /\ Stoppable(r)
      BY <1>1, <1>3, <2>1 DEF Stoppable, Alive
    <3>2. session[TabOf[s]] = s
      BY <1>1, <2>1, <3>1 DEF IInv, SessionOK
    <3>3. TabOf[s] # t
      BY <1>1, <2>1, <3>1, <3>2 DEF IInv, SessionOK
    <3>4. QED
      BY <1>4, <3>1, <3>3, Facts
  <2>2. QED
    BY <1>1, <1>4, <2>1, SessionKept
<1>8. RecreatingOK'
  BY <1>1 DEF IInv, RecreatingOK
<1>9. SinkOK' /\ InboxOK' /\ ChunksOK' /\ VideosAreComplete'
  BY <1>1, <1>3, SinkKept, InboxKept, ChunksKept, VideosKept
<1>10. FinalizingOK'
  BY <1>1, <1>3, FinalizingKept DEF IInv, FinalizingOK
<1>11. QED
  BY <1>5, <1>6, <1>7, <1>8, <1>9, <1>10 DEF IInv

LEMMA MaxDurationKeeps ==
  ASSUME IInv, NEW r \in Recordings, MaxDuration(r)
  PROVE  IInv'
<1>1. /\ stops' = [stops EXCEPT ![r] = Append(@, "timer")]
      /\ UNCHANGED <<op, session, chunks, pipe, outcome, inbox, reply, sink, recreating, cleaning,
                     told, lost, dropped>>
  BY DEF MaxDuration, offscreen, history
<1>2. "timer" \in {"user", "timer"} /\ \A s \in Recordings : stops[s] \in Seq({"user", "timer"})
  BY Facts
<1>3. /\ stops' \in [Recordings -> Seq({"user", "timer"})]
      /\ \A s \in Recordings : s # r => stops'[s] = stops[s]
      /\ stops'[r] = Append(stops[r], "timer")
  BY <1>1, <1>2, Facts, AppendFacts
<1>4. \A s \in Recordings : Contains(stops'[s], "user") <=> Contains(stops[s], "user")
  <2>1. Contains(Append(stops[r], "timer"), "user") <=> Contains(stops[r], "user")
    BY <1>2, ContainsAppend
  <2>2. QED
    BY <1>3, <2>1 DEF Contains
<1>5. TypeOK'
  BY <1>1, <1>3, Facts, TypesKept
<1>6. SessionOK'
  BY <1>1, <1>4, SessionKept DEF Stoppable
<1>7. OpOK'
  BY <1>1, <1>4, OpKept
<1>8. RecreatingOK' /\ SinkOK' /\ InboxOK' /\ ChunksOK' /\ VideosAreComplete'
  BY <1>1, RecreatingKept, SinkKept, InboxKept, ChunksKept, VideosKept
<1>9. FinalizingOK'
  BY <1>1, FinalizingKept DEF IInv, FinalizingOK
<1>10. QED
  BY <1>5, <1>6, <1>7, <1>8, <1>9 DEF IInv

LEMMA CaptureFailsKeeps ==
  ASSUME IInv, NEW r \in Recordings, CaptureFails(r)
  PROVE  IInv'
<1>1. /\ pipe[r] = "capturing" /\ pipe' = [pipe EXCEPT ![r] = "failing"]
      /\ UNCHANGED <<op, session, chunks, stops, outcome, inbox, reply, sink, recreating, cleaning,
                     told, lost, dropped>>
  BY DEF CaptureFails, offscreen, history
<1>2. pipe' \in [Recordings -> Pipes] /\ \A s \in Recordings : pipe'[s] = IF s = r THEN "failing" ELSE pipe[s]
  BY <1>1, Facts DEF Pipes, Alive
<1>3. TypeOK'
  BY <1>1, <1>2, Facts, TypesKept
<1>4. OpOK'
  BY <1>1, <1>2, Facts, OpFacts, NewOps DEF IInv, OpOK
<1>5. SessionOK'
  BY <1>1, <1>2, SessionKept DEF Stoppable, Alive
<1>6. RecreatingOK'
  BY <1>1 DEF IInv, RecreatingOK
<1>7. SinkOK' /\ InboxOK' /\ ChunksOK' /\ VideosAreComplete'
  BY <1>1, <1>2, SinkKept, InboxKept, ChunksKept, VideosKept
<1>8. FinalizingOK'
  BY <1>1, <1>2, FinalizingKept DEF IInv, FinalizingOK
<1>9. QED
  BY <1>3, <1>4, <1>5, <1>6, <1>7, <1>8 DEF IInv

LEMMA StopCapturingKeeps ==
  ASSUME IInv, NEW r \in Recordings, StopCapturing(r)
  PROVE  IInv'
<1> DEFINE t == TabOf[r]
           m == [type |-> "finalize", rec |-> r]
<1>1. /\ pipe[r] = "capturing" /\ pipe' = [pipe EXCEPT ![r] = "finalizing"]
      /\ inbox' = [inbox EXCEPT ![t] = Append(@, m)]
      /\ UNCHANGED <<op, session, chunks, stops, outcome, reply, sink, recreating, cleaning,
                     told, lost, dropped>>
  BY DEF StopCapturing, history
<1>2. t \in Tabs /\ m \in Messages
  BY Facts DEF Messages
<1>3. pipe' \in [Recordings -> Pipes] /\ \A s \in Recordings : pipe'[s] = IF s = r THEN "finalizing" ELSE pipe[s]
  BY <1>1, Facts DEF Pipes, Alive
<1>4. sink[t].rec = r /\ sink[t].phase = "recording"
  BY <1>1 DEF IInv, SinkOK
\* Nothing else of the tab is being finalized.
<1>5. \A i \in 1..Len(inbox[t]) : inbox[t][i].type # "finalize"
  <2>1. ASSUME NEW i \in 1..Len(inbox[t]), inbox[t][i].type = "finalize" PROVE FALSE
    <3>1. inbox[t][i].rec = r /\ (pipe[r] = "finalizing" \/ r \in lost)
      BY <1>2, <1>4, <2>1 DEF IInv, InboxOK
    <3>2. QED
      BY <1>1, <3>1 DEF IInv, FinalizingOK
  <2>2. QED
    BY <2>1
<1>6. \A s \in Recordings : TabOf[s] = t => pipe[s] # "finalizing" /\ reply[s] = "none"
  <2>1. ASSUME NEW s \in Recordings, TabOf[s] = t PROVE reply[s] = "none"
    BY <1>4, <2>1, Facts, FinalizingFacts
  <2>2. ASSUME NEW s \in Recordings, TabOf[s] = t PROVE pipe[s] # "finalizing"
    BY <1>1, <1>4, <2>1, <2>2, FinalizingFacts
  <2>3. QED
    BY <2>1, <2>2
<1>7. TypeOK'
  BY <1>1, <1>2, <1>3, Facts, InboxGrows, TypesKept
<1>8. OpOK'
  BY <1>1, <1>3, Facts, OpFacts, NewOps DEF IInv, OpOK
<1>9. SessionOK'
  BY <1>1, <1>3, SessionKept DEF Stoppable, Alive
<1>10. RecreatingOK'
  BY <1>1 DEF IInv, RecreatingOK
<1>11. SinkOK' /\ VideosAreComplete'
  BY <1>1, <1>3, SinkKept, VideosKept
<1>12. InboxOK'
  <2>1. ASSUME NEW s \in Tabs, NEW i \in 1..Len(inbox'[s])
        PROVE  /\ TabOf[inbox'[s][i].rec] = s
               /\ inbox'[s][i].type = "finalize" =>
                    /\ sink'[s].rec = inbox'[s][i].rec /\ sink'[s].phase = "recording"
                    /\ pipe'[inbox'[s][i].rec] = "finalizing" \/ inbox'[s][i].rec \in lost'
                    /\ \A j \in 1..Len(inbox'[s]) : inbox'[s][j].type = "finalize" => i = j
    <3>1. CASE s = t /\ i = Len(inbox[t]) + 1
      <4>1. inbox'[s][i] = m
        BY <1>1, <1>2, <3>1, InboxGrows
      <4>2. \A j \in 1..Len(inbox'[t]) : j = Len(inbox[t]) + 1 \/ inbox'[t][j].type # "finalize"
        BY <1>1, <1>2, <1>5, InboxGrows
      <4>3. QED
        BY <1>1, <1>3, <1>4, <3>1, <4>1, <4>2
    <3>2. CASE s = t /\ i \in 1..Len(inbox[t])
      <4>1. inbox'[t][i] = inbox[t][i] /\ inbox[t][i].type # "finalize" /\ TabOf[inbox[t][i].rec] = t
        BY <1>1, <1>2, <1>5, <3>2, InboxGrows DEF IInv, InboxOK
      <4>2. QED
        BY <3>2, <4>1
    <3>3. CASE s # t
      <4>1. inbox'[s] = inbox[s]
        BY <1>1, <3>3, Facts
      <4>2. /\ i \in 1..Len(inbox[s]) /\ sink'[s] = sink[s] /\ lost \subseteq lost'
            /\ \A q \in Recordings : pipe[q] = "finalizing" => pipe'[q] = "finalizing"
        BY <1>1, <1>3, <4>1
      <4>3. QED
        BY <4>1, <4>2, OtherInbox
    <3>4. QED
      BY <1>1, <1>2, <3>1, <3>2, <3>3, InboxGrows
  <2>2. QED
    BY <2>1 DEF InboxOK
<1>13. FinalizingOK'
  <2>1. ASSUME NEW s \in Recordings, pipe'[s] = "finalizing", reply'[s] = "none"
        PROVE  /\ sink'[TabOf[s]].rec = s
               /\ sink'[TabOf[s]].phase = "recording" =>
                    \E i \in 1..Len(inbox'[TabOf[s]]) :
                      inbox'[TabOf[s]][i] = [type |-> "finalize", rec |-> s]
    <3>1. CASE s = r
      <4>1. inbox'[t][Len(inbox[t]) + 1] = m /\ Len(inbox[t]) + 1 \in 1..Len(inbox'[t])
        BY <1>1, <1>2, InboxGrows
      <4>2. QED
        BY <1>1, <1>4, <3>1, <4>1
    <3>2. CASE s # r
      <4>1. pipe[s] = "finalizing" /\ reply[s] = "none"
        BY <1>1, <1>3, <2>1, <3>2
      <4>2. QED
        BY <1>1, <1>2, <4>1, MessageKept
    <3>3. QED
      BY <3>1, <3>2
  <2>2. ASSUME NEW s \in Recordings
        PROVE  /\ reply'[s] # "none" => pipe'[s] = "finalizing" /\ sink'[TabOf[s]].rec = None
               /\ s \in lost' => pipe'[s] \in {"failing", "failed"}
    BY <1>1, <1>3, FinalizingFacts
  <2>3. ASSUME NEW s \in Recordings, NEW q \in Recordings,
               pipe'[s] = "finalizing", pipe'[q] = "finalizing", TabOf[s] = TabOf[q]
        PROVE  s = q
    BY <1>3, <1>6, <2>3 DEF IInv, FinalizingOK
  <2>4. QED
    BY <2>1, <2>2, <2>3 DEF FinalizingOK
<1>14. ChunksOK'
  <2>1. ASSUME NEW u \in Tabs, NEW i \in 1..Len(chunks[u])
        PROVE  TabOf[chunks[u][i]] = u /\ (chunks[u][i] \in lost \/ pipe'[chunks[u][i]] = "finalizing")
    <3>1. chunks[u] \in Seq(Recordings)
      BY Facts
    <3>2. chunks[u][i] \in Recordings
      BY <3>1
    <3>3. QED
      BY <1>3, <3>2 DEF IInv, ChunksOK
  <2>2. ASSUME NEW u \in Tabs, NEW s \in Recordings, TabOf[s] = u, pipe'[s] = "finalizing", reply[s] # "error"
        PROVE  /\ Sent(s) <= Len(chunks[u])
               /\ \A i \in 1..Len(chunks[u]) : chunks[u][i] = s <=> i > Len(chunks[u]) - Sent(s)
    <3>1. CASE s = r
      <4>1. Sent(r) = 0
        BY <1>2, <1>4, Facts, SinkFacts DEF Sent, IInv, SinkOK
      <4>2. \A i \in 1..Len(chunks[t]) : chunks[t][i] # r
        BY <1>1, <1>2 DEF IInv, ChunksOK, FinalizingOK
      <4>3. Len(chunks[t]) \in Nat
        BY <1>2, Facts
      <4>4. QED
        BY <2>2, <3>1, <4>1, <4>2, <4>3
    <3>2. CASE s # r
      BY <1>3, <2>2, <3>2 DEF IInv, ChunksOK
    <3>3. QED
      BY <3>1, <3>2
  <2>3. QED
    BY <1>1, <2>1, <2>2 DEF ChunksOK, Sent
<1>15. QED
  BY <1>7, <1>8, <1>9, <1>10, <1>11, <1>12, <1>13, <1>14 DEF IInv

\* The chunks of a tab go with the pipeline that waits for them.
LEMMA ChunksCleared ==
  ASSUME IInv, NEW r \in Recordings, pipe[r] = "finalizing", pipe'[r] # "finalizing",
         \A s \in Recordings : s # r => pipe'[s] = pipe[s] /\ reply'[s] = reply[s],
         chunks' = [chunks EXCEPT ![TabOf[r]] = <<>>], UNCHANGED sink, lost \subseteq lost'
  PROVE  ChunksOK'
<1> DEFINE t == TabOf[r]
<1>1. /\ t \in Tabs /\ chunks'[t] = <<>> /\ Len(chunks'[t]) = 0
      /\ \A u \in Tabs : u # t => chunks'[u] = chunks[u]
  BY Facts
<1>2. \A s \in Recordings : pipe'[s] = "finalizing" => pipe[s] = "finalizing" /\ TabOf[s] # t
  BY DEF IInv, FinalizingOK
<1>3. ASSUME NEW u \in Tabs, u # t, NEW i \in 1..Len(chunks[u])
      PROVE  TabOf[chunks[u][i]] = u /\ (chunks[u][i] \in lost' \/ pipe'[chunks[u][i]] = "finalizing")
  <2>1. chunks[u] \in Seq(Recordings)
    BY Facts
  <2>2. chunks[u][i] \in Recordings
    BY <2>1
  <2>3. TabOf[chunks[u][i]] = u /\ (chunks[u][i] \in lost \/ pipe[chunks[u][i]] = "finalizing")
    BY DEF IInv, ChunksOK
  <2>4. QED
    BY <1>3, <2>2, <2>3
<1>4. ASSUME NEW u \in Tabs, u # t, NEW s \in Recordings, TabOf[s] = u, pipe'[s] = "finalizing", reply'[s] # "error"
      PROVE  /\ Sent(s) <= Len(chunks[u])
             /\ \A i \in 1..Len(chunks[u]) : chunks[u][i] = s <=> i > Len(chunks[u]) - Sent(s)
  BY <1>2, <1>4 DEF IInv, ChunksOK
<1>5. QED
  BY <1>1, <1>2, <1>3, <1>4 DEF ChunksOK, Sent

LEMMA FinalizedKeeps ==
  ASSUME IInv, NEW r \in Recordings, Finalized(r)
  PROVE  IInv'
<1> DEFINE t == TabOf[r]
           data == chunks[t]
           reason == IF Contains(stops[r], "timer") THEN "max_duration" ELSE "user"
<1>1. /\ pipe[r] = "finalizing" /\ reply[r] = "finalized"
      /\ outcome' = [outcome EXCEPT ![r] = [data |-> data, reason |-> reason]]
      /\ chunks' = [chunks EXCEPT ![t] = <<>>]
      /\ pipe' = [pipe EXCEPT ![r] = "ending"] /\ reply' = [reply EXCEPT ![r] = "none"]
      /\ UNCHANGED <<op, session, stops, inbox, sink, recreating, cleaning, told, lost, dropped>>
  BY DEF Finalized, history
<1>2. t \in Tabs /\ data \in Seq(Recordings) /\ <<>> \in Seq(Recordings)
  BY Facts
<1>3. pipe' \in [Recordings -> Pipes] /\ \A s \in Recordings : pipe'[s] = IF s = r THEN "ending" ELSE pipe[s]
  BY <1>1, Facts DEF Pipes, Alive
<1>4. reply' \in [Recordings -> Replies] /\ \A s \in Recordings : reply'[s] = IF s = r THEN "none" ELSE reply[s]
  BY <1>1, Facts DEF Replies
<1>5. sink[t].rec = None
  BY <1>1 DEF IInv, FinalizingOK
<1>6. TypeOK'
  <2>1. [data |-> data, reason |-> reason] \in Videos
    BY <1>2 DEF Videos
  <2>2. outcome' \in [Recordings -> Videos] /\ chunks' \in [Tabs -> Seq(Recordings)]
    BY <1>1, <1>2, <2>1, Facts
  <2>3. QED
    BY <1>1, <1>3, <1>4, <2>2, Facts, TypesKept
<1>7. OpOK'
  BY <1>1, <1>3, Facts, OpFacts, NewOps DEF IInv, OpOK
<1>8. SessionOK'
  BY <1>1, <1>3, SessionKept DEF Stoppable, Alive
<1>9. RecreatingOK'
  BY <1>1 DEF IInv, RecreatingOK
<1>10. SinkOK' /\ InboxOK'
  <2>1. \A s \in Recordings : pipe[s] = "finalizing" /\ sink[TabOf[s]].rec = s => pipe'[s] = "finalizing"
    BY <1>3, <1>5, Facts
  <2>2. QED
    BY <1>1, <1>3, <2>1, SinkKept, InboxKept
<1>11. FinalizingOK'
  BY <1>1, <1>3, <1>4, FinalizingKept DEF IInv, FinalizingOK
<1>12. ChunksOK'
  BY <1>1, <1>3, <1>4, ChunksCleared
<1>13. VideosAreComplete'
  <2>1. /\ ChunksPerVideo <= Len(data)
        /\ \A i \in 1..Len(data) : data[i] = r <=> i > Len(data) - ChunksPerVideo
    <3>1. Sent(r) = ChunksPerVideo
      BY <1>5, Facts DEF Sent
    <3>2. QED
      BY <1>1, <1>2, <3>1 DEF IInv, ChunksOK
  <2>2. \A i \in 1..Len(data) : data[i] # r => data[i] \in lost
    <3>1. ASSUME NEW i \in 1..Len(data), data[i] # r PROVE data[i] \in lost
      <4>1. data[i] \in Recordings
        BY <1>2
      <4>2. TabOf[data[i]] = t /\ (data[i] \in lost \/ pipe[data[i]] = "finalizing")
        BY <1>2 DEF IInv, ChunksOK
      <4>3. QED
        BY <1>1, <3>1, <4>1, <4>2 DEF IInv, FinalizingOK
    <3>2. QED
      BY <3>1
  <2>3. {i \in 1..Len(data) : data[i] = r} = (Len(data) - ChunksPerVideo + 1)..Len(data)
    <3>1. Len(data) \in Nat /\ ChunksPerVideo \in Nat
      BY <1>2, Facts
    <3>2. QED
      BY <2>1, <3>1
  <2>4. /\ outcome'[r].data = data
        /\ \A s \in Recordings : s # r => outcome'[s] = outcome[s]
    BY <1>1, Facts
  <2>5. ASSUME NEW s \in Recordings, outcome'[s] # NoVideo
        PROVE  LET d == outcome'[s].data
                   own == {i \in 1..Len(d) : d[i] = s}
               IN /\ own = (Len(d) - ChunksPerVideo + 1)..Len(d)
                  /\ \A i \in (1..Len(d)) \ own : d[i] \in lost'
    <3>1. CASE s = r
      BY <1>1, <2>2, <2>3, <2>4, <3>1
    <3>2. CASE s # r
      BY <1>1, <2>4, <2>5, <3>2 DEF IInv, VideosAreComplete
    <3>3. QED
      BY <3>1, <3>2
  <2>6. QED
    BY <2>5 DEF VideosAreComplete
<1>14. QED
  BY <1>6, <1>7, <1>8, <1>9, <1>10, <1>11, <1>12, <1>13 DEF IInv

\* Whether its answer is an error or is given up, the pipeline fails.
LEMMA GivenUpKeeps ==
  ASSUME IInv, NEW r \in Recordings, pipe[r] = "finalizing",
         chunks' = [chunks EXCEPT ![TabOf[r]] = <<>>],
         pipe' = [pipe EXCEPT ![r] = "failing"], reply' = [reply EXCEPT ![r] = "none"],
         (lost' = lost /\ reply[r] = "error") \/ lost' = lost \cup {r},
         UNCHANGED <<op, session, stops, outcome, inbox, sink, recreating, cleaning, told, dropped>>
  PROVE  IInv'
<1>1. TabOf[r] \in Tabs /\ <<>> \in Seq(Recordings)
  BY Facts
<1>2. pipe' \in [Recordings -> Pipes] /\ \A s \in Recordings : pipe'[s] = IF s = r THEN "failing" ELSE pipe[s]
  BY Facts DEF Pipes, Alive
<1>3. reply' \in [Recordings -> Replies] /\ \A s \in Recordings : reply'[s] = IF s = r THEN "none" ELSE reply[s]
  BY Facts DEF Replies
<1>4. lost' \subseteq Recordings /\ lost \subseteq lost' /\ \A s \in Recordings : s # r /\ s \in lost' => s \in lost
  BY Facts
<1>5. TypeOK'
  <2>1. chunks' \in [Tabs -> Seq(Recordings)]
    BY <1>1, Facts
  <2>2. QED
    BY <1>2, <1>3, <1>4, <2>1, Facts, TypesKept
<1>6. OpOK'
  BY <1>2, Facts, OpFacts, NewOps DEF IInv, OpOK
<1>7. SessionOK'
  BY <1>2, SessionKept DEF Stoppable, Alive
<1>8. RecreatingOK'
  BY DEF IInv, RecreatingOK
<1>9. SinkOK' /\ InboxOK'
  <2>1. \A s \in Recordings : pipe[s] = "finalizing" /\ sink[TabOf[s]].rec = s => pipe'[s] = "finalizing" \/ s \in lost'
    BY <1>2, Facts, FinalizingFacts
  <2>2. QED
    BY <1>2, <1>4, <2>1, SinkKept, InboxKept
<1>10. FinalizingOK'
  BY <1>2, <1>3, <1>4, FinalizingKept DEF IInv, FinalizingOK
<1>11. ChunksOK'
  BY <1>2, <1>3, <1>4, ChunksCleared
<1>12. VideosAreComplete'
  BY <1>4, VideosKept
<1>13. QED
  BY <1>5, <1>6, <1>7, <1>8, <1>9, <1>10, <1>11, <1>12 DEF IInv

LEMMA FinalizeFailsKeeps ==
  ASSUME IInv, NEW r \in Recordings, FinalizeFails(r) \/ FinalizeTimesOut(r)
  PROVE  IInv'
<1>1. /\ pipe[r] = "finalizing" /\ chunks' = [chunks EXCEPT ![TabOf[r]] = <<>>]
      /\ pipe' = [pipe EXCEPT ![r] = "failing"] /\ reply' = [reply EXCEPT ![r] = "none"]
      /\ (lost' = lost /\ reply[r] = "error") \/ lost' = lost \cup {r}
      /\ UNCHANGED <<op, session, stops, outcome, inbox, sink, recreating, cleaning, told, dropped>>
  BY DEF FinalizeFails, FinalizeTimesOut, ForgetChunks, history
<1>2. QED
  BY <1>1, GivenUpKeeps

LEMMA SettleKeeps ==
  ASSUME IInv, NEW r \in Recordings, Settle(r)
  PROVE  IInv'
<1> DEFINE t == TabOf[r]
<1>1. /\ pipe[r] \in {"ending", "failing"}
      /\ pipe' = [pipe EXCEPT ![r] = IF @ = "ending" THEN "finished" ELSE "failed"]
      /\ session' = IF pipe[r] = "failing" THEN [session EXCEPT ![t] = None] ELSE session
      /\ UNCHANGED <<op, chunks, stops, outcome, inbox, reply, sink, recreating, cleaning, told, lost, dropped>>
  BY DEF Settle, offscreen, history
<1>2. /\ pipe' \in [Recordings -> Pipes]
      /\ \A s \in Recordings : s # r => pipe'[s] = pipe[s]
      /\ pipe'[r] = IF pipe[r] = "ending" THEN "finished" ELSE "failed"
  BY <1>1, Facts DEF Pipes
<1>3. /\ session' \in [Tabs -> Recordings \cup {None}]
      /\ \A s \in Tabs : session'[s] = IF s = t /\ pipe[r] = "failing" THEN None ELSE session[s]
  BY <1>1, Facts
<1>4. TypeOK'
  BY <1>1, <1>2, <1>3, Facts, TypesKept
<1>5. OpOK'
  <2>1. ASSUME NEW s \in Tabs, op[s].kind = "start"
        PROVE  pipe'[op[s].rec] = pipe[op[s].rec] /\ session'[s] = session[s]
    <3>1. op[s].rec \in Recordings /\ pipe[op[s].rec] = "asked" /\ session[s] = None
      BY <2>1, Facts, OpFacts, NewOps DEF IInv, OpOK
    <3>2. QED
      BY <1>1, <1>2, <1>3, <3>1
  <2>2. QED
    BY <1>1, <1>3, <2>1, OpKept
<1>6. SessionOK'
  <2>1. ASSUME NEW s \in Recordings, Stoppable(s)', \A d \in dropped' : TabOf[d] # TabOf[s]
        PROVE  Stoppable(s) /\ session'[TabOf[s]] = session[TabOf[s]]
    <3>1. Stoppable(r) /\ Stoppable(s) /\ (s = r => pipe[r] = "ending")
      BY <1>1, <1>2, <2>1 DEF Stoppable, Alive
    <3>2. session[TabOf[s]] = s
      BY <1>1, <2>1, <3>1 DEF IInv, SessionOK
    <3>3. s # r => TabOf[s] # t
      BY <1>1, <2>1, <3>1, <3>2 DEF IInv, SessionOK
    <3>4. QED
      BY <1>1, <1>3, <3>1, <3>3, Facts
  <2>2. QED
    BY <1>1, <1>3, <2>1, SessionKept
<1>7. RecreatingOK'
  BY <1>1 DEF IInv, RecreatingOK
<1>8. SinkOK' /\ InboxOK' /\ ChunksOK' /\ VideosAreComplete'
  BY <1>1, <1>2, SinkKept, InboxKept, ChunksKept, VideosKept
<1>9. FinalizingOK'
  <2>1. \A s \in Recordings : s \in lost => pipe'[s] \in {"failing", "failed"}
    BY <1>1, <1>2, FinalizingFacts
  <2>2. QED
    BY <1>1, <1>2, <2>1, FinalizingFacts, FinalizingKept
<1>10. QED
  BY <1>4, <1>5, <1>6, <1>7, <1>8, <1>9 DEF IInv

LEMMA RecordStopKeeps ==
  ASSUME IInv, NEW t \in Tabs, RecordStop(t)
  PROVE  IInv'
<1> DEFINE r == session[t]
<1>1. /\ op[t] = Idle /\ r # None
      /\ op' = [op EXCEPT ![t] = [kind |-> "stop", rec |-> r]]
      /\ stops' = [stops EXCEPT ![r] = Append(@, "user")]
      /\ UNCHANGED <<session, chunks, pipe, outcome, inbox, reply, sink, recreating, cleaning,
                     told, lost, dropped>>
  BY DEF RecordStop, offscreen, history
<1>2. r \in Recordings /\ TabOf[r] = t /\ "user" \in {"user", "timer"}
  BY <1>1, Facts DEF IInv, SessionOK
<1>3. /\ op' \in [Tabs -> Ops] /\ op'[t].kind = "stop" /\ op'[t].rec = r
      /\ \A s \in Tabs : s # t => op'[s] = op[s]
  BY <1>1, <1>2, Facts, NewOps
<1>4. /\ stops' \in [Recordings -> Seq({"user", "timer"})]
      /\ \A s \in Recordings : s # r => stops'[s] = stops[s]
      /\ stops'[r] = Append(stops[r], "user") /\ stops[r] \in Seq({"user", "timer"})
  BY <1>1, <1>2, Facts, AppendFacts
<1>5. \A s \in Recordings : /\ Contains(stops[s], "user") => Contains(stops'[s], "user")
                            /\ s = r => Contains(stops'[s], "user")
  <2>1. Contains(Append(stops[r], "user"), "user")
    BY <1>2, <1>4, ContainsAppend
  <2>2. QED
    BY <1>4, <2>1 DEF Contains
<1>6. TypeOK'
  BY <1>1, <1>3, <1>4, Facts, TypesKept
<1>7. OpOK'
  <2>1. ASSUME NEW s \in Tabs, s # t, op[s] # Idle
        PROVE  /\ op[s].rec \in Recordings /\ TabOf[op[s].rec] = s
               /\ op[s].kind = "start" => pipe[op[s].rec] = "asked" /\ session[s] = None
               /\ op[s].kind = "stop" => Contains(stops'[op[s].rec], "user") /\ session[s] \in {None, op[s].rec}
    <3>1. op[s].rec \in Recordings
      BY <2>1, Facts, OpFacts
    <3>2. /\ TabOf[op[s].rec] = s
          /\ op[s].kind = "start" => pipe[op[s].rec] = "asked" /\ session[s] = None
          /\ op[s].kind = "stop" => Contains(stops[op[s].rec], "user") /\ session[s] \in {None, op[s].rec}
      BY <2>1 DEF IInv, OpOK
    <3>3. QED
      BY <1>5, <3>1, <3>2
  <2>2. QED
    BY <1>1, <1>2, <1>3, <1>5, <2>1, NewOps DEF OpOK
<1>8. SessionOK'
  BY <1>1, <1>5, SessionKept DEF Stoppable
<1>9. RecreatingOK'
  BY <1>1 DEF IInv, RecreatingOK
<1>10. SinkOK' /\ InboxOK' /\ ChunksOK' /\ VideosAreComplete'
  BY <1>1, SinkKept, InboxKept, ChunksKept, VideosKept
<1>11. FinalizingOK'
  BY <1>1, FinalizingFacts, FinalizingKept
<1>12. QED
  BY <1>6, <1>7, <1>8, <1>9, <1>10, <1>11 DEF IInv

\* A stop ends or is given up: the session of the tab goes.
LEMMA StopLeaves ==
  ASSUME IInv, NEW t \in Tabs, op[t].kind = "stop",
         op' = [op EXCEPT ![t] = Idle], session' = [session EXCEPT ![t] = None],
         dropped' \subseteq Recordings, dropped \subseteq dropped',
         pipe[op[t].rec] \in {"finished", "failed"} \/ op[t].rec \in dropped',
         UNCHANGED <<chunks, pipe, stops, outcome, inbox, reply, sink, recreating, cleaning, told, lost>>
  PROVE  IInv'
<1> DEFINE r == op[t].rec
<1>1. /\ r \in Recordings /\ TabOf[r] = t
      /\ Contains(stops[r], "user") /\ session[t] \in {None, r}
  BY Facts, OpFacts, NewOps DEF IInv, OpOK
<1>2. op' \in [Tabs -> Ops] /\ \A s \in Tabs : op'[s] = IF s = t THEN Idle ELSE op[s]
  BY Facts, NewOps
<1>3. /\ session' \in [Tabs -> Recordings \cup {None}]
      /\ \A s \in Tabs : session'[s] = IF s = t THEN None ELSE session[s]
  BY Facts
<1>4. TypeOK'
  BY <1>2, <1>3, Facts, TypesKept
<1>5. OpOK'
  <2>1. \A s \in Tabs : op'[s].kind = "start" => session'[s] = session[s]
    BY <1>2, <1>3, NewOps
  <2>2. QED
    BY <1>2, <1>3, <2>1, OpKept
<1>6. SessionOK'
  <2>1. ASSUME NEW s \in Recordings, Stoppable(s)', \A d \in dropped' : TabOf[d] # TabOf[s]
        PROVE  Stoppable(s) /\ session'[TabOf[s]] = session[TabOf[s]]
    <3>1. Stoppable(s)
      BY <2>1 DEF Stoppable
    <3>2. session[TabOf[s]] = s
      BY <2>1, <3>1 DEF IInv, SessionOK
    <3>3. TabOf[s] = t => s = r
      BY <1>1, <3>2, Facts
    <3>4. s # r
      BY <1>1, <2>1, <3>1 DEF Stoppable, Alive
    <3>5. QED
      BY <1>3, <3>1, <3>3, <3>4, Facts
  <2>2. QED
    BY <1>3, <2>1, SessionKept
<1>7. RecreatingOK'
  BY NewOps DEF IInv, RecreatingOK
<1>8. SinkOK' /\ InboxOK' /\ ChunksOK' /\ VideosAreComplete'
  BY SinkKept, InboxKept, ChunksKept, VideosKept
<1>9. FinalizingOK'
  BY FinalizingFacts, FinalizingKept
<1>10. QED
  BY <1>4, <1>5, <1>6, <1>7, <1>8, <1>9 DEF IInv

LEMMA StopEndsKeeps ==
  ASSUME IInv, NEW t \in Tabs, StopEnds(t) \/ StopTimesOut(t)
  PROVE  IInv'
<1>1. /\ op[t].kind = "stop"
      /\ op' = [op EXCEPT ![t] = Idle] /\ session' = [session EXCEPT ![t] = None]
      /\ UNCHANGED <<chunks, pipe, stops, outcome, inbox, reply, sink, recreating, cleaning, told, lost>>
      /\ (dropped' = dropped /\ pipe[op[t].rec] \in {"finished", "failed"})
         \/ dropped' = dropped \cup {op[t].rec}
  BY DEF StopEnds, StopTimesOut, offscreen, history
<1>2. op[t].rec \in Recordings /\ dropped \subseteq Recordings
  BY <1>1, Facts, OpFacts, NewOps
<1>3. /\ dropped' \subseteq Recordings /\ dropped \subseteq dropped'
      /\ pipe[op[t].rec] \in {"finished", "failed"} \/ op[t].rec \in dropped'
  BY <1>1, <1>2
<1>4. QED
  BY <1>1, <1>3, StopLeaves

LEMMA CleaningKeeps ==
  ASSUME IInv, Cleanup \/ CleanupEnds \/ UNCHANGED vars
  PROVE  IInv'
<1>1. /\ cleaning' \in BOOLEAN
      /\ UNCHANGED <<op, session, chunks, pipe, stops, outcome, inbox, reply, sink, recreating,
                     told, lost, dropped>>
  BY Facts DEF Cleanup, CleanupEnds, vars, worker, offscreen, history
<1>2. TypeOK'
  BY <1>1, Facts, TypesKept
<1>3. OpOK' /\ RecreatingOK' /\ SinkOK' /\ InboxOK' /\ ChunksOK' /\ VideosAreComplete'
  BY <1>1, OpKept, RecreatingKept, SinkKept, InboxKept, ChunksKept, VideosKept
<1>4. SessionOK'
  BY <1>1, SessionKept DEF Stoppable
<1>5. FinalizingOK'
  BY <1>1, FinalizingFacts, FinalizingKept
<1>6. QED
  BY <1>2, <1>3, <1>4, <1>5 DEF IInv

LEMMA RestartKeeps ==
  ASSUME IInv, Restart
  PROVE  IInv'
<1>1. /\ op' = [t \in Tabs |-> Idle] /\ session' = [t \in Tabs |-> None]
      /\ chunks' = [t \in Tabs |-> <<>>]
      /\ pipe' = [r \in Recordings |-> IF pipe[r] = "unused" THEN "unused" ELSE "failed"]
      /\ outcome' = [r \in Recordings |-> NoVideo] /\ reply' = [r \in Recordings |-> "none"]
      /\ recreating' = TRUE /\ cleaning' = FALSE
      /\ lost' = lost \cup {r \in Recordings : pipe[r] = "finalizing"}
      /\ UNCHANGED <<stops, inbox, sink, told, dropped>>
  BY DEF Restart
<1>2. <<>> \in Seq(Recordings) /\ Len(<<>>) = 0 /\ NoVideo \in Videos
  BY DEF NoVideo, Videos
<1>3. /\ pipe' \in [Recordings -> {"unused", "failed"}] /\ lost' \subseteq Recordings /\ lost \subseteq lost'
      /\ \A r \in Recordings : pipe[r] = "finalizing" => r \in lost'
      /\ \A r \in Recordings : r \in lost' => pipe'[r] = "failed"
  BY <1>1, Facts, FinalizingFacts
<1>4. TypeOK'
  <2>1. pipe' \in [Recordings -> Pipes] /\ reply' \in [Recordings -> Replies]
    BY <1>1, <1>3 DEF Pipes, Replies
  <2>2. QED
    BY <1>1, <1>2, <1>3, <2>1, Facts, NewOps, TypesKept
<1>5. OpOK' /\ SessionOK' /\ RecreatingOK'
  BY <1>1, <1>3, NewOps, Facts DEF OpOK, SessionOK, RecreatingOK, Stoppable, Alive
<1>6. SinkOK' /\ InboxOK' /\ VideosAreComplete'
  BY <1>1, <1>3, SinkKept, InboxKept, VideosKept
<1>7. FinalizingOK'
  BY <1>1, <1>3, FinalizingKept
<1>8. ChunksOK'
  BY <1>1, <1>2, <1>3 DEF ChunksOK
<1>9. QED
  BY <1>4, <1>5, <1>6, <1>7, <1>8 DEF IInv

LEMMA RecreateOffscreenKeeps ==
  ASSUME IInv, RecreateOffscreen
  PROVE  IInv'
<1>1. /\ recreating /\ recreating' = FALSE
      /\ inbox' = [t \in Tabs |-> <<>>] /\ sink' = [t \in Tabs |-> NoSink]
      /\ UNCHANGED <<op, session, chunks, pipe, stops, outcome, reply, cleaning, told, lost, dropped>>
  BY DEF RecreateOffscreen, worker, history
<1>2. \A r \in Recordings : pipe[r] \in {"unused", "failed"} /\ reply[r] = "none"
  BY <1>1, FinalizingFacts DEF IInv, RecreatingOK
<1>3. <<>> \in Seq(Messages) /\ Len(<<>>) = 0
  OBVIOUS
<1>4. TypeOK'
  BY <1>1, <1>3, NewSinks, Facts, TypesKept
<1>5. OpOK' /\ RecreatingOK' /\ VideosAreComplete'
  BY <1>1, OpKept, RecreatingKept, VideosKept
<1>6. SessionOK'
  BY <1>1, SessionKept DEF Stoppable
<1>7. SinkOK' /\ InboxOK'
  <2>1. \A t \in Tabs : sink'[t].rec = None /\ sink'[t].phase = "none" /\ Len(inbox'[t]) = 0
    BY <1>1, <1>3, NewSinks
  <2>2. InboxOK'
    BY <2>1 DEF InboxOK
  <2>3. SinkOK'
    BY <1>1, <1>2, <2>1 DEF SinkOK
  <2>4. QED
    BY <2>2, <2>3
<1>8. FinalizingOK'
  BY <1>1, <1>2, NewSinks, Facts, FinalizingFacts DEF FinalizingOK
<1>9. ChunksOK'
  BY <1>1, <1>2 DEF IInv, ChunksOK
<1>10. QED
  BY <1>4, <1>5, <1>6, <1>7, <1>8, <1>9 DEF IInv

LEMMA DiscardSinkKeeps ==
  ASSUME IInv, NEW t \in Tabs, DiscardSink(t)
  PROVE  IInv'
<1>1. /\ sink[t].phase = "recording" /\ inbox[t] = <<>>
      /\ pipe[sink[t].rec] \notin {"attaching", "capturing"}
      /\ sink' = [sink EXCEPT ![t] = NoSink]
      /\ UNCHANGED <<op, session, chunks, pipe, stops, outcome, inbox, reply, recreating, cleaning,
                     told, lost, dropped>>
  BY DEF DiscardSink, Overdue, worker, history
<1>2. sink' \in [Tabs -> Sinks] /\ \A u \in Tabs : sink'[u] = IF u = t THEN NoSink ELSE sink[u]
  BY <1>1, Facts, NewSinks
<1>3. sink[t].rec # None /\ Len(inbox[t]) = 0 /\ NoSink.rec = None /\ NoSink.phase = "none"
  BY <1>1, Facts, SinkFacts, NewSinks
\* Nobody waits for a video of this tab.
<1>4. ASSUME NEW s \in Recordings, TabOf[s] = t PROVE pipe[s] # "finalizing" /\ reply[s] = "none"
  <2>1. reply[s] = "none"
    BY <1>3, <1>4, FinalizingFacts
  <2>2. pipe[s] = "finalizing" =>
          sink[t].rec = s /\ \E i \in 1..Len(inbox[t]) : inbox[t][i] = [type |-> "finalize", rec |-> s]
    BY <1>1, <1>4, <2>1 DEF IInv, FinalizingOK
  <2>3. QED
    BY <1>3, <2>1, <2>2
<1>5. TypeOK'
  BY <1>1, <1>2, Facts, TypesKept
<1>6. OpOK' /\ RecreatingOK' /\ VideosAreComplete'
  BY <1>1, OpKept, RecreatingKept, VideosKept
<1>7. SessionOK'
  BY <1>1, SessionKept DEF Stoppable
<1>8. SinkOK'
  <2>1. ASSUME NEW s \in Recordings, pipe[s] \in {"attaching", "capturing"}
        PROVE  sink'[TabOf[s]].rec = s /\ sink'[TabOf[s]].phase = "recording"
    <3>1. sink[TabOf[s]].rec = s /\ sink[TabOf[s]].phase = "recording"
      BY <2>1 DEF IInv, SinkOK
    <3>2. TabOf[s] # t
      BY <1>1, <2>1, <3>1
    <3>3. QED
      BY <1>2, <3>1, <3>2, Facts
  <2>2. QED
    BY <1>1, <1>2, <1>3, <2>1 DEF IInv, SinkOK
<1>9. InboxOK'
  BY <1>1, <1>2, InboxKept
<1>10. FinalizingOK'
  <2>1. ASSUME NEW s \in Recordings, pipe[s] = "finalizing" \/ reply[s] # "none"
        PROVE  sink'[TabOf[s]] = sink[TabOf[s]]
    BY <1>2, <1>4, <2>1, Facts
  <2>2. QED
    BY <1>1, <2>1 DEF IInv, FinalizingOK
<1>11. ChunksOK'
  <2>1. ASSUME NEW s \in Recordings, pipe[s] = "finalizing"
        PROVE  sink'[TabOf[s]] = sink[TabOf[s]]
    BY <1>2, <1>4, <2>1, Facts
  <2>2. QED
    BY <1>1, <2>1 DEF IInv, ChunksOK, Sent
<1>12. QED
  BY <1>5, <1>6, <1>7, <1>8, <1>9, <1>10, <1>11 DEF IInv

\* While a sink is finalized, only its own recording can wait for a video of its tab.
LEMMA FinalizingSink ==
  ASSUME IInv, NEW t \in Tabs, sink[t].phase = "finalizing"
  PROVE  /\ sink[t].rec \in Recordings /\ TabOf[sink[t].rec] = t /\ sink[t].for = sink[t].rec
         /\ pipe[sink[t].rec] = "finalizing" \/ sink[t].rec \in lost
         /\ \A s \in Recordings : TabOf[s] = t /\ s # sink[t].rec => pipe[s] # "finalizing"
         /\ \A s \in Recordings : TabOf[s] = t => reply[s] = "none"
         /\ \A s \in Recordings : TabOf[s] = t => pipe[s] \notin {"attaching", "capturing"}
         /\ \A i \in 1..Len(inbox[t]) : inbox[t][i].type # "finalize"
<1>1. sink[t].rec \in Recordings /\ sink[t].rec # None
  BY Facts, SinkFacts
<1>2. /\ TabOf[sink[t].rec] = t /\ sink[t].for = sink[t].rec
      /\ pipe[sink[t].rec] = "finalizing" \/ sink[t].rec \in lost
  BY <1>1 DEF IInv, SinkOK
<1>3. \A s \in Recordings : TabOf[s] = t => pipe[s] \notin {"attaching", "capturing"}
  BY DEF IInv, SinkOK
<1>4. \A s \in Recordings : TabOf[s] = t => reply[s] = "none"
  BY <1>1, FinalizingFacts
<1>5. \A s \in Recordings : TabOf[s] = t /\ s # sink[t].rec => pipe[s] # "finalizing"
  BY <1>4, FinalizingFacts
<1>6. \A i \in 1..Len(inbox[t]) : inbox[t][i].type # "finalize"
  BY DEF IInv, InboxOK
<1>7. QED
  BY <1>1, <1>2, <1>3, <1>4, <1>5, <1>6

LEMMA SendChunkKeeps ==
  ASSUME IInv, NEW t \in Tabs, SendChunk(t)
  PROVE  IInv'
<1> DEFINE r == sink[t].rec
           data == chunks[t]
<1>1. /\ sink[t].phase = "finalizing" /\ sink[t].left > 0
      /\ chunks' = [chunks EXCEPT ![t] = Append(@, r)]
      /\ sink' = [sink EXCEPT ![t].left = @ - 1]
      /\ UNCHANGED <<op, session, pipe, stops, outcome, inbox, reply, recreating, cleaning,
                     told, lost, dropped>>
  BY DEF SendChunk, Unsent, history
<1>2. /\ r \in Recordings /\ TabOf[r] = t /\ data \in Seq(Recordings) /\ Len(data) \in Nat
      /\ sink[t].left \in Nat /\ sink[t].left <= ChunksPerVideo /\ ChunksPerVideo \in Nat
  BY <1>1, Facts, SinkFacts, FinalizingSink
<1>3. /\ sink' \in [Tabs -> Sinks] /\ \A u \in Tabs : u # t => sink'[u] = sink[u]
      /\ sink'[t].rec = r /\ sink'[t].phase = sink[t].phase /\ sink'[t].for = sink[t].for
      /\ sink'[t].left = sink[t].left - 1
  <2>1. sink[t] \in [rec: Recordings, phase: {"recording", "finalizing"},
                     for: Recordings \cup {None}, left: 0..ChunksPerVideo]
    BY <1>1, Facts DEF Sinks, NoSink
  <2>2. /\ [sink[t] EXCEPT !.left = @ - 1] \in Sinks
        /\ [sink[t] EXCEPT !.left = @ - 1].rec = r
        /\ [sink[t] EXCEPT !.left = @ - 1].phase = sink[t].phase
        /\ [sink[t] EXCEPT !.left = @ - 1].for = sink[t].for
        /\ [sink[t] EXCEPT !.left = @ - 1].left = sink[t].left - 1
    BY <1>1, <1>2, <2>1 DEF Sinks
  <2>3. sink' = [sink EXCEPT ![t] = [sink[t] EXCEPT !.left = @ - 1]]
    BY <1>1
  <2>4. QED
    BY <2>2, <2>3, Facts
<1>4. /\ chunks' \in [Tabs -> Seq(Recordings)] /\ \A u \in Tabs : u # t => chunks'[u] = chunks[u]
      /\ chunks'[t] = Append(data, r) /\ Len(chunks'[t]) = Len(data) + 1 /\ chunks'[t][Len(data) + 1] = r
      /\ \A i \in 1..Len(data) : chunks'[t][i] = data[i]
  BY <1>1, <1>2, Facts, AppendFacts
<1>5. TypeOK'
  BY <1>1, <1>3, <1>4, Facts, TypesKept
<1>6. OpOK' /\ RecreatingOK' /\ VideosAreComplete'
  BY <1>1, OpKept, RecreatingKept, VideosKept
<1>7. SessionOK'
  BY <1>1, SessionKept DEF Stoppable
<1>8. \A u \in Tabs : sink'[u].rec = sink[u].rec /\ sink'[u].phase = sink[u].phase /\ sink'[u].for = sink[u].for
  BY <1>3
<1>9. SinkOK'
  <2>1. \A u \in Tabs : sink'[u].phase = "recording" => sink'[u].left = sink[u].left
    BY <1>1, <1>3
  <2>2. QED
    BY <1>1, <1>8, <2>1, Facts DEF IInv, SinkOK
<1>10. InboxOK'
  BY <1>1, <1>8, InboxKept
<1>11. FinalizingOK'
  BY <1>1, <1>8, Facts DEF IInv, FinalizingOK
<1>12. ChunksOK'
  <2>1. ASSUME NEW u \in Tabs, NEW i \in 1..Len(chunks'[u])
        PROVE  TabOf[chunks'[u][i]] = u /\ (chunks'[u][i] \in lost \/ pipe[chunks'[u][i]] = "finalizing")
    <3>1. CASE u = t /\ i = Len(data) + 1
      BY <1>1, <1>2, <1>4, <3>1, FinalizingSink
    <3>2. CASE u = t /\ i # Len(data) + 1
      <4>1. i \in 1..Len(data) /\ chunks'[t][i] = data[i]
        BY <1>2, <1>4, <3>2
      <4>2. QED
        BY <3>2, <4>1 DEF IInv, ChunksOK
    <3>3. CASE u # t
      BY <1>4, <3>3 DEF IInv, ChunksOK
    <3>4. QED
      BY <3>1, <3>2, <3>3
  <2>2. ASSUME NEW s \in Recordings, pipe[s] = "finalizing", reply[s] # "error"
        PROVE  /\ Sent(s)' <= Len(chunks'[TabOf[s]])
               /\ \A i \in 1..Len(chunks'[TabOf[s]]) :
                    chunks'[TabOf[s]][i] = s <=> i > Len(chunks'[TabOf[s]]) - Sent(s)'
    <3>1. /\ Sent(s) <= Len(chunks[TabOf[s]])
          /\ \A i \in 1..Len(chunks[TabOf[s]]) :
               chunks[TabOf[s]][i] = s <=> i > Len(chunks[TabOf[s]]) - Sent(s)
      BY <2>2, Facts DEF IInv, ChunksOK
    <3>2. CASE TabOf[s] = t
      <4>1. s = r
        BY <1>1, <2>2, <3>2, FinalizingSink
      <4> DEFINE n == ChunksPerVideo - sink[t].left
                 more == chunks'[t]
      <4>2. Sent(s)' = n + 1 /\ Sent(s) = n /\ n \in Nat
        BY <1>2, <1>3, <3>2, <4>1 DEF Sent
      <4>3. n <= Len(data) /\ \A i \in 1..Len(data) : data[i] = s <=> i > Len(data) - n
        BY <3>1, <3>2, <4>2
      <4>4. /\ Len(more) = Len(data) + 1 /\ more[Len(data) + 1] = s
            /\ \A i \in 1..Len(data) : more[i] = data[i]
        BY <1>4, <4>1
      <4> HIDE DEF n, more
      <4>5. ASSUME NEW i \in 1..Len(more) PROVE more[i] = s <=> i > Len(more) - (n + 1)
        <5>1. CASE i = Len(data) + 1
          BY <1>2, <4>2, <4>4, <5>1
        <5>2. CASE i # Len(data) + 1
          <6>1. i \in 1..Len(data) /\ more[i] = data[i]
            BY <1>2, <4>4, <5>2
          <6>2. i > Len(data) - n <=> i > Len(more) - (n + 1)
            BY <1>2, <4>2, <4>4, <6>1
          <6>3. QED
            BY <4>3, <6>1, <6>2
        <5>3. QED
          BY <5>1, <5>2
      <4>6. n + 1 <= Len(more)
        BY <1>2, <4>2, <4>3, <4>4
      <4>7. QED
        BY <3>2, <4>2, <4>5, <4>6 DEF more
    <3>3. CASE TabOf[s] # t
      <4>1. Sent(s)' = Sent(s) /\ chunks'[TabOf[s]] = chunks[TabOf[s]]
        BY <1>3, <1>4, <3>3, Facts DEF Sent
      <4>2. QED
        BY <3>1, <4>1
    <3>4. QED
      BY <3>2, <3>3
  <2>3. QED
    BY <1>1, <2>1, <2>2 DEF ChunksOK
<1>13. QED
  BY <1>5, <1>6, <1>7, <1>9, <1>10, <1>11, <1>12 DEF IInv

LEMMA EndSinkKeeps ==
  ASSUME IInv, NEW t \in Tabs, EndSink(t)
  PROVE  IInv'
<1> DEFINE r == sink[t].rec
<1>1. /\ sink[t].phase = "finalizing" /\ sink' = [sink EXCEPT ![t] = NoSink]
      /\ UNCHANGED <<op, session, chunks, pipe, stops, outcome, inbox, recreating, cleaning,
                     told, lost, dropped>>
  BY DEF EndSink, worker, history
<1>2. /\ r \in Recordings /\ TabOf[r] = t /\ sink[t].for = r /\ r # None
      /\ \A s \in Recordings : TabOf[s] = t /\ s # r => pipe[s] # "finalizing"
      /\ \A s \in Recordings : TabOf[s] = t => reply[s] = "none" /\ pipe[s] \notin {"attaching", "capturing"}
  BY <1>1, Facts, FinalizingSink
<1>3. /\ reply' \in [Recordings -> Replies] /\ \A s \in Recordings : s # r => reply'[s] = reply[s]
      /\ pipe[r] = "finalizing" => reply'[r] # "none" /\ (reply'[r] = "finalized" => sink[t].left = 0)
      /\ pipe[r] # "finalizing" => reply'[r] = "none"
  <2>1. \/ reply' = [reply EXCEPT ![r] = "finalized"] /\ pipe[r] = "finalizing" /\ sink[t].left = 0
        \/ reply' = [reply EXCEPT ![r] = "error"] /\ pipe[r] = "finalizing"
        \/ reply' = reply /\ pipe[r] # "finalizing"
    BY <1>2 DEF EndSink, Answer
  <2>2. QED
    BY <1>2, <2>1, Facts DEF Replies
<1>4. sink' \in [Tabs -> Sinks] /\ \A u \in Tabs : sink'[u] = IF u = t THEN NoSink ELSE sink[u]
  BY <1>1, Facts, NewSinks
<1>5. NoSink.rec = None /\ NoSink.phase = "none"
  BY NewSinks
<1>6. TypeOK'
  BY <1>1, <1>3, <1>4, Facts, TypesKept
<1>7. OpOK' /\ RecreatingOK' /\ VideosAreComplete'
  BY <1>1, OpKept, RecreatingKept, VideosKept
<1>8. SessionOK'
  BY <1>1, SessionKept DEF Stoppable
<1>9. SinkOK'
  BY <1>1, <1>2, <1>4, <1>5, Facts DEF IInv, SinkOK
<1>10. InboxOK'
  BY <1>1, <1>4, InboxKept
<1>11. FinalizingOK'
  <2>1. ASSUME NEW s \in Recordings, TabOf[s] = t
        PROVE  /\ pipe[s] = "finalizing" => reply'[s] # "none"
               /\ reply'[s] # "none" => pipe[s] = "finalizing" /\ sink'[TabOf[s]].rec = None
    BY <1>2, <1>3, <1>4, <1>5, <2>1
  <2>2. ASSUME NEW s \in Recordings, TabOf[s] # t
        PROVE  reply'[s] = reply[s] /\ sink'[TabOf[s]] = sink[TabOf[s]]
    BY <1>2, <1>3, <1>4, <2>2, Facts
  <2>3. QED
    BY <1>1, <2>1, <2>2 DEF IInv, FinalizingOK
<1>12. ChunksOK'
  <2>1. ASSUME NEW s \in Recordings, pipe[s] = "finalizing", reply'[s] # "error"
        PROVE  reply[s] # "error" /\ Sent(s)' = Sent(s)
    <3>1. CASE s = r
      <4>1. sink[t].left = 0 /\ reply[s] = "none" /\ reply'[s] = "finalized"
        BY <1>2, <1>3, <2>1, <3>1 DEF Replies
      <4>2. QED
        BY <1>2, <1>4, <1>5, <3>1, <4>1, Facts DEF Sent
    <3>2. CASE s # r
      <4>1. TabOf[s] # t /\ reply'[s] = reply[s]
        BY <1>2, <1>3, <2>1, <3>2
      <4>2. QED
        BY <1>4, <2>1, <4>1, Facts DEF Sent
    <3>3. QED
      BY <3>1, <3>2
  <2>2. ASSUME NEW u \in Tabs, NEW s \in Recordings, TabOf[s] = u, pipe[s] = "finalizing", reply'[s] # "error"
        PROVE  /\ Sent(s)' <= Len(chunks[u])
               /\ \A i \in 1..Len(chunks[u]) : chunks[u][i] = s <=> i > Len(chunks[u]) - Sent(s)'
    BY <2>1, <2>2 DEF IInv, ChunksOK
  <2>3. QED
    BY <1>1, <2>2 DEF IInv, ChunksOK
<1>13. QED
  BY <1>6, <1>7, <1>8, <1>9, <1>10, <1>11, <1>12 DEF IInv

LEMMA FinalizeSinkKeeps ==
  ASSUME IInv, NEW r \in Recordings, FinalizeSink(r)
  PROVE  IInv'
<1> DEFINE t == TabOf[r]
           m == [type |-> "finalize", rec |-> r]
<1>1. /\ t \in Tabs /\ inbox[t] # <<>> /\ Head(inbox[t]) = m /\ inbox' = [inbox EXCEPT ![t] = Tail(@)]
      /\ UNCHANGED <<op, session, chunks, pipe, stops, outcome, recreating, cleaning, told, lost, dropped>>
  BY Facts DEF FinalizeSink, worker, history
<1>2. 1 \in 1..Len(inbox[t]) /\ inbox[t][1] = m
  BY <1>1, InboxShrinks
\* The message is for the sink of this recording, and there is no other.
<1>3. /\ sink[t].rec = r /\ sink[t].phase = "recording" /\ (pipe[r] = "finalizing" \/ r \in lost)
      /\ \A i \in 1..Len(inbox[t]) : inbox[t][i].type = "finalize" => i = 1
  <2>1. inbox[t][1].type = "finalize" /\ inbox[t][1].rec = r
    BY <1>2
  <2>2. QED
    BY <1>1, <1>2, <2>1 DEF IInv, InboxOK
<1>4. sink' = [sink EXCEPT ![t].phase = "finalizing", ![t].for = r] /\ UNCHANGED reply
  BY <1>3 DEF FinalizeSink
<1>5. /\ sink' \in [Tabs -> Sinks] /\ \A u \in Tabs : u # t => sink'[u] = sink[u]
      /\ sink'[t].rec = r /\ sink'[t].phase = "finalizing" /\ sink'[t].for = r
      /\ sink'[t].left = sink[t].left
  <2> DEFINE new == [sink[t] EXCEPT !.phase = "finalizing", !.for = r]
  <2>1. sink[t] \in [rec: Recordings, phase: {"recording", "finalizing"},
                     for: Recordings \cup {None}, left: 0..ChunksPerVideo]
    BY <1>1, <1>3, Facts DEF Sinks, NoSink
  <2>2. new \in Sinks /\ new.rec = r /\ new.phase = "finalizing" /\ new.for = r /\ new.left = sink[t].left
    BY <1>3, <2>1 DEF Sinks
  <2>3. sink' = [sink EXCEPT ![t] = new]
    BY <1>4
  <2> HIDE DEF new
  <2>4. QED
    BY <1>1, <2>2, <2>3, Facts
<1>6. TypeOK'
  BY <1>1, <1>4, <1>5, Facts, InboxShrinks, TypesKept
<1>7. OpOK' /\ RecreatingOK' /\ VideosAreComplete'
  BY <1>1, OpKept, RecreatingKept, VideosKept
<1>8. SessionOK'
  BY <1>1, SessionKept DEF Stoppable
<1>9. SinkOK'
  <2>1. ASSUME NEW s \in Recordings, pipe[s] \in {"attaching", "capturing"}
        PROVE  sink'[TabOf[s]].rec = s /\ sink'[TabOf[s]].phase = "recording"
    <3>1. sink[TabOf[s]].rec = s /\ sink[TabOf[s]].phase = "recording"
      BY <2>1 DEF IInv, SinkOK
    <3>2. TabOf[s] # t
      BY <1>3, <2>1, <3>1, FinalizingFacts
    <3>3. QED
      BY <1>5, <3>1, <3>2, Facts
  <2>2. ASSUME NEW u \in Tabs
        PROVE  /\ sink'[u].rec # None => TabOf[sink'[u].rec] = u
               /\ sink'[u].phase = "recording" => sink'[u].for = None /\ sink'[u].left = ChunksPerVideo
               /\ sink'[u].phase = "finalizing" =>
                    /\ sink'[u].for = sink'[u].rec
                    /\ pipe[sink'[u].rec] = "finalizing" \/ sink'[u].rec \in lost
    <3>1. CASE u = t
      BY <1>3, <1>5, <3>1
    <3>2. CASE u # t
      BY <1>5, <3>2 DEF IInv, SinkOK
    <3>3. QED
      BY <3>1, <3>2
  <2>3. QED
    BY <1>1, <2>1, <2>2 DEF SinkOK
<1>10. InboxOK'
  <2>1. ASSUME NEW u \in Tabs, NEW i \in 1..Len(inbox'[u])
        PROVE  /\ TabOf[inbox'[u][i].rec] = u
               /\ inbox'[u][i].type = "finalize" =>
                    /\ sink'[u].rec = inbox'[u][i].rec /\ sink'[u].phase = "recording"
                    /\ pipe'[inbox'[u][i].rec] = "finalizing" \/ inbox'[u][i].rec \in lost'
                    /\ \A j \in 1..Len(inbox'[u]) : inbox'[u][j].type = "finalize" => i = j
    <3>1. CASE u = t
      <4> DEFINE k == i + 1
      <4>0. i \in 1..Len(inbox'[t]) /\ k # 1
        <5>1. i \in 1..Len(inbox'[t])
          BY <3>1
        <5>2. i \in Nat /\ i >= 1
          OBVIOUS
        <5>3. QED
          BY <5>1, <5>2
      <4>1. k \in 1..Len(inbox[t]) /\ inbox'[t][i] = inbox[t][k] /\ k # 1
        BY <1>1, <4>0, InboxShrinks
      <4> HIDE DEF k
      <4>2. inbox[t][k].type # "finalize" /\ TabOf[inbox[t][k].rec] = t
        BY <1>1, <1>3, <4>1 DEF IInv, InboxOK
      <4>3. QED
        BY <3>1, <4>1, <4>2
    <3>2. CASE u # t
      <4>1. inbox'[u] = inbox[u] /\ sink'[u] = sink[u]
        BY <1>1, <1>5, <3>2, InboxShrinks
      <4>2. QED
        BY <1>1, <4>1, OtherInbox
    <3>3. QED
      BY <3>1, <3>2
  <2>2. QED
    BY <2>1 DEF InboxOK
<1>11. FinalizingOK'
  <2>1. ASSUME NEW s \in Recordings, pipe[s] = "finalizing", reply[s] = "none"
        PROVE  /\ sink'[TabOf[s]].rec = s
               /\ sink'[TabOf[s]].phase = "recording" =>
                    \E i \in 1..Len(inbox'[TabOf[s]]) :
                      inbox'[TabOf[s]][i] = [type |-> "finalize", rec |-> s]
    <3>1. CASE TabOf[s] = t
      BY <1>3, <1>5, <2>1, <3>1, FinalizingFacts
    <3>2. CASE TabOf[s] # t
      <4>1. inbox'[TabOf[s]] = inbox[TabOf[s]] /\ sink'[TabOf[s]] = sink[TabOf[s]]
        BY <1>1, <1>5, <3>2, Facts, InboxShrinks
      <4>2. QED
        BY <2>1, <4>1 DEF IInv, FinalizingOK
    <3>3. QED
      BY <3>1, <3>2
  <2>2. \A u \in Tabs : sink'[u].rec = sink[u].rec
    BY <1>3, <1>5
  <2>3. ASSUME NEW s \in Recordings
        PROVE  /\ reply[s] # "none" => pipe[s] = "finalizing" /\ sink'[TabOf[s]].rec = None
               /\ s \in lost => pipe[s] \in {"failing", "failed"}
    BY <2>2, Facts, FinalizingFacts
  <2>4. QED
    BY <1>1, <1>4, <2>1, <2>3, FinalizingFacts DEF FinalizingOK
<1>12. ChunksOK'
  <2>1. \A s \in Recordings : sink'[TabOf[s]].rec = sink[TabOf[s]].rec /\ sink'[TabOf[s]].left = sink[TabOf[s]].left
    BY <1>3, <1>5, Facts
  <2>2. \A s \in Recordings : Sent(s)' = Sent(s)
    BY <2>1 DEF Sent
  <2>3. UNCHANGED <<chunks, pipe, reply, lost>> /\ ChunksOK
    BY <1>1, <1>4 DEF IInv
  <2>4. QED
    BY <2>2, <2>3 DEF ChunksOK
<1>13. QED
  BY <1>6, <1>7, <1>8, <1>9, <1>10, <1>11, <1>12 DEF IInv

LEMMA StartSinkKeeps ==
  ASSUME IInv, NEW r \in Recordings, StartSink(r)
  PROVE  IInv'
<1> DEFINE t == TabOf[r]
           waits == op[t] = [kind |-> "start", rec |-> r]
           started == sink[t].rec = None /\
                      sink' = [sink EXCEPT ![t] = [rec |-> r, phase |-> "recording", for |-> None,
                                                   left |-> ChunksPerVideo]]
<1>1. /\ t \in Tabs /\ inbox[t] # <<>> /\ Head(inbox[t]) = [type |-> "start", rec |-> r]
      /\ \A s \in Recordings : TabOf[s] = t => reply[s] = "none"
      /\ inbox' = [inbox EXCEPT ![t] = Tail(@)]
      /\ UNCHANGED <<chunks, stops, outcome, reply, recreating, cleaning, told, lost, dropped>>
  BY Facts DEF StartSink, history
<1>2. \/ started /\ waits /\ session' = [session EXCEPT ![t] = r]
         /\ pipe' = [pipe EXCEPT ![r] = "attaching"] /\ op' = [op EXCEPT ![t].kind = "ready"]
      \/ started /\ ~waits /\ UNCHANGED <<session, pipe, op>>
      \/ UNCHANGED <<session, sink>> /\ waits
         /\ op' = [op EXCEPT ![t] = Idle] /\ pipe' = [pipe EXCEPT ![r] = "failed"]
      \/ UNCHANGED <<session, sink, op, pipe>>
  BY DEF StartSink, HasSink
<1>3. waits => pipe[r] = "asked" /\ session[t] = None /\ op[t] # Idle
  <2>1. waits => op[t].kind = "start" /\ op[t].rec = r
    BY <1>1, Facts, OpFacts
  <2>2. QED
    BY <1>1, <2>1, NewOps DEF IInv, OpOK
<1>4. /\ pipe' \in [Recordings -> Pipes] /\ \A s \in Recordings : s # r => pipe'[s] = pipe[s]
      /\ pipe'[r] = pipe[r] \/ (waits /\ pipe'[r] \in {"attaching", "failed"})
      /\ pipe'[r] # pipe[r] => pipe[r] = "asked"
  <2>1. CASE pipe' = pipe
    BY <2>1, Facts
  <2>2. CASE waits /\ pipe' = [pipe EXCEPT ![r] = "attaching"]
    BY <1>3, <2>2, Facts DEF Pipes, Alive
  <2>3. CASE waits /\ pipe' = [pipe EXCEPT ![r] = "failed"]
    BY <1>3, <2>3, Facts DEF Pipes
  <2>4. QED
    BY <1>2, <2>1, <2>2, <2>3
<1>5. /\ op' \in [Tabs -> Ops] /\ \A s \in Tabs : s # t => op'[s] = op[s]
      /\ op'[t] \in {op[t], Idle, [kind |-> "ready", rec |-> r]}
      /\ op'[t].kind = "start" => op'[t] = op[t] /\ UNCHANGED <<pipe, session>>
  <2>1. CASE op' = op /\ UNCHANGED <<pipe, session>>
    BY <2>1, Facts
  <2>2. CASE waits /\ op' = [op EXCEPT ![t].kind = "ready"]
    <3>0. [op[t] EXCEPT !.kind = "ready"] = [kind |-> "ready", rec |-> r]
      BY <2>2
    <3>1. op' = [op EXCEPT ![t] = [kind |-> "ready", rec |-> r]]
      BY <2>2, <3>0
    <3>2. QED
      BY <1>1, <3>1, Facts, NewOps
  <2>3. CASE waits /\ op' = [op EXCEPT ![t] = Idle]
    BY <1>1, <2>3, Facts, NewOps
  <2>4. QED
    BY <1>2, <2>1, <2>2, <2>3
<1>6. /\ session' \in [Tabs -> Recordings \cup {None}] /\ \A s \in Tabs : s # t => session'[s] = session[s]
      /\ session'[t] = session[t] \/ (waits /\ session'[t] = r)
      /\ pipe'[r] = "attaching" /\ pipe[r] # "attaching" => session'[t] = r
  <2>1. CASE UNCHANGED session /\ (pipe'[r] # "attaching" \/ pipe[r] = "attaching")
    BY <2>1, Facts
  <2>2. CASE waits /\ session' = [session EXCEPT ![t] = r]
    BY <1>1, <2>2, Facts
  <2>3. UNCHANGED session => pipe'[r] # "attaching" \/ pipe[r] = "attaching"
    <3>1. CASE pipe' = pipe
      BY <3>1
    <3>2. CASE pipe' = [pipe EXCEPT ![r] = "failed"]
      BY <3>2, Facts
    <3>3. CASE waits /\ session' = [session EXCEPT ![t] = r]
      BY <1>1, <1>3, <3>3, Facts
    <3>4. QED
      BY <1>2, <3>1, <3>2, <3>3
  <2>4. QED
    BY <1>2, <2>1, <2>2, <2>3
\* The sink is new, or everything is as it was.
<1>7. /\ sink' \in [Tabs -> Sinks] /\ \A u \in Tabs : u # t => sink'[u] = sink[u]
      /\ \/ sink'[t] = sink[t] /\ (pipe'[r] = "attaching" => pipe[r] = "attaching")
         \/ /\ sink[t].rec = None /\ sink'[t].rec = r /\ sink'[t].phase = "recording"
            /\ sink'[t].for = None /\ sink'[t].left = ChunksPerVideo
  <2>1. CASE started
    BY <1>1, <2>1, Facts, NewSinks
  <2>2. CASE UNCHANGED sink /\ (pipe' = pipe \/ pipe' = [pipe EXCEPT ![r] = "failed"])
    BY <2>2, Facts
  <2>3. QED
    BY <1>2, <2>1, <2>2
<1> HIDE DEF started
<1>8. /\ sink[t].rec = None => /\ sink[t].phase = "none"
                               /\ \A s \in Recordings : TabOf[s] = t => pipe[s] # "finalizing"
                               /\ \A s \in Recordings : TabOf[s] = t => pipe[s] \notin {"attaching", "capturing"}
                               /\ \A i \in 1..Len(inbox[t]) : inbox[t][i].type # "finalize"
  <2>1. \A s \in Recordings : sink[t].rec = None /\ TabOf[s] = t => pipe[s] # "finalizing"
    BY <1>1, Facts, FinalizingFacts
  <2>2. \A s \in Recordings : sink[t].rec = None /\ TabOf[s] = t => pipe[s] \notin {"attaching", "capturing"}
    BY <1>1, Facts DEF IInv, SinkOK
  <2>3. sink[t].rec = None => sink[t].phase = "none"
    BY <1>1, Facts, SinkFacts
  <2>4. \A i \in 1..Len(inbox[t]) : sink[t].rec = None => inbox[t][i].type # "finalize"
    BY <1>1, <2>3 DEF IInv, InboxOK
  <2>5. QED
    BY <2>1, <2>2, <2>3, <2>4
<1>9. \A s \in Recordings : pipe'[s] = "finalizing" <=> pipe[s] = "finalizing"
  BY <1>4
<1>10. TypeOK'
  BY <1>1, <1>4, <1>5, <1>6, <1>7, Facts, InboxShrinks, TypesKept
<1>11. OpOK'
  <2>1. ASSUME NEW s \in Tabs, op'[s] # Idle
        PROVE  /\ TabOf[op'[s].rec] = s
               /\ op'[s].kind = "start" => pipe'[op'[s].rec] = "asked" /\ session'[s] = None
               /\ op'[s].kind = "stop" =>
                    Contains(stops'[op'[s].rec], "user") /\ session'[s] \in {None, op'[s].rec}
    <3>1. CASE op'[s] = op[s] /\ (s # t \/ ~waits)
      <4>1. op[s] # Idle /\ op[s].rec \in Recordings /\ session'[s] = session[s]
        BY <1>6, <2>1, <3>1, Facts, OpFacts
      <4>2. op[s].kind = "start" => pipe[op[s].rec] = "asked" /\ TabOf[op[s].rec] = s
        BY <4>1 DEF IInv, OpOK
      <4>3. op[s].kind = "start" => pipe'[op[s].rec] = pipe[op[s].rec]
        BY <1>4, <3>1, <4>1, <4>2
      <4>4. QED
        BY <1>1, <3>1, <4>1, <4>2, <4>3 DEF IInv, OpOK
    <3>2. CASE s = t /\ op'[s] = op[s] /\ waits
      <4>1. op[t].kind = "start" /\ op[t].rec = r
        BY <3>2
      <4>2. UNCHANGED <<pipe, session>>
        BY <1>5, <3>2, <4>1
      <4>3. QED
        BY <1>3, <3>2, <4>1, <4>2
    <3>3. CASE s = t /\ op'[s] = [kind |-> "ready", rec |-> r]
      BY <3>3
    <3>4. QED
      BY <1>5, <2>1, <3>1, <3>2, <3>3
  <2>2. QED
    BY <2>1, NewOps DEF OpOK
<1>12. SessionOK'
  <2>1. \A u \in Tabs : session'[u] # None => TabOf[session'[u]] = u
    BY <1>6 DEF IInv, SessionOK
  <2>2. ASSUME NEW s \in Recordings, Stoppable(s)', \A d \in dropped : TabOf[d] # TabOf[s]
        PROVE  session'[TabOf[s]] = s
    <3>1. CASE s = r /\ pipe'[r] # pipe[r]
      <4>1. pipe'[r] = "attaching"
        BY <1>4, <2>2, <3>1 DEF Stoppable, Alive
      <4>2. QED
        BY <1>6, <3>1, <4>1
    <3>2. CASE pipe'[s] = pipe[s]
      <4>1. Stoppable(s)
        BY <1>1, <2>2, <3>2 DEF Stoppable
      <4>2. session[TabOf[s]] = s
        BY <2>2, <4>1 DEF IInv, SessionOK
      <4>3. session'[TabOf[s]] = session[TabOf[s]]
        BY <1>3, <1>6, <4>2, Facts
      <4>4. QED
        BY <4>2, <4>3
    <3>3. QED
      BY <1>4, <3>1, <3>2
  <2>3. QED
    BY <1>1, <2>1, <2>2 DEF SessionOK
<1>13. RecreatingOK'
  <2>1. recreating => ~waits
    BY <1>1, <1>3 DEF IInv, RecreatingOK
  <2>2. ~waits => UNCHANGED <<op, session, pipe>>
    BY <1>2
  <2>3. QED
    BY <1>1, <2>1, <2>2, RecreatingKept
<1>14. SinkOK'
  <2>1. ASSUME NEW s \in Recordings, pipe'[s] \in {"attaching", "capturing"}
        PROVE  sink'[TabOf[s]].rec = s /\ sink'[TabOf[s]].phase = "recording"
    <3>1. CASE pipe[s] \in {"attaching", "capturing"}
      <4>1. sink[TabOf[s]].rec = s /\ sink[TabOf[s]].phase = "recording"
        BY <3>1 DEF IInv, SinkOK
      <4>2. sink'[TabOf[s]] = sink[TabOf[s]]
        BY <1>7, <1>8, <3>1, Facts
      <4>3. QED
        BY <4>1, <4>2
    <3>2. CASE pipe[s] \notin {"attaching", "capturing"}
      <4>1. s = r /\ pipe'[r] = "attaching"
        BY <1>4, <2>1, <3>2
      <4>2. QED
        BY <1>7, <3>2, <4>1
    <3>3. QED
      BY <3>1, <3>2
  <2>2. ASSUME NEW u \in Tabs
        PROVE  /\ sink'[u].rec # None => TabOf[sink'[u].rec] = u
               /\ sink'[u].phase = "recording" => sink'[u].for = None /\ sink'[u].left = ChunksPerVideo
               /\ sink'[u].phase = "finalizing" =>
                    /\ sink'[u].for = sink'[u].rec
                    /\ pipe'[sink'[u].rec] = "finalizing" \/ sink'[u].rec \in lost'
    <3>1. CASE sink'[u] = sink[u]
      <4>1. sink[u].phase = "finalizing" => sink[u].rec \in Recordings
        BY Facts, SinkFacts
      <4>2. QED
        BY <1>1, <1>9, <3>1, <4>1 DEF IInv, SinkOK
    <3>2. CASE u = t /\ sink'[t].rec = r /\ sink'[t].phase = "recording"
               /\ sink'[t].for = None /\ sink'[t].left = ChunksPerVideo
      BY <3>2
    <3>3. QED
      BY <1>7, <3>1, <3>2
  <2>3. QED
    BY <2>1, <2>2 DEF SinkOK
<1>15. InboxOK'
  <2>1. ASSUME NEW u \in Tabs, NEW i \in 1..Len(inbox'[u])
        PROVE  /\ TabOf[inbox'[u][i].rec] = u
               /\ inbox'[u][i].type = "finalize" =>
                    /\ sink'[u].rec = inbox'[u][i].rec /\ sink'[u].phase = "recording"
                    /\ pipe'[inbox'[u][i].rec] = "finalizing" \/ inbox'[u][i].rec \in lost'
                    /\ \A j \in 1..Len(inbox'[u]) : inbox'[u][j].type = "finalize" => i = j
    <3>1. CASE u = t
      <4>1. /\ i + 1 \in 1..Len(inbox[t]) /\ inbox'[t][i] = inbox[t][i + 1]
            /\ inbox[t][i + 1].rec \in Recordings
            /\ \A j \in 1..Len(inbox'[t]) : j + 1 \in 1..Len(inbox[t]) /\ inbox'[t][j] = inbox[t][j + 1]
        BY <1>1, <3>1, InboxShrinks
      <4>2. /\ TabOf[inbox[t][i + 1].rec] = t
            /\ inbox[t][i + 1].type = "finalize" =>
                 /\ sink[t].rec = inbox[t][i + 1].rec /\ sink[t].phase = "recording"
                 /\ pipe[inbox[t][i + 1].rec] = "finalizing" \/ inbox[t][i + 1].rec \in lost
                 /\ \A j \in 1..Len(inbox[t]) : inbox[t][j].type = "finalize" => i + 1 = j
        BY <1>1, <4>1 DEF IInv, InboxOK
      <4>3. inbox[t][i + 1].type = "finalize" => sink'[t] = sink[t]
        BY <1>7, <1>8, <4>1
      <4>4. inbox[t][i + 1].type = "finalize" =>
              \A j \in 1..Len(inbox'[t]) : inbox'[t][j].type = "finalize" => i = j
        <5>1. ASSUME inbox[t][i + 1].type = "finalize", NEW j \in 1..Len(inbox'[t]),
                     inbox'[t][j].type = "finalize"
              PROVE  i = j
          <6>1. i + 1 = j + 1
            BY <4>1, <4>2, <5>1
          <6>2. i \in Int /\ j \in Int
            OBVIOUS
          <6>3. QED
            BY <6>1, <6>2
        <5>2. QED
          BY <5>1
      <4>5. inbox[t][i + 1].type = "finalize" =>
              pipe'[inbox[t][i + 1].rec] = "finalizing" \/ inbox[t][i + 1].rec \in lost'
        BY <1>1, <1>9, <4>1, <4>2
      <4>6. inbox'[u][i] = inbox[t][i + 1] /\ TabOf[inbox[t][i + 1].rec] = u
        BY <3>1, <4>1, <4>2
      <4>7. CASE inbox[t][i + 1].type = "finalize"
        <5>1. sink'[u].rec = inbox[t][i + 1].rec /\ sink'[u].phase = "recording"
          BY <3>1, <4>2, <4>3, <4>7
        <5>2. \A j \in 1..Len(inbox'[u]) : inbox'[u][j].type = "finalize" => i = j
          BY <3>1, <4>4, <4>7
        <5>3. QED
          BY <4>5, <4>6, <4>7, <5>1, <5>2
      <4>8. CASE inbox[t][i + 1].type # "finalize"
        BY <4>6, <4>8
      <4>9. QED
        BY <4>7, <4>8
    <3>2. CASE u # t
      <4>1. inbox'[u] = inbox[u] /\ sink'[u] = sink[u]
        BY <1>1, <1>7, <3>2, InboxShrinks
      <4>2. /\ i \in 1..Len(inbox[u]) /\ lost \subseteq lost'
            /\ \A s \in Recordings : pipe[s] = "finalizing" => pipe'[s] = "finalizing"
        BY <1>1, <1>9, <4>1
      <4>3. QED
        BY <4>1, <4>2, OtherInbox
    <3>3. QED
      BY <3>1, <3>2
  <2>2. QED
    BY <2>1 DEF InboxOK
<1>16. ASSUME NEW s \in Recordings, pipe[s] = "finalizing" \/ reply[s] # "none"
       PROVE  sink'[TabOf[s]] = sink[TabOf[s]]
  <2>1. TabOf[s] = t => pipe[s] = "finalizing"
    BY <1>1, <1>16
  <2>2. QED
    BY <1>7, <1>8, <2>1, Facts
<1>17. FinalizingOK'
  <2>1. ASSUME NEW s \in Recordings, pipe[s] = "finalizing", reply[s] = "none"
        PROVE  /\ sink'[TabOf[s]].rec = s
               /\ sink'[TabOf[s]].phase = "recording" =>
                    \E i \in 1..Len(inbox'[TabOf[s]]) :
                      inbox'[TabOf[s]][i] = [type |-> "finalize", rec |-> s]
    <3>1. /\ sink[TabOf[s]].rec = s /\ sink'[TabOf[s]] = sink[TabOf[s]]
          /\ sink[TabOf[s]].phase = "recording" =>
               \E i \in 1..Len(inbox[TabOf[s]]) : inbox[TabOf[s]][i] = [type |-> "finalize", rec |-> s]
      BY <1>16, <2>1 DEF IInv, FinalizingOK
    <3>2. CASE TabOf[s] = t
      <4>1. \A i \in 1..Len(inbox[t]) : inbox[t][i] = [type |-> "finalize", rec |-> s] => i # 1
        <5>1. inbox[t][1].type = "start"
          BY <1>1, InboxShrinks
        <5>2. QED
          BY <5>1
      <4>2. CASE sink[t].phase = "recording"
        <5>1. PICK i \in 1..Len(inbox[t]) : inbox[t][i] = [type |-> "finalize", rec |-> s]
          BY <3>1, <3>2, <4>2
        <5>2. \E j \in 1..Len(inbox'[t]) : inbox'[t][j] = inbox[t][i]
          <6>1. \A k \in 1..Len(inbox[t]) : k # 1 => \E j \in 1..Len(inbox'[t]) : inbox'[t][j] = inbox[t][k]
            BY <1>1, InboxShrinks
          <6>2. i # 1
            BY <4>1, <5>1
          <6>3. QED
            BY <6>1, <6>2
        <5>3. \E j \in 1..Len(inbox'[t]) : inbox'[t][j] = [type |-> "finalize", rec |-> s]
          BY <5>1, <5>2
        <5>4. QED
          BY <3>1, <3>2, <5>3
      <4>3. QED
        BY <3>1, <3>2, <4>2
    <3>3. CASE TabOf[s] # t
      <4>1. inbox'[TabOf[s]] = inbox[TabOf[s]]
        BY <1>1, <3>3, Facts, InboxShrinks
      <4>2. QED
        BY <3>1, <4>1
    <3>4. QED
      BY <3>2, <3>3
  <2>2. ASSUME NEW s \in Recordings
        PROVE  /\ reply[s] # "none" => pipe'[s] = "finalizing" /\ sink'[TabOf[s]].rec = None
               /\ s \in lost => pipe'[s] \in {"failing", "failed"}
    BY <1>4, <1>9, <1>16, FinalizingFacts
  <2>3. QED
    BY <1>1, <1>9, <2>1, <2>2, FinalizingFacts DEF FinalizingOK
<1>18. ChunksOK'
  <2>1. ASSUME NEW u \in Tabs, NEW i \in 1..Len(chunks[u])
        PROVE  TabOf[chunks[u][i]] = u /\ (chunks[u][i] \in lost \/ pipe'[chunks[u][i]] = "finalizing")
    <3>1. chunks[u] \in Seq(Recordings)
      BY Facts
    <3>2. chunks[u][i] \in Recordings
      BY <3>1
    <3>3. QED
      BY <1>9, <3>2 DEF IInv, ChunksOK
  <2>2. \A s \in Recordings : pipe[s] = "finalizing" => sink'[TabOf[s]] = sink[TabOf[s]]
    BY <1>16
  <2>3. QED
    BY <1>1, <1>9, <2>1, <2>2 DEF IInv, ChunksOK, Sent
<1>19. VideosAreComplete'
  BY <1>1, VideosKept
<1>20. QED
  BY <1>10, <1>11, <1>12, <1>13, <1>14, <1>15, <1>17, <1>18, <1>19 DEF IInv

(***************************************************************************)
(* The invariant and what follows from it.                                 *)
(***************************************************************************)

LEMMA InitInvariant == Init => IInv
<1>1. /\ <<>> \in Seq(Recordings) /\ <<>> \in Seq({"user", "timer"}) /\ <<>> \in Seq(Messages)
      /\ Len(<<>>) = 0 /\ 1..0 = {}
  OBVIOUS
<1> SUFFICES ASSUME Init PROVE IInv
  OBVIOUS
<1>2. /\ \A r \in Recordings : TabOf[r] \in Tabs /\ pipe[r] = "unused" /\ reply[r] = "none"
      /\ \A r \in Recordings : outcome[r] = NoVideo
      /\ \A t \in Tabs : /\ op[t] = Idle /\ session[t] = None /\ chunks[t] = <<>>
                         /\ inbox[t] = <<>> /\ sink[t] = NoSink
      /\ recreating = FALSE /\ lost = {}
  BY RecordingAssumption DEF Init
<1>3. TypeOK
  <2>1. NoVideo \in Videos
    BY <1>1 DEF Videos, NoVideo
  <2>2. /\ op \in [Tabs -> Ops] /\ session \in [Tabs -> Recordings \cup {None}]
        /\ pipe \in [Recordings -> Pipes] /\ reply \in [Recordings -> Replies]
        /\ sink \in [Tabs -> Sinks]
    BY NewOps, NewSinks DEF Init, Pipes, Replies
  <2>3. /\ chunks \in [Tabs -> Seq(Recordings)] /\ stops \in [Recordings -> Seq({"user", "timer"})]
        /\ inbox \in [Tabs -> Seq(Messages)] /\ outcome \in [Recordings -> Videos]
    BY <1>1, <2>1 DEF Init
  <2>4. QED
    BY <2>2, <2>3, Typed DEF Init
<1>4. OpOK
  BY <1>2 DEF OpOK, Idle
<1>5. SessionOK
  BY <1>2 DEF SessionOK, Stoppable, Alive
<1>6. RecreatingOK /\ SinkOK
  BY <1>2 DEF RecreatingOK, SinkOK, NoSink
<1>7. InboxOK /\ ChunksOK
  BY <1>1, <1>2 DEF InboxOK, ChunksOK
<1>8. FinalizingOK /\ VideosAreComplete
  BY <1>2 DEF FinalizingOK, VideosAreComplete
<1>9. QED
  BY <1>3, <1>4, <1>5, <1>6, <1>7, <1>8 DEF IInv

LEMMA NextKeeps == IInv /\ [Next]_vars => IInv'
<1> SUFFICES ASSUME IInv, [Next]_vars PROVE IInv'
  OBVIOUS
<1>1. ASSUME NEW r \in Recordings, RecordStart(r) \/ StartSink(r) \/ FinalizeSink(r)
      PROVE  IInv'
  BY <1>1, RecordStartKeeps, StartSinkKeeps, FinalizeSinkKeeps
<1>2. ASSUME NEW r \in Recordings, Pipeline(r)
      PROVE  IInv'
  BY <1>2, AttachKeeps, AttachFailsKeeps, StopCapturingKeeps, FinalizedKeeps, FinalizeFailsKeeps,
     SettleKeeps DEF Pipeline
<1>3. ASSUME NEW r \in Recordings, CaptureFails(r) \/ MaxDuration(r)
      PROVE  IInv'
  BY <1>3, CaptureFailsKeeps, MaxDurationKeeps
<1>4. ASSUME NEW t \in Tabs, StartTimesOut(t) \/ RecordStop(t) \/ StopEnds(t) \/ StopTimesOut(t)
      PROVE  IInv'
  BY <1>4, StartTimesOutKeeps, RecordStopKeeps, StopEndsKeeps
<1>5. ASSUME NEW t \in Tabs, SinkStep(t) \/ DiscardSink(t)
      PROVE  IInv'
  BY <1>5, SendChunkKeeps, EndSinkKeeps, DiscardSinkKeeps DEF SinkStep
<1>6. CASE Cleanup \/ CleanupEnds \/ UNCHANGED vars
  BY <1>6, CleaningKeeps
<1>7. CASE Restart \/ RecreateOffscreen
  BY <1>7, RestartKeeps, RecreateOffscreenKeeps
<1>8. QED
  BY <1>1, <1>2, <1>3, <1>4, <1>5, <1>6, <1>7 DEF Next

\* The invariant holds in every state of every behaviour: what worker, page and
\* the messages between them know of a tab's recordings fits together, however late
\* starts, stops, frames and videos come and whenever the worker restarts.
THEOREM RecordingInvariant == Spec => []IInv
BY InitInvariant, NextKeeps, PTL DEF Spec

\* The variables keep their types.
THEOREM RecordingTypes == Spec => []TypeOK
<1>1. IInv => TypeOK
  BY DEF IInv
<1>2. QED
  BY <1>1, RecordingInvariant, PTL

\* A pipeline that captures draws into the sink that was started for it, and the
\* message to finalize a recording reaches that recording's own sink, although
\* both are looked up by tab id alone (actions.ts, offscreen.ts).
THEOREM FramesReachOwnSinks == Spec => []OwnSinkOnly
<1>1. IInv => OwnSinkOnly
  <2> SUFFICES ASSUME IInv PROVE OwnSinkOnly
    OBVIOUS
  <2>1. \A r \in Recordings : pipe[r] = "capturing" => sink[TabOf[r]].rec = r
    BY DEF IInv, SinkOK
  <2>2. ASSUME NEW t \in Tabs, sink[t].for # None PROVE sink[t].for = sink[t].rec
    <3>1. sink[t] \in Sinks
      BY Facts
    <3>2. sink[t].phase = "none" => sink[t].for = None
      BY <3>1, SinkFacts DEF NoSink
    <3>3. QED
      BY <2>2, <3>1, <3>2, SinkFacts DEF IInv, SinkOK
  <2>3. QED
    BY <2>1, <2>2 DEF OwnSinkOnly
<1>2. QED
  BY <1>1, RecordingInvariant, PTL

\* A video that a pipeline delivers ends with all the chunks of its recording, in one
\* piece; what precedes them was sent for recordings whose finalization had timed out.
THEOREM VideosComplete == Spec => []VideosAreComplete
<1>1. IInv => VideosAreComplete
  BY DEF IInv
<1>2. QED
  BY <1>1, RecordingInvariant, PTL

\* Whoever was told {started} can stop the recording: its session is in
\* state.recordings until its stop comes, unless a stop of the tab timed out.
THEOREM StartedRecordingsCanBeStopped == Spec => []StartedCanBeStopped
<1>1. IInv => StartedCanBeStopped
  <2> SUFFICES ASSUME IInv, NEW r \in told, pipe[r] \in Alive \cup {"finished"},
                      ~Contains(stops[r], "user"), \A s \in dropped : TabOf[s] # TabOf[r]
               PROVE  session[TabOf[r]] = r
    BY DEF StartedCanBeStopped
  <2>1. r \in Recordings /\ Stoppable(r)
    BY Facts DEF Stoppable
  <2>2. QED
    BY <2>1 DEF IInv, SessionOK
<1>2. QED
  BY <1>1, RecordingInvariant, PTL

\* A cleanup begins only when no recording that somebody was told of captures or waits
\* for its video, unless a stop on its tab timed out: state.recordings, which the
\* cleanup checks, has all the others.
THEOREM CleanupsSpareRecordings == Spec => CleanupSparesRecordings
<1>1. ASSUME IInv, [Next]_vars, ~cleaning, cleaning', NEW r \in told,
             pipe[r] \in {"capturing", "finalizing"}
      PROVE  \E s \in dropped : TabOf[s] = TabOf[r]
  <2>1. Cleanup
    BY <1>1 DEF Next, RecordStart, StartSink, FinalizeSink, Pipeline, Attach, AttachFails,
       StopCapturing, Finalized, FinalizeFails, FinalizeTimesOut, Settle, CaptureFails, MaxDuration,
       StartTimesOut, RecordStop, StopEnds, StopTimesOut, SinkStep, SendChunk, EndSink, DiscardSink,
       CleanupEnds, Restart, RecreateOffscreen, vars
  <2>2. r \in Recordings /\ TabOf[r] \in Tabs /\ r # None
    BY <1>1, Facts
  <2>3. session[TabOf[r]] = None
    BY <2>1, <2>2 DEF Cleanup, NoRecordings
  <2>4. Stoppable(r)
    BY <1>1 DEF Stoppable, Alive
  <2>5. QED
    BY <1>1, <2>2, <2>3, <2>4 DEF IInv, SessionOK
<1>2. IInv /\ [Next]_vars =>
        [~cleaning /\ cleaning' =>
           \A r \in Recordings : r \in told /\ pipe[r] \in {"capturing", "finalizing"} =>
             \E s \in dropped : TabOf[s] = TabOf[r]]_vars
  BY <1>1
<1>3. QED
  BY <1>2, RecordingInvariant, PTL DEF Spec, CleanupSparesRecordings
===============================================================================
