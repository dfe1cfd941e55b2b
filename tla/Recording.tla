------------------------------ MODULE Recording ------------------------------
(***************************************************************************)
(* Recordings of tabs, in the worker and in its offscreen page:            *)
(*                                                                         *)
(*   worker      executeRecordStart and executeRecordStop (`op`, one at a  *)
(*               time on a tab, as the tab's queue serializes them), the   *)
(*               sessions and chunks they keep per tab, and one pipeline   *)
(*               per recording that captures until it is told to stop;     *)
(*   offscreen   one sink per tab that encodes the frames, and sends the   *)
(*               video back in chunks when it is finalized.                *)
(*                                                                         *)
(* Worker and page exchange messages; the worker gives an answer up after  *)
(* a timeout, the page goes on.  Everything is found by tab id, never by   *)
(* recording, so what is late meets whatever recording is there by then.   *)
(* `told`, `lost` and `dropped` are history.                               *)
(***************************************************************************)
EXTENDS Naturals, Sequences, SequencesExt

CONSTANTS
  Tabs,
  Recordings,       \* every start of a recording, each with its tab
  TabOf,
  ChunksPerVideo,   \* messages the encoded video is cut into
  None

ASSUME RecordingAssumption ==
  /\ TabOf \in [Recordings -> Tabs]
  /\ ChunksPerVideo \in Nat \ {0}
  /\ None \notin Recordings

VARIABLES
  op,         \* per tab: the record action in progress
  session,    \* state.recordings
  chunks,     \* state.recordingChunks: whose chunks, in order of arrival
  pipe,       \* where the pipeline of a recording is
  stops,      \* who asked the pipeline to stop: "user", "timer", in order
  outcome,    \* what the pipeline resolved to
  inbox,      \* messages to the sink of a tab, in order
  reply,      \* answers to finalizeRecording on their way to a pipeline
  sink,       \* the offscreen page's sinks
  recreating, \* a restarted worker has not replaced the offscreen page yet
  cleaning,   \* a cleanup waits for browsingData
  told,       \* recordings whose start was answered with {started}
  lost,       \* recordings whose finalization the worker no longer waits for
  dropped     \* recordings whose stop timed out

worker    == <<op, session, chunks, pipe, stops, outcome>>
offscreen == <<inbox, reply, sink>>
history   == <<told, lost, dropped>>
vars == <<worker, offscreen, recreating, cleaning, history>>

Idle   == [kind |-> "none", rec |-> None]
NoSink == [rec |-> None, phase |-> "none", for |-> None, left |-> 0]
NoVideo == [data |-> <<>>, reason |-> "none"]
Alive  == {"attaching", "capturing", "finalizing", "ending", "failing"}

TypeOK ==
  /\ op \in [Tabs -> {Idle} \cup [kind: {"start", "ready", "stop"}, rec: Recordings]]
  /\ session \in [Tabs -> Recordings \cup {None}]
  /\ chunks \in [Tabs -> Seq(Recordings)]
  /\ pipe \in [Recordings -> Alive \cup {"unused", "asked", "finished", "failed"}]
  /\ stops \in [Recordings -> Seq({"user", "timer"})]
  /\ outcome \in [Recordings -> [data: Seq(Recordings), reason: {"none", "user", "max_duration"}]]
  /\ inbox \in [Tabs -> Seq([type: {"start", "finalize"}, rec: Recordings])]
  /\ reply \in [Recordings -> {"none", "finalized", "error"}]
  /\ sink \in [Tabs -> {NoSink} \cup [rec: Recordings, phase: {"recording", "finalizing"},
                                       for: Recordings \cup {None}, left: 0..ChunksPerVideo]]
  /\ recreating \in BOOLEAN /\ cleaning \in BOOLEAN
  /\ told \subseteq Recordings /\ lost \subseteq Recordings /\ dropped \subseteq Recordings

Init ==
  /\ op = [t \in Tabs |-> Idle]
  /\ session = [t \in Tabs |-> None]
  /\ chunks = [t \in Tabs |-> <<>>]
  /\ pipe = [r \in Recordings |-> "unused"]
  /\ stops = [r \in Recordings |-> <<>>]
  /\ outcome = [r \in Recordings |-> NoVideo]
  /\ inbox = [t \in Tabs |-> <<>>]
  /\ reply = [r \in Recordings |-> "none"]
  /\ sink = [t \in Tabs |-> NoSink]
  /\ recreating = FALSE /\ cleaning = FALSE
  /\ told = {} /\ lost = {} /\ dropped = {}

----------------------------------------------------------------------------
(* executeRecordStart *)

\* Mutant: the check of state.recordings is dropped.
IsRecordingNever(t) == FALSE
\* state.recordings has the tab.
IsRecording(t) == session[t] # None

\* No session for the tab, the offscreen page is there: ask for a sink.
RecordStart(r) ==
  LET t == TabOf[r] IN
  /\ op[t] = Idle /\ ~IsRecording(t) /\ pipe[r] = "unused" /\ ~recreating
  /\ op' = [op EXCEPT ![t] = [kind |-> "start", rec |-> r]]
  /\ pipe' = [pipe EXCEPT ![r] = "asked"]
  /\ inbox' = [inbox EXCEPT ![t] = Append(@, [type |-> "start", rec |-> r])]
  /\ UNCHANGED <<session, chunks, stops, outcome, reply, sink, recreating, cleaning, history>>

\* Mutant: a new sink takes the place of an old one.
HasSinkNever(t) == FALSE
\* The page has a sink for the tab.
HasSink(t) == sink[t].rec # None

\* startRecordingSink: one sink per tab.  The worker hears of it if it still
\* waits: the session is set and the pipeline asks for the debugger, or the
\* start fails, as it does when the page cannot encode.  Answers arrive in
\* order: those to earlier messages first.
StartSink(r) ==
  LET t == TabOf[r]
      waits == op[t] = [kind |-> "start", rec |-> r]
  IN
  /\ inbox[t] # <<>> /\ Head(inbox[t]) = [type |-> "start", rec |-> r]
  /\ \A s \in Recordings : TabOf[s] = t => reply[s] = "none"
  /\ inbox' = [inbox EXCEPT ![t] = Tail(@)]
  /\ \/ /\ ~HasSink(t)
        /\ sink' = [sink EXCEPT ![t] = [rec |-> r, phase |-> "recording", for |-> None,
                                        left |-> ChunksPerVideo]]
        /\ IF waits
           THEN /\ session' = [session EXCEPT ![t] = r]
                /\ pipe' = [pipe EXCEPT ![r] = "attaching"]
                /\ op' = [op EXCEPT ![t].kind = "ready"]
           ELSE UNCHANGED <<session, pipe, op>>
     \/ /\ op' = IF waits THEN [op EXCEPT ![t] = Idle] ELSE op
        /\ pipe' = IF waits THEN [pipe EXCEPT ![r] = "failed"] ELSE pipe
        /\ UNCHANGED <<session, sink>>
  /\ UNCHANGED <<chunks, stops, outcome, reply, recreating, cleaning, history>>

\* The start times out: before the sink has answered no pipeline exists,
\* afterwards (pipeline.ready) session and pipeline stay.
StartTimesOut(t) ==
  /\ op[t].kind \in {"start", "ready"}
  /\ op' = [op EXCEPT ![t] = Idle]
  /\ pipe' = IF op[t].kind = "start" THEN [pipe EXCEPT ![op[t].rec] = "failed"] ELSE pipe
  /\ UNCHANGED <<session, chunks, stops, outcome, offscreen, recreating, cleaning, history>>

----------------------------------------------------------------------------
(* startRecordingPipeline *)

\* The debugger is attached: the pipeline is ready and starts its timer.
Attach(r) ==
  LET t == TabOf[r]
      waits == op[t] = [kind |-> "ready", rec |-> r]
  IN
  /\ pipe[r] = "attaching"
  /\ pipe' = [pipe EXCEPT ![r] = "capturing"]
  /\ op' = IF waits THEN [op EXCEPT ![t] = Idle] ELSE op
  /\ told' = IF waits THEN told \cup {r} ELSE told
  /\ UNCHANGED <<session, chunks, stops, outcome, offscreen, recreating, cleaning, lost, dropped>>

\* Chromium refuses the debugger: ready and finished fail, the session goes.
AttachFails(r) ==
  LET t == TabOf[r] IN
  /\ pipe[r] = "attaching"
  /\ pipe' = [pipe EXCEPT ![r] = "failed"]
  /\ session' = [session EXCEPT ![t] = None]
  /\ op' = IF op[t] = [kind |-> "ready", rec |-> r] THEN [op EXCEPT ![t] = Idle] ELSE op
  /\ UNCHANGED <<chunks, stops, outcome, offscreen, recreating, cleaning, history>>

\* The pipeline's timer is set.
Timed(r) == pipe[r] \in {"capturing", "finalizing"}

\* maxRecordingDurationSec is over; the timer runs until the pipeline ends.
MaxDuration(r) ==
  /\ Timed(r) /\ ~Contains(stops[r], "timer")
  /\ stops' = [stops EXCEPT ![r] = Append(@, "timer")]
  /\ UNCHANGED <<op, session, chunks, pipe, outcome, offscreen, recreating, cleaning, history>>

\* The loop sees that it is to stop, after the capture in progress.
StopCapturing(r) ==
  /\ pipe[r] = "capturing" /\ stops[r] # <<>>
  /\ pipe' = [pipe EXCEPT ![r] = "finalizing"]
  /\ inbox' = [inbox EXCEPT ![TabOf[r]] = Append(@, [type |-> "finalize", rec |-> r])]
  /\ UNCHANGED <<op, session, chunks, stops, outcome, reply, sink, recreating, cleaning, history>>

\* A capture or a frame times out, or the debugger is detached.  The sink is
\* not told.
CaptureFails(r) ==
  /\ pipe[r] = "capturing"
  /\ pipe' = [pipe EXCEPT ![r] = "failing"]
  /\ UNCHANGED <<op, session, chunks, stops, outcome, offscreen, recreating, cleaning, history>>

\* The answer to finalizeRecording: the chunks of the tab are the video.
Finalized(r) ==
  LET t == TabOf[r] IN
  /\ pipe[r] = "finalizing" /\ reply[r] = "finalized"
  /\ outcome' = [outcome EXCEPT ![r] =
       [data |-> chunks[t],
        reason |-> IF Contains(stops[r], "timer") THEN "max_duration" ELSE "user"]]
  /\ chunks' = [chunks EXCEPT ![t] = <<>>]
  /\ pipe' = [pipe EXCEPT ![r] = "ending"]
  /\ reply' = [reply EXCEPT ![r] = "none"]
  /\ UNCHANGED <<op, session, stops, inbox, sink, recreating, cleaning, history>>

\* Mutant: the chunks that came before the error stay.
ForgetNothing(t) == UNCHANGED chunks
\* state.recordingChunks.delete
ForgetChunks(t) == chunks' = [chunks EXCEPT ![t] = <<>>]

FinalizeFails(r) ==
  /\ pipe[r] = "finalizing" /\ reply[r] = "error"
  /\ ForgetChunks(TabOf[r])
  /\ pipe' = [pipe EXCEPT ![r] = "failing"]
  /\ reply' = [reply EXCEPT ![r] = "none"]
  /\ UNCHANGED <<op, session, stops, outcome, inbox, sink, recreating, cleaning, history>>

\* The answer is given up, and with it the chunks that have come so far; the
\* sink sends the others all the same.
FinalizeTimesOut(r) ==
  /\ pipe[r] = "finalizing"
  /\ ForgetChunks(TabOf[r])
  /\ pipe' = [pipe EXCEPT ![r] = "failing"]
  /\ reply' = [reply EXCEPT ![r] = "none"]
  /\ lost' = lost \cup {r}
  /\ UNCHANGED <<op, session, stops, outcome, inbox, sink, recreating, cleaning, told, dropped>>

\* The debugger is released and the pipeline settles.  If it failed, the
\* session of its tab is deleted, whichever recording that is.
Settle(r) ==
  LET t == TabOf[r] IN
  /\ pipe[r] \in {"ending", "failing"}
  /\ pipe' = [pipe EXCEPT ![r] = IF @ = "ending" THEN "finished" ELSE "failed"]
  /\ session' = IF pipe[r] = "failing" THEN [session EXCEPT ![t] = None] ELSE session
  /\ UNCHANGED <<op, chunks, stops, outcome, offscreen, recreating, cleaning, history>>

----------------------------------------------------------------------------
(* The sink: handleFinalizeRecording, discardSink *)

\* The answer for a pipeline that still waits for it.
Answer(r, what) ==
  reply' = IF pipe[r] = "finalizing" THEN [reply EXCEPT ![r] = what] ELSE reply

\* Without a sink, or with one already finalized, an error.
FinalizeSink(r) ==
  LET t == TabOf[r] IN
  /\ inbox[t] # <<>> /\ Head(inbox[t]) = [type |-> "finalize", rec |-> r]
  /\ inbox' = [inbox EXCEPT ![t] = Tail(@)]
  /\ IF sink[t].phase = "recording"
     THEN /\ sink' = [sink EXCEPT ![t].phase = "finalizing", ![t].for = r]
          /\ UNCHANGED reply
     ELSE Answer(r, "error") /\ UNCHANGED sink
  /\ UNCHANGED <<worker, recreating, cleaning, history>>

\* A part of the video is still to be sent.
Unsent(t) == sink[t].left > 0

\* The recorder has stopped and the video is encoded: a chunk goes to
\* whatever worker listens.
SendChunk(t) ==
  /\ sink[t].phase = "finalizing" /\ Unsent(t)
  /\ chunks' = [chunks EXCEPT ![t] = Append(@, sink[t].rec)]
  /\ sink' = [sink EXCEPT ![t].left = @ - 1]
  /\ UNCHANGED <<op, session, pipe, stops, outcome, inbox, reply, recreating, cleaning, history>>

\* All chunks are sent, or something failed on the way (nothing was drawn,
\* the recorder broke, the video is too large, a message was refused).
EndSink(t) ==
  /\ sink[t].phase = "finalizing"
  /\ sink' = [sink EXCEPT ![t] = NoSink]
  /\ \/ sink[t].left = 0 /\ Answer(sink[t].for, "finalized")
     \/ sink[t].left > 0 /\ Answer(sink[t].for, "error")
  /\ UNCHANGED <<worker, inbox, recreating, cleaning, history>>

\* Mutant: a sink is discarded only if a session still refers to it.
OverdueInSession(t) == session[t] # None /\ session[t] = sink[t].rec
\* No pipeline can still come for the sink of a tab.
Overdue(t) == pipe[sink[t].rec] \notin {"attaching", "capturing"}

\* The discard timer, a grace period after the longest recording: by then a
\* pipeline has long asked to finalize, or failed, and the page has handled it.
DiscardSink(t) ==
  /\ sink[t].phase = "recording" /\ inbox[t] = <<>> /\ Overdue(t)
  /\ sink' = [sink EXCEPT ![t] = NoSink]
  /\ UNCHANGED <<worker, inbox, reply, recreating, cleaning, history>>

----------------------------------------------------------------------------
(* executeRecordStop *)

RecordStop(t) ==
  /\ op[t] = Idle /\ session[t] # None
  /\ op' = [op EXCEPT ![t] = [kind |-> "stop", rec |-> session[t]]]
  /\ stops' = [stops EXCEPT ![session[t]] = Append(@, "user")]
  /\ UNCHANGED <<session, chunks, pipe, outcome, offscreen, recreating, cleaning, history>>

\* Delivered or failed, the session of the tab is deleted.
StopEnds(t) ==
  /\ op[t].kind = "stop" /\ pipe[op[t].rec] \in {"finished", "failed"}
  /\ op' = [op EXCEPT ![t] = Idle]
  /\ session' = [session EXCEPT ![t] = None]
  /\ UNCHANGED <<chunks, pipe, stops, outcome, offscreen, recreating, cleaning, history>>

\* So it is when the stop times out, although the pipeline goes on.
StopTimesOut(t) ==
  /\ op[t].kind = "stop"
  /\ op' = [op EXCEPT ![t] = Idle]
  /\ session' = [session EXCEPT ![t] = None]
  /\ dropped' = dropped \cup {op[t].rec}
  /\ UNCHANGED <<chunks, pipe, stops, outcome, offscreen, recreating, cleaning, told, lost>>

----------------------------------------------------------------------------
(* Cleanup and restarts *)

\* Mutant: the check of state.recordings is dropped.
NoRecordingsUnchecked == TRUE
\* state.recordings.size is 0
NoRecordings == \A t \in Tabs : session[t] = None

Cleanup ==
  /\ ~cleaning /\ NoRecordings
  /\ cleaning' = TRUE
  /\ UNCHANGED <<worker, offscreen, recreating, history>>

CleanupEnds ==
  /\ cleaning /\ cleaning' = FALSE
  /\ UNCHANGED <<worker, offscreen, recreating, history>>

\* Chromium restarts the worker, which forgets everything; the old offscreen
\* page works on until the new worker replaces it.
Restart ==
  /\ op' = [t \in Tabs |-> Idle]
  /\ session' = [t \in Tabs |-> None]
  /\ chunks' = [t \in Tabs |-> <<>>]
  /\ pipe' = [r \in Recordings |-> IF pipe[r] = "unused" THEN "unused" ELSE "failed"]
  /\ outcome' = [r \in Recordings |-> NoVideo]
  /\ reply' = [r \in Recordings |-> "none"]
  /\ recreating' = TRUE /\ cleaning' = FALSE
  /\ lost' = lost \cup {r \in Recordings : pipe[r] = "finalizing"}
  /\ UNCHANGED <<stops, inbox, sink, told, dropped>>

RecreateOffscreen ==
  /\ recreating /\ recreating' = FALSE
  /\ inbox' = [t \in Tabs |-> <<>>]
  /\ sink' = [t \in Tabs |-> NoSink]
  /\ UNCHANGED <<worker, reply, cleaning, history>>

----------------------------------------------------------------------------

Pipeline(r) ==
  \/ Attach(r) \/ AttachFails(r) \/ StopCapturing(r) \/ Finalized(r)
  \/ FinalizeFails(r) \/ FinalizeTimesOut(r) \/ Settle(r)

SinkStep(t) == SendChunk(t) \/ EndSink(t)

Next ==
  \/ \E r \in Recordings :
       \/ RecordStart(r) \/ StartSink(r) \/ FinalizeSink(r)
       \/ Pipeline(r) \/ CaptureFails(r) \/ MaxDuration(r)
  \/ \E t \in Tabs :
       \/ StartTimesOut(t) \/ RecordStop(t) \/ StopEnds(t) \/ StopTimesOut(t)
       \/ SinkStep(t) \/ DiscardSink(t)
  \/ Cleanup \/ CleanupEnds \/ Restart \/ RecreateOffscreen

Spec == Init /\ [][Next]_vars

\* Timers fire, calls of the debugger answer, the page handles its messages.
Fairness ==
  /\ \A r \in Recordings :
       WF_vars(Pipeline(r)) /\ WF_vars(MaxDuration(r)) /\ WF_vars(StartSink(r) \/ FinalizeSink(r))
  /\ \A t \in Tabs : WF_vars(SinkStep(t)) /\ WF_vars(DiscardSink(t))
  /\ WF_vars(RecreateOffscreen)

FairSpec == Spec /\ Fairness

----------------------------------------------------------------------------

\* Only one recording per tab: the frames of a pipeline and its finalization
\* reach the sink that was started for it, also when sessions were deleted
\* early and starts answered late.
OwnSinkOnly ==
  \A t \in Tabs :
    /\ \A r \in Recordings :
         pipe[r] = "capturing" /\ TabOf[r] = t /\ sink[t].rec # None => sink[t].rec = r
    /\ sink[t].for # None => sink[t].for = sink[t].rec

\* A video has all its chunks, in one piece; the only other chunks in it are
\* those of recordings whose finalization was given up, and come before.
VideosAreComplete ==
  \A r \in Recordings : outcome[r] # NoVideo =>
    LET data == outcome[r].data
        own == {i \in 1..Len(data) : data[i] = r}
    IN /\ own = (Len(data) - ChunksPerVideo + 1)..Len(data)
       /\ \A i \in (1..Len(data)) \ own : data[i] \in lost

\* A stop delivers the video of the recording it stops and nothing else.
VideosAreTheirOwn ==
  \A r \in Recordings : \A i \in 1..Len(outcome[r].data) : outcome[r].data[i] = r

\* Whoever was told that a recording has started can stop it: its session is
\* there until a stop takes it, the recording fails or the worker restarts, as
\* long as no stop of that tab has timed out.
StartedCanBeStopped ==
  \A r \in told :
    pipe[r] \in Alive \cup {"finished"} /\ ~Contains(stops[r], "user")
      /\ (\A s \in dropped : TabOf[s] # TabOf[r])
    => session[TabOf[r]] = r

\* A cleanup does not begin over a running recording, unless the recording's
\* stop was given up.
CleanupSparesRecordings ==
  [][~cleaning /\ cleaning' =>
       \A r \in Recordings : r \in told /\ pipe[r] \in {"capturing", "finalizing"} =>
         \E s \in dropped : TabOf[s] = TabOf[r]]_vars

\* No sink stays for good and blocks its tab, whoever gave up on it, and no
\* pipeline captures for ever.
SinksEnd == \A t \in Tabs : sink[t].rec # None ~> sink[t].rec = None
PipelinesEnd == \A r \in Recordings : pipe[r] \in Alive ~> pipe[r] \notin Alive
RecordingsEnd == SinksEnd /\ PipelinesEnd
----------------------------------------------------------------------------
(* The inductive invariant *)

OpOK ==
  \A t \in Tabs :
    /\ op[t] # Idle => TabOf[op[t].rec] = t
    /\ op[t].kind = "start" => pipe[op[t].rec] = "asked" /\ session[t] = None
    /\ op[t].kind = "stop" => Contains(stops[op[t].rec], "user") /\ session[t] \in {None, op[t].rec}

\* A recording that runs, or waits for the stop that fetches its video.
Stoppable(r) == pipe[r] \in Alive \/ (pipe[r] = "finished" /\ ~Contains(stops[r], "user"))

\* A recording has its session from its start to its stop, unless a stop of the
\* tab was given up.
SessionOK ==
  /\ \A t \in Tabs : session[t] # None => TabOf[session[t]] = t
  /\ \A r \in Recordings :
       Stoppable(r) /\ (\A s \in dropped : TabOf[s] # TabOf[r]) => session[TabOf[r]] = r

\* The page drops its sinks only when no pipeline of the new worker can use them.
RecreatingOK ==
  recreating => /\ \A t \in Tabs : op[t] = Idle /\ session[t] = None
                /\ \A r \in Recordings : pipe[r] \in {"unused", "failed"}

\* A sink serves the recording it was started for, which has asked to finalize it
\* when it does.
SinkOK ==
  /\ \A t \in Tabs :
       /\ sink[t].rec # None => TabOf[sink[t].rec] = t
       /\ sink[t].phase = "recording" => sink[t].for = None /\ sink[t].left = ChunksPerVideo
       /\ sink[t].phase = "finalizing" =>
            /\ sink[t].for = sink[t].rec
            /\ pipe[sink[t].rec] = "finalizing" \/ sink[t].rec \in lost
  /\ \A r \in Recordings : pipe[r] \in {"attaching", "capturing"} =>
       sink[TabOf[r]].rec = r /\ sink[TabOf[r]].phase = "recording"

\* One finalization at a time is on its way, to the sink of its recording.
InboxOK ==
  \A t \in Tabs : \A i \in 1..Len(inbox[t]) :
    /\ TabOf[inbox[t][i].rec] = t
    /\ inbox[t][i].type = "finalize" =>
         /\ sink[t].rec = inbox[t][i].rec /\ sink[t].phase = "recording"
         /\ pipe[inbox[t][i].rec] = "finalizing" \/ inbox[t][i].rec \in lost
         /\ \A j \in 1..Len(inbox[t]) : inbox[t][j].type = "finalize" => i = j

\* A pipeline that waits for its video is alone on its tab: its message, its sink or
\* its answer is there, and nothing else of the tab has one.
FinalizingOK ==
  /\ \A r \in Recordings :
       /\ pipe[r] = "finalizing" /\ reply[r] = "none" =>
            /\ sink[TabOf[r]].rec = r
            /\ sink[TabOf[r]].phase = "recording" =>
                 \E i \in 1..Len(inbox[TabOf[r]]) :
                   inbox[TabOf[r]][i] = [type |-> "finalize", rec |-> r]
       /\ reply[r] # "none" => pipe[r] = "finalizing" /\ sink[TabOf[r]].rec = None
       /\ r \in lost => pipe[r] \in {"failing", "failed"}
  /\ \A r, s \in Recordings :
       pipe[r] = "finalizing" /\ pipe[s] = "finalizing" /\ TabOf[r] = TabOf[s] => r = s

\* How many chunks of its video the worker has when its pipeline waits for r.
Sent(r) == IF sink[TabOf[r]].rec = r THEN ChunksPerVideo - sink[TabOf[r]].left ELSE ChunksPerVideo

\* These are the last ones of its tab; those before them were given up.
ChunksOK ==
  \A t \in Tabs :
    /\ \A i \in 1..Len(chunks[t]) :
         TabOf[chunks[t][i]] = t /\ (chunks[t][i] \in lost \/ pipe[chunks[t][i]] = "finalizing")
    /\ \A r \in Recordings :
         TabOf[r] = t /\ pipe[r] = "finalizing" /\ reply[r] # "error" =>
           /\ Sent(r) <= Len(chunks[t])
           /\ \A i \in 1..Len(chunks[t]) : chunks[t][i] = r <=> i > Len(chunks[t]) - Sent(r)

IInv ==
  /\ TypeOK /\ OpOK /\ SessionOK /\ RecreatingOK
  /\ SinkOK /\ InboxOK /\ FinalizingOK /\ ChunksOK /\ VideosAreComplete
=============================================================================
