----------------------- MODULE InstructionQueue_proofs -----------------------
(***************************************************************************)
(* Theorems about InstructionQueue for every set of instructions, browsers *)
(* and request threads and both databases.                                 *)
(***************************************************************************)
EXTENDS InstructionQueue, TLAPS

USE DEF NoId, NoToken

(***************************************************************************)
(* Local states of a thread stay in Handler.                               *)
(***************************************************************************)

\* An idle thread and a finished response have well-typed local states.
LEMMA IdleType == Idle \in Handler
BY BoundsAssumption DEF Idle, Handler, Points, Replies, Callers, Lifecycle!Outcomes

\* Replacing one thread's local state by a Handler keeps the handlers typed.
LEMMA ContinueType ==
  ASSUME TypeOK, NEW r \in Requests, NEW h \in Handler, Continue(r, h)
  PROVE  /\ handler' \in [Requests -> Handler]
         /\ handler'[r] = h
         /\ \A q \in Requests : q # r => handler'[q] = handler[q]
BY DEF TypeOK, Continue

\* A response is one of those, and is what the thread holds afterwards.
LEMMA RespondType ==
  ASSUME TypeOK, NEW r \in Requests, NEW answer \in Replies,
         NEW batch \in Seq(Instructions), NEW token \in Nat,
         Respond(r, answer, batch, token)
  PROVE  /\ handler' \in [Requests -> Handler]
         /\ handler'[r] \in Handler
         /\ handler'[r].pc = "reply"
         /\ handler'[r].batch = batch
         /\ ~handler'[r].fresh
         /\ \A q \in Requests : q # r => handler'[q] = handler[q]
<1> DEFINE h == [Idle EXCEPT !.pc = "reply", !.reply = answer,
                             !.batch = batch, !.token = token]
<1>0. h.pc = "reply" /\ h.batch = batch /\ ~h.fresh
  BY DEF Idle
<1>1. h \in Handler
  BY IdleType DEF Handler, Points
<1>2. Continue(r, h)
  BY DEF Respond
<1> HIDE DEF h
<1>3. QED
  BY <1>0, <1>1, <1>2, ContinueType

(***************************************************************************)
(* Type correctness, with what the threads remember.                       *)
(***************************************************************************)

\* Rows only move forward: what a step may do to the table and the media files
\* without disturbing a thread that does not take it.
RowsMoveOn ==
  /\ media \subseteq media'
  /\ \A i \in Instructions :
       status[i] \notin {"absent", "pending"} =>
         /\ status'[i] \notin {"absent", "pending"}
         /\ status'[i] = "processing" => status[i] = "processing" /\ bid'[i] = bid[i]

\* A step of thread r that lets rows move on keeps the other threads' memory valid.
LEMMA OthersKept ==
  ASSUME TypeOK, ThreadsOK, NEW r \in Requests, RowsMoveOn, ThreadOK(r)',
         \A q \in Requests : q # r => handler'[q] = handler[q]
  PROVE  ThreadsOK'
<1> SUFFICES ASSUME NEW q \in Requests, q # r PROVE ThreadOK(q)'
  BY DEF ThreadsOK
<1>1. handler'[q] = handler[q] /\ ThreadOK(q)
  BY DEF ThreadsOK
<1>2. QED
  BY <1>1 DEF ThreadOK, RowsMoveOn

\* The first step of a poll.
LEMMA NextInstructionsType ==
  ASSUME TypeOK, ThreadsOK, NEW r \in Requests, NEW b \in Callers,
         NEW n \in 1 .. MaxLimit, NextInstructions(r, b, n)
  PROVE  TypeOK' /\ ThreadsOK'
<1>0. RowsMoveOn
  BY DEF RowsMoveOn, NextInstructions
<1>1. CASE reinstall # NoToken
  <2>1. Respond(r, "command", <<>>, reinstall)
    BY <1>1 DEF NextInstructions
  <2>2. <<>> \in Seq(Instructions) /\ reinstall \in Nat /\ "command" \in Replies
    BY DEF TypeOK, Replies
  <2>3. /\ handler' \in [Requests -> Handler]
        /\ handler'[r].pc = "reply"
        /\ \A q \in Requests : q # r => handler'[q] = handler[q]
    BY <2>1, <2>2, RespondType
  <2>4. TypeOK'
    BY <2>3 DEF NextInstructions, TypeOK
  <2>5. ThreadOK(r)'
    BY <2>3 DEF ThreadOK
  <2>6. QED
    BY <1>0, <2>3, <2>4, <2>5, OthersKept
<1>2. CASE reinstall = NoToken
  <2> DEFINE h == [Idle EXCEPT !.pc = "select", !.bid = b, !.limit = n]
  <2>0. h.pc = "select"
    BY DEF Idle
  <2> n \in 0 .. MaxLimit
    BY BoundsAssumption
  <2>1. h \in Handler
    BY IdleType DEF Handler, Points
  <2>2. Continue(r, h)
    BY <1>2 DEF NextInstructions
  <2> HIDE DEF h
  <2>3. /\ handler' \in [Requests -> Handler]
        /\ handler'[r].pc = "select"
        /\ \A q \in Requests : q # r => handler'[q] = handler[q]
    BY <2>0, <2>1, <2>2, ContinueType
  <2>4. TypeOK'
    BY <2>3 DEF NextInstructions, TypeOK
  <2>5. ThreadOK(r)'
    BY <2>3 DEF ThreadOK
  <2>6. QED
    BY <1>0, <2>3, <2>4, <2>5, OthersKept
<1>3. QED
  BY <1>1, <1>2

\* The head of the claim loop.
LEMMA SelectCandidateType ==
  ASSUME TypeOK, ThreadsOK, NEW r \in Requests, SelectCandidate(r)
  PROVE  TypeOK' /\ ThreadsOK'
<1>0. RowsMoveOn
  BY DEF RowsMoveOn, SelectCandidate
<1>1. CASE Respond(r, "batch", handler[r].batch, NoToken)
  <2>1. handler[r].batch \in Seq(Instructions) /\ NoToken \in Nat /\ "batch" \in Replies
    BY DEF TypeOK, Handler, Replies
  <2>2. /\ handler' \in [Requests -> Handler]
        /\ handler'[r].pc = "reply"
        /\ \A q \in Requests : q # r => handler'[q] = handler[q]
    BY <1>1, <2>1, RespondType
  <2>3. TypeOK'
    BY <2>2 DEF SelectCandidate, TypeOK
  <2>4. ThreadOK(r)'
    BY <2>2 DEF ThreadOK
  <2>5. QED
    BY <1>0, <2>2, <2>3, <2>4, OthersKept
<1>2. ASSUME NEW i \in Instructions,
             Continue(r, [handler[r] EXCEPT !.pc = "claim", !.id = i])
      PROVE  TypeOK' /\ ThreadsOK'
  <2> DEFINE h == [handler[r] EXCEPT !.pc = "claim", !.id = i]
  <2>1. handler[r] \in Handler
    BY DEF TypeOK
  <2>2. h \in Handler /\ h.pc = "claim" /\ h.id = i
    BY <2>1 DEF Handler, Points
  <2>3. Continue(r, h)
    BY <1>2
  <2> HIDE DEF h
  <2>4. /\ handler' \in [Requests -> Handler]
        /\ handler'[r] = h
        /\ \A q \in Requests : q # r => handler'[q] = handler[q]
    BY <2>2, <2>3, ContinueType
  <2>5. TypeOK'
    BY <2>4 DEF SelectCandidate, TypeOK
  <2>6. ThreadOK(r)'
    BY <2>2, <2>4 DEF ThreadOK
  <2>7. QED
    BY <1>0, <2>4, <2>5, <2>6, OthersKept
<1>3. QED
  BY <1>1, <1>2 DEF SelectCandidate

\* The snapshot of the claim.
LEMMA ClaimSnapshotType ==
  ASSUME TypeOK, ThreadsOK, NEW r \in Requests, ClaimSnapshot(r)
  PROVE  TypeOK' /\ ThreadsOK'
<1> DEFINE h == [handler[r] EXCEPT !.pc = "write", !.open = (reinstall = NoToken)]
<1>1. handler[r] \in Handler /\ handler[r].id \in Instructions
  BY DEF TypeOK, ThreadsOK, ThreadOK, ClaimSnapshot
<1>2. (reinstall = NoToken) \in BOOLEAN
  OBVIOUS
<1>3. h \in Handler /\ h.pc = "write" /\ h.id = handler[r].id
  BY <1>1, <1>2 DEF Handler, Points
<1>4. Continue(r, h)
  BY DEF ClaimSnapshot
<1> HIDE DEF h
<1>5. /\ handler' \in [Requests -> Handler]
      /\ handler'[r] = h
      /\ \A q \in Requests : q # r => handler'[q] = handler[q]
  BY <1>3, <1>4, ContinueType
<1>6. TypeOK' /\ RowsMoveOn
  BY <1>5 DEF ClaimSnapshot, TypeOK, RowsMoveOn
<1>7. ThreadOK(r)'
  BY <1>1, <1>3, <1>5 DEF ThreadOK, ClaimSnapshot
<1>8. QED
  BY <1>5, <1>6, <1>7, OthersKept

\* The write of the claim, in either database.
LEMMA ClaimRowType ==
  ASSUME TypeOK, ThreadsOK, NEW r \in Requests, NEW open \in BOOLEAN,
         handler[r].pc \in {"claim", "write"}, ClaimRow(r, open)
  PROVE  TypeOK' /\ ThreadsOK'
<1> DEFINE i == handler[r].id
           next == [handler[r] EXCEPT !.pc = "select", !.id = NoId, !.open = FALSE]
           h == [next EXCEPT !.batch = Append(handler[r].batch, i)]
<1>1. /\ handler[r] \in Handler
      /\ i \in Instructions
      /\ handler[r].batch \in Seq(Instructions)
      /\ handler[r].bid \in Callers
  BY DEF TypeOK, ThreadsOK, ThreadOK, Handler
<1>2. next \in Handler /\ next.pc = "select"
  BY <1>1 DEF Handler, Points
<1>3. Append(handler[r].batch, i) \in Seq(Instructions)
  BY <1>1
<1>4. h \in Handler /\ h.pc = "select"
  <2> HIDE DEF next, i
  <2>1. QED
    BY <1>2, <1>3 DEF Handler, Points
<1>5. CASE status[i] = "pending" /\ Visible(i, handler[r].bid) /\ open
  <2>1. /\ status' = [status EXCEPT ![i] = "processing"]
        /\ claimedBy' = [claimedBy EXCEPT ![i] = Append(@, handler[r].bid)]
        /\ Continue(r, h)
        /\ UNCHANGED <<bid, outcome, reinstall, issued, retired, media>>
    BY <1>5 DEF ClaimRow
  <2> HIDE DEF h, next, i
  <2>2. /\ handler' \in [Requests -> Handler]
        /\ handler'[r].pc = "select"
        /\ \A q \in Requests : q # r => handler'[q] = handler[q]
    BY <1>4, <2>1, ContinueType
  <2>3. claimedBy' \in [Instructions -> Seq(Callers)]
    BY <1>1, <2>1 DEF TypeOK
  <2>4. status' \in [Instructions -> Lifecycle!Statuses]
    BY <1>1, <2>1 DEF TypeOK, Lifecycle!Statuses
  <2>5. TypeOK'
    BY <2>1, <2>2, <2>3, <2>4 DEF TypeOK
  <2>6. RowsMoveOn
    BY <1>1, <1>5, <2>1 DEF RowsMoveOn, TypeOK
  <2>7. ThreadOK(r)'
    BY <2>2 DEF ThreadOK
  <2>8. QED
    BY <2>2, <2>5, <2>6, <2>7, OthersKept
<1>6. CASE ~(status[i] = "pending" /\ Visible(i, handler[r].bid) /\ open)
  <2>1. /\ Continue(r, next)
        /\ UNCHANGED <<status, claimedBy, bid, outcome, reinstall, issued, retired, media>>
    BY <1>6 DEF ClaimRow
  <2> HIDE DEF h, next, i
  <2>2. /\ handler' \in [Requests -> Handler]
        /\ handler'[r].pc = "select"
        /\ \A q \in Requests : q # r => handler'[q] = handler[q]
    BY <1>2, <2>1, ContinueType
  <2>3. TypeOK' /\ RowsMoveOn
    BY <2>1, <2>2 DEF TypeOK, RowsMoveOn
  <2>4. ThreadOK(r)'
    BY <2>2 DEF ThreadOK
  <2>5. QED
    BY <2>2, <2>3, <2>4, OthersKept
<1>7. QED
  BY <1>5, <1>6

\* A submitted result: read, checked and prepared.
LEMMA SubmitResultType ==
  ASSUME TypeOK, ThreadsOK, NEW r \in Requests, NEW i \in Instructions,
         NEW e \in Callers, NEW body \in {"result", "error"},
         SubmitResult(r, i, e, body)
  PROVE  TypeOK' /\ ThreadsOK'
<1>1. ASSUME NEW answer \in {"rejected", "ok"},
             Respond(r, answer, <<>>, NoToken),
             media' \in {media, media \cup ({i} \cap Captures)}
      PROVE  TypeOK' /\ ThreadsOK'
  <2>1. <<>> \in Seq(Instructions) /\ NoToken \in Nat /\ answer \in Replies
    BY DEF Replies
  <2>2. /\ handler' \in [Requests -> Handler]
        /\ handler'[r].pc = "reply"
        /\ \A q \in Requests : q # r => handler'[q] = handler[q]
    BY <1>1, <2>1, RespondType
  <2>3. media' \in SUBSET Instructions /\ media \subseteq media'
    BY <1>1 DEF TypeOK
  <2>4. TypeOK' /\ RowsMoveOn
    BY <2>2, <2>3 DEF SubmitResult, TypeOK, RowsMoveOn
  <2>5. ThreadOK(r)'
    BY <2>2 DEF ThreadOK
  <2>6. QED
    BY <2>2, <2>4, <2>5, OthersKept
<1>2. ASSUME status[i] = "processing",
             NEW p \in Prepared(i, body), p # "invalid",
             Continue(r, [Idle EXCEPT !.pc = "update", !.id = i, !.outcome = p,
                                      !.bid = e, !.untargeted = (bid[i] = NoBid)]),
             media' = IF p = "capture" THEN media \cup {i} ELSE media
      PROVE  TypeOK' /\ ThreadsOK'
  <2> DEFINE h == [Idle EXCEPT !.pc = "update", !.id = i, !.outcome = p,
                               !.bid = e, !.untargeted = (bid[i] = NoBid)]
  <2>1. p \in {"value", "capture", "error"}
    BY <1>2 DEF Prepared
  <2>2. (bid[i] = NoBid) \in BOOLEAN
    OBVIOUS
  <2>3. h \in Handler
    BY <2>1, <2>2, IdleType DEF Handler, Points, Lifecycle!Outcomes
  <2>4. /\ h.pc = "update" /\ h.id = i /\ h.outcome = p
        /\ h.untargeted = (bid[i] = NoBid)
    BY DEF Idle
  <2>5. Continue(r, h)
    BY <1>2
  <2> HIDE DEF h
  <2>6. /\ handler' \in [Requests -> Handler]
        /\ handler'[r] = h
        /\ \A q \in Requests : q # r => handler'[q] = handler[q]
    BY <2>3, <2>5, ContinueType
  <2>7. media' \in SUBSET Instructions /\ media \subseteq media'
    BY <1>2 DEF TypeOK
  <2>8. TypeOK' /\ RowsMoveOn
    BY <2>6, <2>7 DEF SubmitResult, TypeOK, RowsMoveOn
  <2>9. ThreadOK(r)'
    BY <1>2, <2>1, <2>4, <2>6 DEF ThreadOK, SubmitResult
  <2>10. QED
    BY <2>6, <2>8, <2>9, OthersKept
<1>3. UNCHANGED media => media' \in {media, media \cup ({i} \cap Captures)}
  OBVIOUS
<1>4. QED
  BY <1>1, <1>2, <1>3, Zenon DEF SubmitResult

\* The conditional write of a result.
LEMMA CompleteInstructionType ==
  ASSUME TypeOK, ThreadsOK, NEW r \in Requests, CompleteInstruction(r)
  PROVE  TypeOK' /\ ThreadsOK'
<1> DEFINE i == handler[r].id
<1>1. /\ handler[r] \in Handler
      /\ i \in Instructions
      /\ handler[r].bid \in Callers
      /\ handler[r].outcome \in {"value", "capture", "error"}
  BY DEF TypeOK, ThreadsOK, ThreadOK, Handler, CompleteInstruction
<1>2. <<>> \in Seq(Instructions) /\ NoToken \in Nat /\ "ok" \in Replies
  BY DEF Replies
<1>3. /\ handler' \in [Requests -> Handler]
      /\ handler'[r].pc = "reply"
      /\ \A q \in Requests : q # r => handler'[q] = handler[q]
  BY <1>2, RespondType DEF CompleteInstruction
<1>4. /\ status' \in [Instructions -> Lifecycle!Statuses]
      /\ outcome' \in [Instructions -> Lifecycle!Outcomes]
      /\ bid' \in [Instructions -> Callers]
  BY <1>1 DEF CompleteInstruction, TypeOK, Lifecycle!Statuses, Lifecycle!Outcomes,
              Lifecycle!StatusOf
<1>5. TypeOK'
  BY <1>3, <1>4 DEF CompleteInstruction, TypeOK
<1>6. RowsMoveOn
  BY <1>1 DEF CompleteInstruction, TypeOK, RowsMoveOn, Lifecycle!StatusOf
<1>7. ThreadOK(r)'
  BY <1>3 DEF ThreadOK
<1>8. QED
  BY <1>3, <1>5, <1>6, <1>7, OthersKept

\* The recovery UPDATE by itself.
LEMMA FailProcessingType ==
  ASSUME TypeOK, FailProcessing, media' = media
  PROVE  /\ status' \in [Instructions -> Lifecycle!Statuses]
         /\ outcome' \in [Instructions -> Lifecycle!Outcomes]
         /\ RowsMoveOn
<1>1. status' \in [Instructions -> Lifecycle!Statuses]
  BY DEF FailProcessing, TypeOK, Lifecycle!Statuses
<1>2. outcome' \in [Instructions -> Lifecycle!Outcomes]
  BY DEF FailProcessing, TypeOK, Lifecycle!Outcomes
<1>3. RowsMoveOn
  BY DEF FailProcessing, TypeOK, RowsMoveOn
<1>4. QED
  BY <1>1, <1>2, <1>3

\* Opening the reinstall transaction.
LEMMA GetOrCreateReinstallType ==
  ASSUME TypeOK, ThreadsOK, NEW r \in Requests, GetOrCreateReinstall(r)
  PROVE  TypeOK' /\ ThreadsOK'
<1> DEFINE created == reinstall = NoToken
           token == IF created THEN issued + 1 ELSE reinstall
           h == [Idle EXCEPT !.pc = "recover", !.token = token, !.fresh = created]
<1>1. token \in Nat /\ created \in BOOLEAN /\ issued' \in Nat
  BY DEF TypeOK, GetOrCreateReinstall
<1>2. h.pc = "recover"
  BY DEF Idle
<1>3. h \in Handler
  <2> HIDE DEF token, created
  <2>1. QED
    BY <1>1, IdleType DEF Handler, Points
<1>4. Continue(r, h)
  BY DEF GetOrCreateReinstall
<1> HIDE DEF h
<1>5. /\ handler' \in [Requests -> Handler]
      /\ handler'[r].pc = "recover"
      /\ \A q \in Requests : q # r => handler'[q] = handler[q]
  BY <1>2, <1>3, <1>4, ContinueType
<1>6. TypeOK' /\ RowsMoveOn
  BY <1>1, <1>5 DEF GetOrCreateReinstall, TypeOK, RowsMoveOn
<1>7. ThreadOK(r)'
  BY <1>5 DEF ThreadOK
<1>8. QED
  BY <1>5, <1>6, <1>7, OthersKept

\* Committing it.
LEMMA CommitReinstallType ==
  ASSUME TypeOK, ThreadsOK, NEW r \in Requests, CommitReinstall(r)
  PROVE  TypeOK' /\ ThreadsOK'
<1>1. <<>> \in Seq(Instructions) /\ handler[r].token \in Nat /\ "accepted" \in Replies
  BY DEF Replies, TypeOK, Handler
<1>2. /\ handler' \in [Requests -> Handler]
      /\ handler'[r].pc = "reply"
      /\ \A q \in Requests : q # r => handler'[q] = handler[q]
  BY <1>1, RespondType DEF CommitReinstall
<1>3. FailProcessing /\ media' = media
  BY DEF CommitReinstall
<1>4. TypeOK'
  BY <1>1, <1>2, <1>3, FailProcessingType DEF CommitReinstall, TypeOK, FailProcessing
<1>5. ThreadOK(r)'
  BY <1>2 DEF ThreadOK
<1>6. QED
  BY <1>2, <1>3, <1>4, <1>5, FailProcessingType, OthersKept

\* The acknowledgement, in each of its three outcomes.
LEMMA AcknowledgeReinstallType ==
  ASSUME TypeOK, ThreadsOK, NEW r \in Requests, NEW t \in 1 .. issued,
         AcknowledgeReinstall(r, t)
  PROVE  TypeOK' /\ ThreadsOK'
<1>1. PICK answer \in {"ok", "rejected"} : Respond(r, answer, <<>>, NoToken)
  BY DEF AcknowledgeReinstall
<1>2. <<>> \in Seq(Instructions) /\ NoToken \in Nat /\ answer \in Replies
  BY DEF Replies
<1>3. /\ handler' \in [Requests -> Handler]
      /\ handler'[r].pc = "reply"
      /\ \A q \in Requests : q # r => handler'[q] = handler[q]
  BY <1>1, <1>2, RespondType
<1>4. ThreadOK(r)'
  BY <1>3 DEF ThreadOK
<1>5. CASE FailProcessing /\ reinstall' = NoToken /\ retired' = retired \cup {t}
  <2>1. FailProcessing /\ media' = media
    BY <1>5 DEF AcknowledgeReinstall
  <2>2. retired' \in SUBSET Nat
    BY <1>5 DEF TypeOK
  <2>3. TypeOK'
    BY <1>3, <1>5, <2>1, <2>2, FailProcessingType
    DEF AcknowledgeReinstall, TypeOK, FailProcessing
  <2>4. QED
    BY <1>3, <1>4, <2>1, <2>3, FailProcessingType, OthersKept
<1>6. CASE UNCHANGED <<status, bid, outcome, claimedBy, reinstall, retired>>
  <2>1. TypeOK' /\ RowsMoveOn
    BY <1>3, <1>6 DEF AcknowledgeReinstall, TypeOK, RowsMoveOn
  <2>2. QED
    BY <1>3, <1>4, <2>1, OthersKept
<1>7. QED
  BY <1>5, <1>6, Zenon DEF AcknowledgeReinstall

\* A thread ends, answered or not.
LEMMA EndOfRequestType ==
  ASSUME TypeOK, ThreadsOK, NEW r \in Requests, Continue(r, Idle),
         UNCHANGED <<status, bid, outcome, claimedBy, reinstall, issued, retired, media>>
  PROVE  TypeOK' /\ ThreadsOK'
<1>1. /\ handler' \in [Requests -> Handler]
      /\ handler'[r].pc = "idle"
      /\ \A q \in Requests : q # r => handler'[q] = handler[q]
  <2>1. Idle.pc = "idle"
    BY DEF Idle
  <2>2. QED
    BY <2>1, IdleType, ContinueType
<1>2. TypeOK' /\ RowsMoveOn /\ ThreadOK(r)'
  BY <1>1 DEF TypeOK, RowsMoveOn, ThreadOK
<1>3. QED
  BY <1>1, <1>2, OthersKept

\* The INSERT of an instruction.
LEMMA CreateInstructionType ==
  ASSUME TypeOK, ThreadsOK, NEW i \in Instructions, NEW b \in Callers,
         CreateInstruction(i, b)
  PROVE  TypeOK' /\ ThreadsOK'
<1>1. TypeOK'
  BY DEF CreateInstruction, TypeOK, Lifecycle!Statuses
<1>2. ASSUME NEW q \in Requests PROVE ThreadOK(q)'
  BY DEF CreateInstruction, TypeOK, ThreadsOK, ThreadOK
<1>3. QED
  BY <1>1, <1>2 DEF ThreadsOK

\* Every step of the server.
LEMMA TypeStep ==
  ASSUME TypeOK, ThreadsOK, [Next]_vars
  PROVE  TypeOK' /\ ThreadsOK'
<1>1. ASSUME NEW i \in Instructions, NEW b \in Callers, CreateInstruction(i, b)
      PROVE  TypeOK' /\ ThreadsOK'
  BY <1>1, CreateInstructionType
<1>2. ASSUME NEW r \in Requests, Arrive(r)
      PROVE  TypeOK' /\ ThreadsOK'
  BY <1>2, NextInstructionsType, SubmitResultType, GetOrCreateReinstallType,
     AcknowledgeReinstallType DEF Arrive
<1>3. ASSUME NEW r \in Requests, Run(r)
      PROVE  TypeOK' /\ ThreadsOK'
  <2>1. CASE ClaimSerially(r)
    BY <2>1, ClaimRowType DEF ClaimSerially
  <2>2. CASE ClaimWrite(r)
    <3>1. handler[r].open \in BOOLEAN
      BY DEF TypeOK, Handler
    <3>2. QED
      BY <2>2, <3>1, ClaimRowType DEF ClaimWrite
  <2>3. CASE SendReply(r)
    BY <2>3, EndOfRequestType DEF SendReply
  <2>4. QED
    BY <1>3, <2>1, <2>2, <2>3, SelectCandidateType, ClaimSnapshotType,
       CompleteInstructionType, CommitReinstallType DEF Run
<1>4. ASSUME NEW r \in Requests, AbandonRequest(r)
      PROVE  TypeOK' /\ ThreadsOK'
  BY <1>4, EndOfRequestType DEF AbandonRequest
<1>5. CASE UNCHANGED vars
  BY <1>5 DEF vars, TypeOK, ThreadsOK, ThreadOK
<1>6. QED
  BY <1>1, <1>2, <1>3, <1>4, <1>5 DEF Next

\* The initial state.
LEMMA TypeInit == Init => TypeOK /\ ThreadsOK
<1> SUFFICES ASSUME Init PROVE TypeOK /\ ThreadsOK
  OBVIOUS
<1>1. TypeOK
  BY IdleType, BoundsAssumption
  DEF Init, TypeOK, Lifecycle!Init, Lifecycle!Statuses, Lifecycle!Outcomes, Callers
<1>2. ThreadsOK
  BY DEF Init, ThreadsOK, ThreadOK, Idle
<1>3. QED
  BY <1>1, <1>2

\* Type correctness: every column, token and thread-local variable of the server
\* keeps its type, and a thread only ever writes the row it has chosen.
THEOREM TypeCorrect == Spec => [](TypeOK /\ ThreadsOK)
BY TypeInit, TypeStep, PTL DEF Spec

-----------------------------------------------------------------------------
(***************************************************************************)
(* Each instruction is handed out at most once.                            *)
(***************************************************************************)

Waiting(i) == status[i] \in {"absent", "pending"}

\* Only a claim takes a row out of "absent" and "pending", or extends claimedBy.
LEMMA ClaimsKept ==
  ASSUME TypeOK, ClaimedAtMostOnce, claimedBy' = claimedBy,
         \A i \in Instructions : Waiting(i)' <=> Waiting(i)
  PROVE  ClaimedAtMostOnce'
BY DEF ClaimedAtMostOnce, Waiting

\* The claim itself: the row was pending, so nobody had it.
LEMMA ClaimsRow ==
  ASSUME TypeOK, ThreadsOK, ClaimedAtMostOnce, NEW r \in Requests,
         NEW open \in BOOLEAN, handler[r].pc \in {"claim", "write"}, ClaimRow(r, open)
  PROVE  ClaimedAtMostOnce'
<1> DEFINE i == handler[r].id
<1>1. i \in Instructions /\ handler[r].bid \in Callers
  BY DEF TypeOK, ThreadsOK, ThreadOK, Handler
<1>2. CASE status[i] = "pending" /\ Visible(i, handler[r].bid) /\ open
  <2>1. /\ status' = [status EXCEPT ![i] = "processing"]
        /\ claimedBy' = [claimedBy EXCEPT ![i] = Append(@, handler[r].bid)]
    BY <1>2 DEF ClaimRow
  <2>2. claimedBy[i] = <<>>
    BY <1>1, <1>2 DEF ClaimedAtMostOnce
  <2>3. claimedBy'[i] = Append(<<>>, handler[r].bid) /\ status'[i] = "processing"
    BY <1>1, <2>1, <2>2 DEF TypeOK
  <2>4. Len(claimedBy'[i]) = 1
    BY <1>1, <2>3
  <2>5. \A j \in Instructions : j # i =>
          status'[j] = status[j] /\ claimedBy'[j] = claimedBy[j]
    BY <1>1, <2>1 DEF TypeOK
  <2>6. QED
    BY <2>3, <2>4, <2>5 DEF ClaimedAtMostOnce
<1>3. CASE ~(status[i] = "pending" /\ Visible(i, handler[r].bid) /\ open)
  BY <1>3 DEF ClaimRow, ClaimedAtMostOnce
<1>4. QED
  BY <1>2, <1>3

LEMMA ClaimsStep ==
  ASSUME TypeOK, ThreadsOK, ClaimedAtMostOnce, [Next]_vars
  PROVE  ClaimedAtMostOnce'
<1>1. ASSUME NEW i \in Instructions, NEW b \in Callers, CreateInstruction(i, b)
      PROVE  ClaimedAtMostOnce'
  <2>1. claimedBy' = claimedBy /\ \A j \in Instructions : Waiting(j)' <=> Waiting(j)
    BY <1>1 DEF CreateInstruction, TypeOK, Waiting
  <2>2. QED
    BY <2>1, ClaimsKept
<1>2. ASSUME NEW r \in Requests, Arrive(r)
      PROVE  ClaimedAtMostOnce'
  <2>1. CASE \E t \in 1 .. issued : AcknowledgeReinstall(r, t)
    <3>1. claimedBy' = claimedBy /\ \A j \in Instructions : Waiting(j)' <=> Waiting(j)
      BY <2>1 DEF AcknowledgeReinstall, FailProcessing, TypeOK, Waiting
    <3>2. QED
      BY <3>1, ClaimsKept
  <2>2. CASE UNCHANGED <<status, claimedBy>>
    BY <2>2 DEF ClaimedAtMostOnce
  <2>3. QED
    BY <1>2, <2>1, <2>2
    DEF Arrive, NextInstructions, SubmitResult, GetOrCreateReinstall
<1>3. ASSUME NEW r \in Requests, Run(r)
      PROVE  ClaimedAtMostOnce'
  <2>1. CASE ClaimSerially(r)
    BY <2>1, ClaimsRow DEF ClaimSerially
  <2>2. CASE ClaimWrite(r)
    <3>1. handler[r].open \in BOOLEAN
      BY DEF TypeOK, Handler
    <3>2. QED
      BY <2>2, <3>1, ClaimsRow DEF ClaimWrite
  <2>3. CASE CompleteInstruction(r)
    <3>1. handler[r].id \in Instructions
      BY <2>3 DEF CompleteInstruction, ThreadsOK, ThreadOK
    <3>2. claimedBy' = claimedBy /\ \A j \in Instructions : Waiting(j)' <=> Waiting(j)
      BY <2>3, <3>1 DEF CompleteInstruction, TypeOK, Waiting, Lifecycle!StatusOf
    <3>3. QED
      BY <3>2, ClaimsKept
  <2>4. CASE CommitReinstall(r)
    <3>1. claimedBy' = claimedBy /\ \A j \in Instructions : Waiting(j)' <=> Waiting(j)
      BY <2>4 DEF CommitReinstall, FailProcessing, TypeOK, Waiting
    <3>2. QED
      BY <3>1, ClaimsKept
  <2>5. CASE UNCHANGED <<status, claimedBy>>
    BY <2>5 DEF ClaimedAtMostOnce
  <2>6. QED
    BY <1>3, <2>1, <2>2, <2>3, <2>4, <2>5
    DEF Run, SelectCandidate, ClaimSnapshot, SendReply
<1>4. ASSUME NEW r \in Requests, AbandonRequest(r)
      PROVE  ClaimedAtMostOnce'
  BY <1>4 DEF AbandonRequest, ClaimedAtMostOnce
<1>5. CASE UNCHANGED vars
  BY <1>5 DEF vars, ClaimedAtMostOnce
<1>6. QED
  BY <1>1, <1>2, <1>3, <1>4, <1>5 DEF Next

\* An instruction is claimed at most once, and nothing is processed or finished
\* unclaimed, however many polls race for it.
THEOREM ClaimedOnce == Spec => []ClaimedAtMostOnce
<1>1. Init => ClaimedAtMostOnce
  BY DEF Init, Lifecycle!Init, ClaimedAtMostOnce
<1>2. TypeOK /\ ThreadsOK /\ ClaimedAtMostOnce /\ [Next]_vars => ClaimedAtMostOnce'
  BY ClaimsStep
<1>3. QED
  BY <1>1, <1>2, TypeCorrect, PTL DEF Spec

-----------------------------------------------------------------------------
(***************************************************************************)
(* No two responses share an instruction.                                  *)
(***************************************************************************)

\* Everything in a batch was claimed before.
LEMMA BatchesKept ==
  ASSUME TypeOK, BatchesDisjoint, NEW r \in Requests,
         handler'[r].batch \in {handler[r].batch, <<>>},
         \A q \in Requests : q # r => handler'[q] = handler[q],
         \A i \in Instructions : ~Waiting(i) => ~Waiting(i)'
  PROVE  BatchesDisjoint'
<1> SUFFICES ASSUME NEW p \in Requests, NEW q \in Requests,
                    NEW j \in 1 .. Len(handler'[p].batch),
                    NEW k \in 1 .. Len(handler'[q].batch)
             PROVE  /\ status'[handler'[p].batch[j]] \notin {"absent", "pending"}
                    /\ handler'[p].batch[j] = handler'[q].batch[k] => p = q /\ j = k
  BY DEF BatchesDisjoint
<1>1. handler'[p].batch = handler[p].batch /\ handler'[q].batch = handler[q].batch
  <2>1. handler'[p].batch # <<>> /\ handler'[q].batch # <<>>
    OBVIOUS
  <2>2. QED
    BY <2>1
<1>2. /\ status[handler[p].batch[j]] \notin {"absent", "pending"}
      /\ handler[p].batch[j] = handler[q].batch[k] => p = q /\ j = k
  BY <1>1 DEF BatchesDisjoint
<1>3. handler[p].batch[j] \in Instructions
  BY <1>1 DEF TypeOK, Handler
<1>4. QED
  BY <1>1, <1>2, <1>3 DEF Waiting

\* A claimed row was pending, so it is in no batch yet.
LEMMA BatchesRow ==
  ASSUME TypeOK, ThreadsOK, BatchesDisjoint, NEW r \in Requests,
         NEW open \in BOOLEAN, handler[r].pc \in {"claim", "write"}, ClaimRow(r, open)
  PROVE  BatchesDisjoint'
<1> DEFINE i == handler[r].id
           old == handler[r].batch
           next == [handler[r] EXCEPT !.pc = "select", !.id = NoId, !.open = FALSE]
<1>1. i \in Instructions /\ old \in Seq(Instructions) /\ handler[r] \in Handler
  BY DEF TypeOK, ThreadsOK, ThreadOK, Handler
<1>2. next.batch = old
  BY <1>1 DEF Handler
<1>3. CASE status[i] = "pending" /\ Visible(i, handler[r].bid) /\ open
  <2>1. /\ status' = [status EXCEPT ![i] = "processing"]
        /\ Continue(r, [next EXCEPT !.batch = Append(old, i)])
    BY <1>3 DEF ClaimRow
  <2>2. [next EXCEPT !.batch = Append(old, i)].batch = Append(old, i)
    BY <1>1 DEF Handler
  <2>3. /\ handler'[r].batch = Append(old, i)
        /\ \A q \in Requests : q # r => handler'[q] = handler[q]
    BY <2>1, <2>2 DEF Continue, TypeOK
  <2>4. \A q \in Requests : \A k \in 1 .. Len(handler[q].batch) :
          /\ handler[q].batch[k] \in Instructions
          /\ ~Waiting(handler[q].batch[k])
          /\ handler[q].batch[k] # i
    BY <1>3 DEF BatchesDisjoint, Waiting, TypeOK, Handler
  <2>5. \A j \in Instructions : j # i => status'[j] = status[j]
    BY <2>1 DEF TypeOK
  <2>6. status'[i] = "processing"
    BY <1>1, <2>1 DEF TypeOK
  <2> HIDE DEF i, old, next
  <2> SUFFICES ASSUME NEW p \in Requests, NEW q \in Requests,
                      NEW j \in 1 .. Len(handler'[p].batch),
                      NEW k \in 1 .. Len(handler'[q].batch)
               PROVE  /\ status'[handler'[p].batch[j]] \notin {"absent", "pending"}
                      /\ handler'[p].batch[j] = handler'[q].batch[k] => p = q /\ j = k
    BY DEF BatchesDisjoint
  <2>7. \A s \in Requests : \A n \in 1 .. Len(handler'[s].batch) :
          \/ /\ n \in 1 .. Len(handler[s].batch)
             /\ handler'[s].batch[n] = handler[s].batch[n]
          \/ s = r /\ n = Len(old) + 1 /\ handler'[s].batch[n] = i
    <3> SUFFICES ASSUME NEW s \in Requests, NEW n \in 1 .. Len(handler'[s].batch)
                 PROVE  \/ /\ n \in 1 .. Len(handler[s].batch)
                           /\ handler'[s].batch[n] = handler[s].batch[n]
                        \/ s = r /\ n = Len(old) + 1 /\ handler'[s].batch[n] = i
      OBVIOUS
    <3>1. CASE s # r
      BY <2>3, <3>1
    <3>2. CASE s = r
      <4>1. handler[s].batch = old /\ handler'[s].batch = Append(old, i)
        BY <2>3, <3>2 DEF old
      <4>2. QED
        BY <1>1, <3>2, <4>1
    <3>3. QED
      BY <3>1, <3>2
  <2>8. status'[handler'[p].batch[j]] \notin {"absent", "pending"}
    BY <2>4, <2>5, <2>6, <2>7 DEF Waiting
  <2>9. ASSUME handler'[p].batch[j] = handler'[q].batch[k] PROVE p = q /\ j = k
    <3>1. CASE /\ j \in 1 .. Len(handler[p].batch)
               /\ handler'[p].batch[j] = handler[p].batch[j]
               /\ k \in 1 .. Len(handler[q].batch)
               /\ handler'[q].batch[k] = handler[q].batch[k]
      <4>1. handler[p].batch[j] = handler[q].batch[k]
        BY <2>9, <3>1
      <4>2. QED
        BY <3>1, <4>1 DEF BatchesDisjoint
    <3>2. CASE \/ p = r /\ j = Len(old) + 1 /\ handler'[p].batch[j] = i
               \/ q = r /\ k = Len(old) + 1 /\ handler'[q].batch[k] = i
      BY <2>4, <2>7, <2>9, <3>2
    <3>3. QED
      BY <2>7, <3>1, <3>2
  <2>10. QED
    BY <2>8, <2>9
<1>4. CASE ~(status[i] = "pending" /\ Visible(i, handler[r].bid) /\ open)
  <2>1. Continue(r, next) /\ status' = status
    BY <1>4 DEF ClaimRow
  <2> HIDE DEF next, old
  <2>2. handler'[r].batch = old /\ \A q \in Requests : q # r => handler'[q] = handler[q]
    BY <1>2, <2>1 DEF Continue, TypeOK
  <2>3. QED
    BY <2>1, <2>2, BatchesKept DEF Waiting, old
<1>5. QED
  BY <1>3, <1>4

\* A response without instructions.
LEMMA EmptyAnswer ==
  ASSUME TypeOK, NEW r \in Requests, NEW answer \in Replies, NEW token \in Nat,
         Respond(r, answer, <<>>, token)
  PROVE  /\ handler'[r].batch = <<>>
         /\ \A q \in Requests : q # r => handler'[q] = handler[q]
<1>1. <<>> \in Seq(Instructions)
  OBVIOUS
<1>2. QED
  BY <1>1, RespondType

\* Thread r takes the step alone.
OthersSame(r) == \A q \in Requests : q # r => handler'[q] = handler[q]

LEMMA BatchesStep ==
  ASSUME TypeOK, ThreadsOK, BatchesDisjoint, [Next]_vars
  PROVE  BatchesDisjoint'
<1>0. "command" \in Replies /\ "ok" \in Replies /\ "rejected" \in Replies
      /\ "accepted" \in Replies /\ "batch" \in Replies /\ NoToken \in Nat
  BY DEF Replies
<1>1. ASSUME NEW i \in Instructions, NEW b \in Callers, CreateInstruction(i, b)
      PROVE  BatchesDisjoint'
  <2>1. \A j \in Instructions : ~Waiting(j) => ~Waiting(j)'
    BY <1>1 DEF CreateInstruction, TypeOK, Waiting
  <2>2. handler' = handler
    BY <1>1 DEF CreateInstruction
  <2>3. CASE Requests = {}
    BY <2>3 DEF BatchesDisjoint
  <2>4. CASE Requests # {}
    BY <2>1, <2>2, <2>4, BatchesKept
  <2>5. QED
    BY <2>3, <2>4
<1>2. ASSUME NEW r \in Requests, Arrive(r)
      PROVE  BatchesDisjoint'
  <2>1. \A j \in Instructions : ~Waiting(j) => ~Waiting(j)'
    BY <1>2 DEF Arrive, NextInstructions, SubmitResult, GetOrCreateReinstall,
                AcknowledgeReinstall, FailProcessing, TypeOK, Waiting
  <2>2. handler'[r].batch = <<>> /\ OthersSame(r)
    <3> USE DEF OthersSame
    <3>1. ASSUME NEW b \in Callers, NEW n \in 1 .. MaxLimit, NextInstructions(r, b, n)
          PROVE  handler'[r].batch = <<>> /\ OthersSame(r)
      <4>1. CASE reinstall # NoToken
        BY <1>0, <3>1, <4>1, EmptyAnswer DEF NextInstructions, TypeOK
      <4>2. CASE reinstall = NoToken
        BY <3>1, <4>2 DEF NextInstructions, Continue, Idle, TypeOK
      <4>3. QED
        BY <4>1, <4>2
    <3>2. ASSUME NEW i \in Instructions, NEW e \in Callers, NEW body \in {"result", "error"},
                 SubmitResult(r, i, e, body)
          PROVE  handler'[r].batch = <<>> /\ OthersSame(r)
      <4>1. CASE \E answer \in {"ok", "rejected"} : Respond(r, answer, <<>>, NoToken)
        BY <1>0, <4>1, EmptyAnswer
      <4>2. CASE \E p \in Prepared(i, body) :
                   Continue(r, [Idle EXCEPT !.pc = "update", !.id = i, !.outcome = p,
                                  !.bid = e, !.untargeted = (bid[i] = NoBid)])
        BY <4>2 DEF Continue, Idle, TypeOK
      <4>3. QED
        BY <3>2, <4>1, <4>2, Zenon DEF SubmitResult
    <3>3. CASE GetOrCreateReinstall(r)
      BY <3>3 DEF GetOrCreateReinstall, Continue, Idle, TypeOK
    <3>4. ASSUME NEW t \in 1 .. issued, AcknowledgeReinstall(r, t)
          PROVE  handler'[r].batch = <<>> /\ OthersSame(r)
      BY <1>0, <3>4, EmptyAnswer DEF AcknowledgeReinstall
    <3>5. QED
      BY <1>2, <3>1, <3>2, <3>3, <3>4 DEF Arrive
  <2>3. QED
    BY <2>1, <2>2, BatchesKept DEF OthersSame
<1>3. ASSUME NEW r \in Requests, Run(r)
      PROVE  BatchesDisjoint'
  <2>1. CASE ClaimSerially(r)
    BY <2>1, BatchesRow DEF ClaimSerially
  <2>2. CASE ClaimWrite(r)
    <3>1. handler[r].open \in BOOLEAN
      BY DEF TypeOK, Handler
    <3>2. QED
      BY <2>2, <3>1, BatchesRow DEF ClaimWrite
  <2>3. CASE CompleteInstruction(r)
    <3>1. handler[r].id \in Instructions
      BY <2>3 DEF CompleteInstruction, ThreadsOK, ThreadOK
    <3>2. \A j \in Instructions : ~Waiting(j) => ~Waiting(j)'
      BY <2>3, <3>1 DEF CompleteInstruction, TypeOK, Waiting, Lifecycle!StatusOf
    <3>3. QED
      BY <1>0, <2>3, <3>2, EmptyAnswer, BatchesKept DEF CompleteInstruction
  <2>4. CASE CommitReinstall(r)
    <3>1. \A j \in Instructions : ~Waiting(j) => ~Waiting(j)'
      BY <2>4 DEF CommitReinstall, FailProcessing, TypeOK, Waiting
    <3>2. handler[r].token \in Nat
      BY DEF TypeOK, Handler
    <3>3. QED
      BY <1>0, <2>4, <3>1, <3>2, EmptyAnswer, BatchesKept DEF CommitReinstall
  <2>5. CASE SelectCandidate(r)
    <3>1. status' = status
      BY <2>5 DEF SelectCandidate
    <3>2. handler[r] \in Handler /\ handler[r].batch \in Seq(Instructions)
      BY DEF TypeOK, Handler
    <3>3. handler'[r].batch = handler[r].batch /\ OthersSame(r)
      <4> USE DEF OthersSame
      <4>1. CASE Respond(r, "batch", handler[r].batch, NoToken)
        BY <1>0, <3>2, <4>1, RespondType
      <4>2. ASSUME NEW i \in Instructions,
                   Continue(r, [handler[r] EXCEPT !.pc = "claim", !.id = i])
            PROVE  handler'[r].batch = handler[r].batch /\ OthersSame(r)
        BY <3>2, <4>2 DEF Continue, TypeOK, Handler
      <4>3. QED
        BY <2>5, <4>1, <4>2 DEF SelectCandidate
    <3>4. QED
      BY <3>1, <3>3, BatchesKept DEF Waiting, OthersSame
  <2>6. CASE ClaimSnapshot(r)
    <3>1. handler[r] \in Handler
      BY DEF TypeOK
    <3>2. /\ handler'[r].batch = handler[r].batch
          /\ \A q \in Requests : q # r => handler'[q] = handler[q]
      BY <2>6, <3>1 DEF ClaimSnapshot, Continue, TypeOK, Handler
    <3>3. QED
      BY <2>6, <3>2, BatchesKept DEF ClaimSnapshot, Waiting
  <2>7. CASE SendReply(r)
    <3>1. /\ handler'[r].batch = <<>>
          /\ \A q \in Requests : q # r => handler'[q] = handler[q]
      BY <2>7 DEF SendReply, Continue, Idle, TypeOK
    <3>2. QED
      BY <2>7, <3>1, BatchesKept DEF SendReply, Waiting
  <2>8. QED
    BY <1>3, <2>1, <2>2, <2>3, <2>4, <2>5, <2>6, <2>7 DEF Run
<1>4. ASSUME NEW r \in Requests, AbandonRequest(r)
      PROVE  BatchesDisjoint'
  <2>1. /\ handler'[r].batch = <<>>
        /\ \A q \in Requests : q # r => handler'[q] = handler[q]
    BY <1>4 DEF AbandonRequest, Continue, Idle, TypeOK
  <2>2. QED
    BY <1>4, <2>1, BatchesKept DEF AbandonRequest, Waiting
<1>5. CASE UNCHANGED vars
  BY <1>5 DEF vars, BatchesDisjoint
<1>6. QED
  BY <1>1, <1>2, <1>3, <1>4, <1>5 DEF Next

\* No instruction is in two poll responses, nor twice in one.
THEOREM BatchesAreDisjoint == Spec => []BatchesDisjoint
<1>1. Init => BatchesDisjoint
  BY DEF Init, Idle, BatchesDisjoint
<1>2. TypeOK /\ ThreadsOK /\ BatchesDisjoint /\ [Next]_vars => BatchesDisjoint'
  BY BatchesStep
<1>3. QED
  BY <1>1, <1>2, TypeCorrect, PTL DEF Spec

\* Together: an instruction is claimed once, and the response of one poll has it.
THEOREM InstructionsHandedOutOnce == Spec => []HandedOutOnce
<1>1. ClaimedAtMostOnce /\ BatchesDisjoint => HandedOutOnce
  BY DEF HandedOutOnce
<1>2. QED
  BY <1>1, ClaimedOnce, BatchesAreDisjoint, PTL

-----------------------------------------------------------------------------
(***************************************************************************)
(* A reinstall token is used up by its acknowledgement.                    *)
(***************************************************************************)

\* Whoever answers or ends drops its transaction, and the others keep theirs.
LEMMA ReinstallKept ==
  ASSUME TypeOK, ReinstallOK, NEW r \in Requests, ~handler'[r].fresh,
         \A q \in Requests : q # r => handler'[q] = handler[q],
         UNCHANGED <<reinstall, issued, retired>>
  PROVE  ReinstallOK'
BY DEF ReinstallOK, TypeOK

\* An insert is the only one, and its token is new.
LEMMA ReinstallCreated ==
  ASSUME TypeOK, ReinstallOK, NEW r \in Requests, GetOrCreateReinstall(r)
  PROVE  ReinstallOK'
<1> DEFINE created == reinstall = NoToken
           token == IF created THEN issued + 1 ELSE reinstall
           h == [Idle EXCEPT !.pc = "recover", !.token = token, !.fresh = created]
<1>1. h.pc = "recover" /\ h.token = token
  BY DEF Idle
<1>0. reinstall # NoToken => h.fresh = FALSE
  BY DEF Idle
<1>2. Continue(r, h) /\ UNCHANGED <<reinstall, retired>>
  BY DEF GetOrCreateReinstall
<1> HIDE DEF h
<1>3. handler'[r] = h /\ \A q \in Requests : q # r => handler'[q] = handler[q]
  BY <1>2 DEF Continue, TypeOK
<1>4. CASE reinstall # NoToken
  <2>1. issued' = issued
    BY <1>4 DEF GetOrCreateReinstall
  <2>2. ~handler'[r].fresh
    BY <1>0, <1>3, <1>4
  <2>3. QED
    BY <1>2, <1>3, <2>1, <2>2, ReinstallKept
<1>5. CASE reinstall = NoToken
  <2>1. /\ issued' = issued + 1
        /\ \A q \in Requests : ~handler[q].fresh
    BY <1>5 DEF GetOrCreateReinstall
  <2>2. handler'[r].pc = "recover" /\ handler'[r].token = issued'
    BY <1>1, <1>3, <1>5, <2>1
  <2>3. \A q \in Requests : handler'[q].fresh => q = r
    BY <1>3, <2>1
  <2>4. retired' \subseteq 1 .. issued' /\ issued' \notin retired'
    BY <1>2, <2>1 DEF ReinstallOK, TypeOK
  <2>5. reinstall' = NoToken /\ reinstall' \notin retired' /\ issued' > 0
    BY <1>2, <1>5, <2>1 DEF ReinstallOK, TypeOK
  <2>6. reinstall' <= issued' /\ retired' \subseteq 1 .. issued'
    BY <2>1, <2>4, <2>5 DEF TypeOK
  <2>7. \A p \in Requests : handler'[p].fresh =>
          /\ handler'[p].pc = "recover"
          /\ handler'[p].token = issued'
          /\ \A q \in Requests : handler'[q].fresh => q = p
    BY <2>2, <2>3
  <2>8. QED
    BY <2>4, <2>5, <2>6, <2>7 DEF ReinstallOK
<1>6. QED
  BY <1>4, <1>5

\* The commit publishes a token that was never acknowledged.
LEMMA ReinstallCommitted ==
  ASSUME TypeOK, ReinstallOK, NEW r \in Requests, CommitReinstall(r)
  PROVE  ReinstallOK'
<1>1. handler[r].token \in Nat /\ "accepted" \in Replies /\ <<>> \in Seq(Instructions)
  BY DEF TypeOK, Handler, Replies
<1>2. ~handler'[r].fresh /\ \A q \in Requests : q # r => handler'[q] = handler[q]
  BY <1>1, RespondType DEF CommitReinstall
<1>3. UNCHANGED <<issued, retired>>
  BY DEF CommitReinstall
<1>4. CASE handler[r].fresh
  <2>1. reinstall' = issued /\ issued \notin retired
    BY <1>4 DEF CommitReinstall, ReinstallOK
  <2>2. \A q \in Requests : ~handler'[q].fresh
    BY <1>2, <1>4 DEF ReinstallOK
  <2>3. QED
    BY <1>3, <2>1, <2>2 DEF ReinstallOK, TypeOK
<1>5. CASE ~handler[r].fresh
  BY <1>2, <1>3, <1>5, ReinstallKept DEF CommitReinstall
<1>6. QED
  BY <1>4, <1>5

\* The acknowledgement retires the token it deletes.
LEMMA ReinstallAcknowledged ==
  ASSUME TypeOK, ReinstallOK, NEW r \in Requests, NEW t \in 1 .. issued,
         AcknowledgeReinstall(r, t)
  PROVE  ReinstallOK'
<1>1. PICK answer \in {"ok", "rejected"} : Respond(r, answer, <<>>, NoToken)
  BY DEF AcknowledgeReinstall
<1>2. answer \in Replies /\ <<>> \in Seq(Instructions) /\ NoToken \in Nat
  BY DEF Replies
<1>3. ~handler'[r].fresh /\ \A q \in Requests : q # r => handler'[q] = handler[q]
  BY <1>1, <1>2, RespondType
<1>4. CASE UNCHANGED <<reinstall, retired>>
  BY <1>3, <1>4, ReinstallKept DEF AcknowledgeReinstall
<1>5. CASE reinstall = t /\ reinstall' = NoToken /\ retired' = retired \cup {t}
  <2>1. \A q \in Requests : ~handler'[q].fresh
    BY <1>3, <1>5 DEF ReinstallOK
  <2>2. issued' = issued
    BY DEF AcknowledgeReinstall
  <2>3. retired' \subseteq 1 .. issued /\ NoToken \notin retired'
    BY <1>5 DEF ReinstallOK, TypeOK
  <2>4. QED
    BY <1>5, <2>1, <2>2, <2>3 DEF ReinstallOK, TypeOK
<1>6. QED
  BY <1>4, <1>5, Zenon DEF AcknowledgeReinstall

LEMMA ReinstallStep ==
  ASSUME TypeOK, ThreadsOK, ReinstallOK, [Next]_vars
  PROVE  ReinstallOK'
<1>0. /\ "command" \in Replies /\ "ok" \in Replies /\ "rejected" \in Replies
      /\ "batch" \in Replies /\ NoToken \in Nat /\ <<>> \in Seq(Instructions)
  BY DEF Replies
<1>1. ASSUME NEW i \in Instructions, NEW b \in Callers, CreateInstruction(i, b)
      PROVE  ReinstallOK'
  BY <1>1 DEF CreateInstruction, ReinstallOK
<1>2. ASSUME NEW r \in Requests, NEW answer \in Replies, NEW batch \in Seq(Instructions),
             NEW token \in Nat, Respond(r, answer, batch, token),
             UNCHANGED <<reinstall, issued, retired>>
      PROVE  ReinstallOK'
  BY <1>2, RespondType, ReinstallKept
<1>3. ASSUME NEW r \in Requests, NEW h, Continue(r, h), ~h.fresh,
             UNCHANGED <<reinstall, issued, retired>>
      PROVE  ReinstallOK'
  <2>1. handler'[r] = h /\ \A q \in Requests : q # r => handler'[q] = handler[q]
    BY <1>3 DEF Continue, TypeOK
  <2>2. QED
    BY <1>3, <2>1, ReinstallKept
<1>4. ASSUME NEW r \in Requests, Arrive(r)
      PROVE  ReinstallOK'
  <2>1. ASSUME NEW b \in Callers, NEW n \in 1 .. MaxLimit, NextInstructions(r, b, n)
        PROVE  ReinstallOK'
    <3>1. CASE reinstall # NoToken
      BY <1>0, <1>2, <2>1, <3>1 DEF NextInstructions, TypeOK
    <3>2. CASE reinstall = NoToken
      <4>1. ~[Idle EXCEPT !.pc = "select", !.bid = b, !.limit = n].fresh
        BY DEF Idle
      <4>2. QED
        BY <1>3, <2>1, <3>2, <4>1 DEF NextInstructions
    <3>3. QED
      BY <3>1, <3>2
  <2>2. ASSUME NEW i \in Instructions, NEW e \in Callers, NEW body \in {"result", "error"},
               SubmitResult(r, i, e, body)
        PROVE  ReinstallOK'
    <3>1. UNCHANGED <<reinstall, issued, retired>>
      BY <2>2 DEF SubmitResult
    <3>2. CASE \E answer \in {"ok", "rejected"} : Respond(r, answer, <<>>, NoToken)
      BY <1>0, <1>2, <3>1, <3>2
    <3>3. ASSUME NEW p \in Prepared(i, body),
                 Continue(r, [Idle EXCEPT !.pc = "update", !.id = i, !.outcome = p,
                                          !.bid = e, !.untargeted = (bid[i] = NoBid)])
          PROVE  ReinstallOK'
      <4>1. ~[Idle EXCEPT !.pc = "update", !.id = i, !.outcome = p,
                          !.bid = e, !.untargeted = (bid[i] = NoBid)].fresh
        BY DEF Idle
      <4>2. QED
        BY <1>3, <3>1, <3>3, <4>1
    <3>4. QED
      BY <2>2, <3>2, <3>3, Zenon DEF SubmitResult
  <2>3. QED
    BY <1>4, <2>1, <2>2, ReinstallCreated, ReinstallAcknowledged DEF Arrive
<1>5. ASSUME NEW r \in Requests, Run(r)
      PROVE  ReinstallOK'
  <2>0. /\ handler[r] \in Handler /\ handler[r].batch \in Seq(Instructions)
        /\ handler[r].pc # "recover" => ~handler[r].fresh
    BY DEF TypeOK, Handler, ReinstallOK
  <2>1. CASE SelectCandidate(r)
    <3>1. CASE Respond(r, "batch", handler[r].batch, NoToken)
      BY <1>0, <1>2, <2>0, <2>1, <3>1 DEF SelectCandidate
    <3>2. ASSUME NEW i \in Instructions,
                 Continue(r, [handler[r] EXCEPT !.pc = "claim", !.id = i])
          PROVE  ReinstallOK'
      <4>1. ~[handler[r] EXCEPT !.pc = "claim", !.id = i].fresh
        BY <2>0, <2>1 DEF SelectCandidate, Handler
      <4>2. QED
        BY <1>3, <2>1, <3>2, <4>1 DEF SelectCandidate
    <3>3. QED
      BY <2>1, <3>1, <3>2 DEF SelectCandidate
  <2>2. CASE ClaimSnapshot(r)
    <3>1. ~[handler[r] EXCEPT !.pc = "write", !.open = (reinstall = NoToken)].fresh
      BY <2>0, <2>2 DEF ClaimSnapshot, Handler
    <3>2. QED
      BY <1>3, <2>2, <3>1 DEF ClaimSnapshot
  <2>3. ASSUME NEW open, handler[r].pc \in {"claim", "write"}, ClaimRow(r, open)
        PROVE  ReinstallOK'
    <3> DEFINE next == [handler[r] EXCEPT !.pc = "select", !.id = NoId, !.open = FALSE]
               last == [next EXCEPT !.batch = Append(handler[r].batch, handler[r].id)]
    <3>1. ~next.fresh /\ ~last.fresh
      BY <2>0, <2>3 DEF Handler
    <3>2. Continue(r, next) \/ Continue(r, last)
      BY <2>3 DEF ClaimRow
    <3>3. UNCHANGED <<reinstall, issued, retired>>
      BY <2>3 DEF ClaimRow
    <3> HIDE DEF next, last
    <3>4. QED
      BY <1>3, <3>1, <3>2, <3>3
  <2>4. CASE CompleteInstruction(r)
    BY <1>0, <1>2, <2>4 DEF CompleteInstruction
  <2>5. CASE SendReply(r)
    <3>1. ~Idle.fresh
      BY DEF Idle
    <3>2. QED
      BY <1>3, <2>5, <3>1 DEF SendReply
  <2>6. QED
    BY <1>5, <2>1, <2>2, <2>3, <2>4, <2>5, ReinstallCommitted
    DEF Run, ClaimSerially, ClaimWrite
<1>6. ASSUME NEW r \in Requests, AbandonRequest(r)
      PROVE  ReinstallOK'
  <2>1. ~Idle.fresh
    BY DEF Idle
  <2>2. QED
    BY <1>3, <1>6, <2>1 DEF AbandonRequest
<1>7. CASE UNCHANGED vars
  BY <1>7 DEF vars, ReinstallOK
<1>8. QED
  BY <1>1, <1>4, <1>5, <1>6, <1>7 DEF Next

\* A token whose row was acknowledged away never becomes pending again.
THEOREM ReinstallsRunOnce == Spec => []ReinstallRunsOnce
<1>1. Init => ReinstallOK
  BY DEF Init, ReinstallOK, Idle
<1>2. TypeOK /\ ThreadsOK /\ ReinstallOK /\ [Next]_vars => ReinstallOK'
  BY ReinstallStep
<1>3. ReinstallOK => ReinstallRunsOnce
  BY DEF ReinstallOK, ReinstallRunsOnce
<1>4. QED
  BY <1>1, <1>2, <1>3, TypeCorrect, PTL DEF Spec

(***************************************************************************)
(* The statements implement InstructionLifecycle: a claim is the abstract  *)
(* claim because the UPDATE rechecks the row, a result is the abstract end *)
(* because a processing row keeps the bid it had when it was read.         *)
(***************************************************************************)
LEMMA ClaimRefines ==
  ASSUME TypeOK, ThreadsOK, NEW r \in Requests, NEW open,
         handler[r].pc \in {"claim", "write"}, ClaimRow(r, open)
  PROVE  Lifecycle!Next \/ UNCHANGED table
<1> DEFINE i == handler[r].id
           b == handler[r].bid
<1>1. i \in Instructions /\ b \in Lifecycle!Callers
  BY DEF ThreadsOK, ThreadOK, TypeOK, Handler, Callers, Lifecycle!Callers
<1>2. CASE status[i] = "pending" /\ Visible(i, b) /\ open
  <2>1. Lifecycle!Claim(i, b)
    BY <1>2 DEF ClaimRow, Visible, Lifecycle!Claim, Lifecycle!Eligible
  <2>2. QED
    BY <1>1, <2>1 DEF Lifecycle!Next
<1>3. CASE ~(status[i] = "pending" /\ Visible(i, b) /\ open)
  BY <1>3 DEF ClaimRow, table
<1>4. QED
  BY <1>2, <1>3

LEMMA CompletionRefines ==
  ASSUME TypeOK, ThreadsOK, NEW r \in Requests, CompleteInstruction(r)
  PROVE  Lifecycle!Next \/ UNCHANGED table
<1> DEFINE i == handler[r].id
           b == handler[r].bid
           o == handler[r].outcome
<1>1. /\ i \in Instructions
      /\ b \in Lifecycle!Callers
      /\ o \in {"value", "capture", "error"} /\ o \in Lifecycle!Outcomes
      /\ status[i] = "processing" => (handler[r].untargeted <=> bid[i] = NoBid)
  BY DEF CompleteInstruction, ThreadsOK, ThreadOK, TypeOK, Handler, Callers, Lifecycle!Callers
<1>2. CASE status[i] = "processing"
  <2>1. bid' = [bid EXCEPT ![i] = IF @ = NoBid THEN b ELSE @]
    <3>1. CASE bid[i] = NoBid /\ b # NoBid
      BY <1>1, <1>2, <3>1 DEF CompleteInstruction
    <3>2. CASE ~(bid[i] = NoBid /\ b # NoBid)
      <4>1. bid' = bid
        BY <1>1, <1>2, <3>2 DEF CompleteInstruction
      <4>2. (IF bid[i] = NoBid THEN b ELSE bid[i]) = bid[i]
        BY <3>2
      <4>3. QED
        BY <1>1, <4>1, <4>2 DEF TypeOK
    <3>3. QED
      BY <3>1, <3>2
  <2>2. Lifecycle!Finish(i, b, o)
    BY <1>1, <1>2, <2>1 DEF CompleteInstruction, Lifecycle!Finish
  <2>3. QED
    BY <1>1, <2>2 DEF Lifecycle!Next
<1>3. CASE status[i] # "processing"
  BY <1>3 DEF CompleteInstruction, table
<1>4. QED
  BY <1>2, <1>3

LEMMA RecoveryRefines ==
  ASSUME FailProcessing
  PROVE  Lifecycle!Next
BY DEF FailProcessing, Lifecycle!Interrupt, Lifecycle!Next

LEMMA LifecycleStep ==
  ASSUME TypeOK, ThreadsOK, [Next]_vars
  PROVE  Lifecycle!Next \/ UNCHANGED table
<1>1. ASSUME NEW i \in Instructions, NEW b \in Callers, CreateInstruction(i, b)
      PROVE  Lifecycle!Next
  BY <1>1 DEF CreateInstruction, Lifecycle!Submit, Lifecycle!Next, Callers, Lifecycle!Callers
<1>2. ASSUME NEW r \in Requests, Arrive(r)
      PROVE  Lifecycle!Next \/ UNCHANGED table
  <2>1. ASSUME NEW t \in 1 .. issued, AcknowledgeReinstall(r, t)
        PROVE  Lifecycle!Next \/ UNCHANGED table
    <3>1. FailProcessing \/ UNCHANGED table
      BY <2>1, Zenon DEF AcknowledgeReinstall, table
    <3>2. QED
      BY <3>1, RecoveryRefines
  <2>2. QED
    BY <1>2, <2>1
    DEF Arrive, NextInstructions, SubmitResult, GetOrCreateReinstall, table
<1>3. ASSUME NEW r \in Requests, Run(r)
      PROVE  Lifecycle!Next \/ UNCHANGED table
  <2>1. CASE ClaimSerially(r) \/ ClaimWrite(r)
    BY <2>1, ClaimRefines DEF ClaimSerially, ClaimWrite
  <2>2. CASE CompleteInstruction(r)
    BY <2>2, CompletionRefines
  <2>3. CASE CommitReinstall(r)
    BY <2>3, RecoveryRefines DEF CommitReinstall
  <2>4. CASE SelectCandidate(r) \/ ClaimSnapshot(r) \/ SendReply(r)
    BY <2>4 DEF SelectCandidate, ClaimSnapshot, SendReply, table
  <2>5. QED
    BY <1>3, <2>1, <2>2, <2>3, <2>4 DEF Run
<1>4. ASSUME NEW r \in Requests, AbandonRequest(r)
      PROVE  UNCHANGED table
  BY <1>4 DEF AbandonRequest, table
<1>5. CASE UNCHANGED vars
  BY <1>5 DEF vars, table
<1>6. QED
  BY <1>1, <1>2, <1>3, <1>4, <1>5 DEF Next

\* The server, at the granularity of its statements, implements InstructionLifecycle.
THEOREM ServerImplementsLifecycle == Spec => ImplementsLifecycle
<1>1. Init => Lifecycle!Init
  BY DEF Init
<1>2. TypeOK /\ ThreadsOK /\ [Next]_vars => [Lifecycle!Next]_(Lifecycle!lifecycleVars)
  BY LifecycleStep DEF table, Lifecycle!lifecycleVars
<1>3. QED
  BY <1>1, <1>2, TypeCorrect, PTL DEF Spec, ImplementsLifecycle, Lifecycle!Spec

\* A completed or failed row is never written again, by any request, ever.
THEOREM TerminalRowsStaySealed == Spec => TerminalRowsSealed
<1> DEFINE Sealed == \A i \in Instructions :
             status[i] \in Terminal =>
               /\ status'[i] = status[i]
               /\ outcome'[i] = outcome[i]
               /\ bid'[i] = bid[i]
<1>1. TypeOK /\ ThreadsOK /\ [Next]_vars => [Sealed]_table
  <2> SUFFICES ASSUME TypeOK, Lifecycle!Next, NEW i \in Instructions, status[i] \in Terminal
               PROVE  /\ status'[i] = status[i]
                      /\ outcome'[i] = outcome[i]
                      /\ bid'[i] = bid[i]
    BY LifecycleStep
  <2>1. status[i] \notin {"absent", "pending", "processing"}
    BY DEF Terminal, Lifecycle!Terminal
  <2>2. ASSUME NEW j \in Instructions, NEW b, Lifecycle!Submit(j, b) \/ Lifecycle!Claim(j, b)
        PROVE  UNCHANGED <<status[i], outcome[i], bid[i]>>
    BY <2>1, <2>2 DEF Lifecycle!Submit, Lifecycle!Claim, TypeOK
  <2>3. ASSUME NEW j \in Instructions, NEW b, NEW o, Lifecycle!Finish(j, b, o)
        PROVE  UNCHANGED <<status[i], outcome[i], bid[i]>>
    BY <2>1, <2>3 DEF Lifecycle!Finish, TypeOK
  <2>4. CASE Lifecycle!Interrupt
    BY <2>1, <2>4 DEF Lifecycle!Interrupt, TypeOK
  <2>5. QED
    BY <2>2, <2>3, <2>4 DEF Lifecycle!Next
<1>2. QED
  BY <1>1, TypeCorrect, PTL DEF Spec, TerminalRowsSealed

(***************************************************************************)
(* Hosted captures, and the claim against a pending reinstall.             *)
(***************************************************************************)

\* The only write of "capture" comes from a thread that has stored the file.
LEMMA HostedStep ==
  ASSUME TypeOK, ThreadsOK, HostedCaptureExists, [Next]_vars
  PROVE  HostedCaptureExists'
<1>1. CASE UNCHANGED outcome /\ media \subseteq media'
  BY <1>1 DEF HostedCaptureExists
<1>2. CASE FailProcessing /\ UNCHANGED media
  BY <1>2 DEF HostedCaptureExists, FailProcessing, TypeOK
<1>3. ASSUME NEW r \in Requests, CompleteInstruction(r)
      PROVE  HostedCaptureExists'
  <2>1. /\ handler[r].id \in Instructions
        /\ handler[r].outcome = "capture" => handler[r].id \in media
    BY <1>3 DEF CompleteInstruction, ThreadsOK, ThreadOK
  <2>2. UNCHANGED media
    BY <1>3 DEF CompleteInstruction
  <2>3. \/ UNCHANGED outcome
        \/ outcome' = [outcome EXCEPT ![handler[r].id] = handler[r].outcome]
    BY <1>3 DEF CompleteInstruction
  <2>4. QED
    BY <2>1, <2>2, <2>3 DEF HostedCaptureExists, TypeOK
<1>4. ASSUME NEW r \in Requests, Arrive(r)
      PROVE  HostedCaptureExists'
  <2>1. ASSUME NEW t \in 1 .. issued, AcknowledgeReinstall(r, t)
        PROVE  HostedCaptureExists'
    BY <1>1, <1>2, <2>1, Zenon DEF AcknowledgeReinstall
  <2>2. ASSUME NEW i \in Instructions, NEW e \in Callers, NEW body \in {"result", "error"},
               SubmitResult(r, i, e, body)
        PROVE  HostedCaptureExists'
    BY <1>1, <2>2 DEF SubmitResult
  <2>3. QED
    BY <1>1, <1>4, <2>1, <2>2 DEF Arrive, NextInstructions, GetOrCreateReinstall
<1>5. ASSUME NEW r \in Requests, Run(r)
      PROVE  HostedCaptureExists'
  BY <1>1, <1>2, <1>3, <1>5
  DEF Run, SelectCandidate, ClaimSerially, ClaimSnapshot, ClaimWrite, ClaimRow,
      CommitReinstall, SendReply
<1>6. QED
  BY <1>1, <1>4, <1>5 DEF Next, CreateInstruction, AbandonRequest, vars

\* A row that refers to a hosted capture refers to a file that was written.
THEOREM HostedCapturesExist == Spec => []HostedCaptureExists
<1>1. Init => HostedCaptureExists
  BY DEF Init, Lifecycle!Init, HostedCaptureExists
<1>2. TypeOK /\ ThreadsOK /\ HostedCaptureExists /\ [Next]_vars => HostedCaptureExists'
  BY HostedStep
<1>3. QED
  BY <1>1, <1>2, TypeCorrect, PTL DEF Spec

\* The inductive invariant of the server holds in every reachable state.
THEOREM InductiveInvariant == Spec => []IInv
<1>1. Init => IInv
  <2>1. Init => ClaimedAtMostOnce /\ BatchesDisjoint /\ HostedCaptureExists
    BY DEF Init, Idle, Lifecycle!Init, ClaimedAtMostOnce, BatchesDisjoint, HostedCaptureExists
  <2>2. Init => ReinstallOK
    BY DEF Init, ReinstallOK, Idle
  <2>3. QED
    BY <2>1, <2>2, TypeInit DEF IInv
<1>2. IInv /\ [Next]_vars => IInv'
  BY TypeStep, ReinstallStep, ClaimsStep, BatchesStep, HostedStep DEF IInv
<1>3. QED
  BY <1>1, <1>2, PTL DEF Spec

\* On SQLite, where the claim is one step, no instruction is claimed while a
\* reinstall is pending.
THEOREM NoClaimWhileReinstallingOnSqlite ==
  ASSUME ~ReadCommitted
  PROVE  Spec => NoClaimWhileReinstalling
<1>1. TypeOK /\ ThreadsOK /\ [Next]_vars
        => [reinstall # NoToken => claimedBy' = claimedBy]_vars
  <2> SUFFICES ASSUME ThreadsOK, Next, reinstall # NoToken
               PROVE  claimedBy' = claimedBy
    OBVIOUS
  <2>1. ASSUME NEW r \in Requests, Run(r)
        PROVE  claimedBy' = claimedBy
    <3>1. ~ClaimWrite(r)
      BY DEF ClaimWrite, ThreadsOK, ThreadOK
    <3>2. ClaimSerially(r) => claimedBy' = claimedBy
      BY DEF ClaimSerially, ClaimRow
    <3>3. QED
      BY <2>1, <3>1, <3>2
      DEF Run, SelectCandidate, ClaimSnapshot, CompleteInstruction, CommitReinstall,
          FailProcessing, SendReply
  <2>2. QED
    BY <2>1 DEF Next, Arrive, NextInstructions, SubmitResult, GetOrCreateReinstall,
                AcknowledgeReinstall, FailProcessing, AbandonRequest, CreateInstruction
<1>2. QED
  BY <1>1, TypeCorrect, PTL DEF Spec, NoClaimWhileReinstalling

\* On SQLite nothing is being processed while a reinstall is pending: the commit
\* that publishes the token fails every processing row, and no claim follows it.
THEOREM NothingProcessingWhileReinstallingOnSqlite ==
  ASSUME ~ReadCommitted
  PROVE  Spec => []NothingProcessingWhileReinstalling
<1> DEFINE P == NothingProcessingWhileReinstalling
<1>1. Init => P
  BY DEF Init, NothingProcessingWhileReinstalling
<1>2. TypeOK /\ ThreadsOK /\ P /\ [Next]_vars => P'
  <2> SUFFICES ASSUME TypeOK, ThreadsOK, P, [Next]_vars, NEW i \in Instructions,
                      reinstall' # NoToken
               PROVE  status'[i] # "processing"
    BY DEF NothingProcessingWhileReinstalling
  <2>1. CASE FailProcessing
    BY <2>1 DEF FailProcessing
  <2>2. CASE UNCHANGED <<status, reinstall>>
    BY <2>2 DEF NothingProcessingWhileReinstalling
  <2>3. ASSUME NEW r \in Requests, Run(r)
        PROVE  status'[i] # "processing"
    <3>1. ~ClaimWrite(r)
      BY DEF ClaimWrite, ThreadsOK, ThreadOK
    <3>2. CASE ClaimSerially(r)
      <4>1. reinstall # NoToken
        BY <3>2 DEF ClaimSerially, ClaimRow
      <4>2. UNCHANGED <<status, reinstall>>
        BY <3>2, <4>1 DEF ClaimSerially, ClaimRow
      <4>3. QED
        BY <2>2, <4>2
    <3>3. CASE CompleteInstruction(r)
      <4>1. \/ UNCHANGED status
            \/ status' = [status EXCEPT ![handler[r].id] =
                            Lifecycle!StatusOf(handler[r].outcome)]
        BY <3>3 DEF CompleteInstruction
      <4>2. Lifecycle!StatusOf(handler[r].outcome) # "processing"
        BY DEF Lifecycle!StatusOf
      <4>3. UNCHANGED reinstall
        BY <3>3 DEF CompleteInstruction
      <4>4. QED
        BY <4>1, <4>2, <4>3 DEF TypeOK, NothingProcessingWhileReinstalling
    <3>4. CASE CommitReinstall(r)
      BY <2>1, <3>4 DEF CommitReinstall
    <3>5. CASE SelectCandidate(r) \/ ClaimSnapshot(r) \/ SendReply(r)
      BY <2>2, <3>5 DEF SelectCandidate, ClaimSnapshot, SendReply
    <3>6. QED
      BY <2>3, <3>1, <3>2, <3>3, <3>4, <3>5 DEF Run
  <2>4. ASSUME NEW j \in Instructions, NEW b \in Callers, CreateInstruction(j, b)
        PROVE  status'[i] # "processing"
    BY <2>4 DEF CreateInstruction, TypeOK, NothingProcessingWhileReinstalling
  <2>5. ASSUME NEW r \in Requests, NEW t \in 1 .. issued, AcknowledgeReinstall(r, t)
        PROVE  status'[i] # "processing"
    <3>1. FailProcessing \/ UNCHANGED <<status, reinstall>>
      BY <2>5, Zenon DEF AcknowledgeReinstall
    <3>2. QED
      BY <2>1, <2>2, <3>1
  <2>6. ASSUME NEW r \in Requests, Arrive(r)
        PROVE  status'[i] # "processing"
    BY <2>2, <2>5, <2>6 DEF Arrive, NextInstructions, SubmitResult, GetOrCreateReinstall
  <2>7. QED
    BY <2>2, <2>3, <2>4, <2>6 DEF Next, AbandonRequest, vars
<1>3. QED
  BY <1>1, <1>2, TypeCorrect, PTL DEF Spec
=============================================================================
