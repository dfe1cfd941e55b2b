-------------------------- MODULE InstructionQueue --------------------------
(***************************************************************************)
(* The instruction queue of the ACOB server (srv/api/views.py, models.py,  *)
(* recovery.py, storage.py), one action per database statement.            *)
(*                                                                         *)
(* uvicorn runs every request in a thread of its own, and only the two     *)
(* reinstall handlers open a transaction around more than one statement,   *)
(* so the statements of concurrent requests interleave.  A request thread  *)
(* is a member of Requests; its local variables are the record handler[r]. *)
(*                                                                         *)
(* The database is PostgreSQL at READ COMMITTED in the Compose stack and   *)
(* SQLite as the fallback.  They differ in the claim, an UPDATE whose      *)
(* NOT EXISTS subquery reads another table: PostgreSQL evaluates the       *)
(* subquery on the snapshot of the statement's start and rechecks only the *)
(* row being updated, SQLite runs one writer at a time.                    *)
(***************************************************************************)
EXTENDS Naturals, Sequences

CONSTANTS
  Instructions,    \* ids, in the order of created_at
  Bids,            \* browser ids (32 hex digits in the code)
  NoBid,           \* null
  Captures,        \* the instructions whose result the server hosts as media
  Requests,        \* request threads
  MaxLimit,        \* the largest ?limit= the query schema admits
  MaxReinstalls,   \* bound: reinstall tokens issued in one behaviour
  ReadCommitted    \* TRUE: PostgreSQL; FALSE: SQLite

NoId == 0
NoToken == 0

ASSUME InstructionsAssumption == Instructions \subseteq Nat \ {NoId}
ASSUME BidsAssumption == NoBid \notin Bids
ASSUME CapturesAssumption == Captures \subseteq Instructions
ASSUME BoundsAssumption ==
  /\ MaxLimit \in Nat \ {0}
  /\ MaxReinstalls \in Nat
  /\ ReadCommitted \in BOOLEAN

VARIABLES
  status,          \* Instruction.status; "absent" before the INSERT
  bid,             \* Instruction.bid
  outcome,         \* what Instruction.result and Instruction.error hold
  claimedBy,       \* history: the callers each row was claimed for, in order
  reinstall,       \* the committed Reinstall row's token, or NoToken
  issued,          \* history: tokens issued so far (uuid4 never repeats one)
  retired,         \* history: tokens whose Reinstall row was deleted
  media,           \* instructions with a capture written under MEDIA_ROOT
  handler          \* handler[r]: the local state of request thread r

table == <<status, bid, outcome, claimedBy>>
vars == <<status, bid, outcome, claimedBy, reinstall, issued, retired, media, handler>>

Lifecycle == INSTANCE InstructionLifecycle

Callers == Bids \cup {NoBid}
Terminal == Lifecycle!Terminal

(***************************************************************************)
(* Where a request thread is:                                              *)
(*   select    at the head of next_instructions' while loop                *)
(*   claim     a candidate is chosen, its UPDATE not yet started           *)
(*   write     the UPDATE has its snapshot and waits for the row           *)
(*   update    a result is validated and prepared, its row not yet written *)
(*   recover   inside request_reinstall, after get_or_create               *)
(*   reply     the response is ready                                       *)
(***************************************************************************)
Points == {"idle", "select", "claim", "write", "update", "recover", "reply"}

\* What a response tells the caller.
Replies == {"none", "batch", "command", "ok", "rejected", "accepted"}

Handler ==
  [pc: Points,
   bid: Callers,              \* the caller's bid, or the bid to be stored
   limit: 0 .. MaxLimit,
   batch: Seq(Instructions),  \* the rows next_instructions has claimed
   id: Instructions \cup {NoId},
   open: BOOLEAN,             \* the claim's snapshot shows no Reinstall row
   untargeted: BOOLEAN,       \* the row's bid was null when it was read
   outcome: Lifecycle!Outcomes,
   token: Nat,
   fresh: BOOLEAN,            \* get_or_create inserted the (uncommitted) row
   reply: Replies]

Idle ==
  [pc |-> "idle", bid |-> NoBid, limit |-> 0, batch |-> <<>>, id |-> NoId,
   open |-> FALSE, untargeted |-> FALSE, outcome |-> "none",
   token |-> NoToken, fresh |-> FALSE, reply |-> "none"]

Init ==
  /\ Lifecycle!Init
  /\ reinstall = NoToken
  /\ issued = 0
  /\ retired = {}
  /\ media = {}
  /\ handler = [r \in Requests |-> Idle]

\* Thread r continues with the local state h.
Continue(r, h) == handler' = [handler EXCEPT ![r] = h]

\* Thread r has its response; nothing else it remembers matters any more.
Respond(r, answer, batch, token) ==
  Continue(r, [Idle EXCEPT !.pc = "reply", !.reply = answer,
                           !.batch = batch, !.token = token])

(***************************************************************************)
(* POST /api/instructions/ and /api/instructions/batch/.  The id is the    *)
(* next one in created_at order; b is the optional target.                 *)
(***************************************************************************)
CreateInstruction(i, b) ==
  /\ status[i] = "absent"
  /\ \A j \in Instructions : j < i => status[j] # "absent"
  /\ status' = [status EXCEPT ![i] = "pending"]
  /\ bid' = [bid EXCEPT ![i] = b]
  /\ UNCHANGED <<outcome, claimedBy, reinstall, issued, retired, media, handler>>

-----------------------------------------------------------------------------
(***************************************************************************)
(* GET /api/instructions/next/?bid=b&limit=n                               *)
(***************************************************************************)

\* The request arrives.  A pending reinstall is the whole answer.
NextInstructions(r, b, n) ==
  /\ handler[r].pc = "idle"
  /\ IF reinstall # NoToken
       THEN Respond(r, "command", <<>>, reinstall)
       ELSE Continue(r, [Idle EXCEPT !.pc = "select", !.bid = b, !.limit = n])
  /\ UNCHANGED <<status, bid, outcome, claimedBy, reinstall, issued, retired, media>>

\* Mutant: a poll without a bid sees targeted rows too.
VisibleToAnonymous(i, b) == b = NoBid \/ bid[i] = NoBid \/ bid[i] = b

\* bid_filter: null, or the caller's own bid when it sent one.
Visible(i, b) == bid[i] = NoBid \/ (b # NoBid /\ bid[i] = b)

\* Mutant: the loop reselects rows that are already taken.
CandidatesTaken(b) == {i \in Instructions : status[i] # "absent" /\ Visible(i, b)}

Candidates(b) == {i \in Instructions : status[i] = "pending" /\ Visible(i, b)}

\* .first() under Meta.ordering = ["created_at"].
IsFirst(i, b) == i \in Candidates(b) /\ \A j \in Candidates(b) : i <= j

\* The head of the loop: stop at the limit, at a reinstall, or when nothing
\* is pending; otherwise remember the oldest candidate.  The two reads are one
\* step: a reinstall that commits between them is seen by the claim instead.
SelectCandidate(r) ==
  LET h == handler[r]
      stop == \/ Len(h.batch) >= h.limit
              \/ reinstall # NoToken
              \/ Candidates(h.bid) = {}
  IN /\ h.pc = "select"
     /\ \/ /\ stop
           /\ Respond(r, "batch", h.batch, NoToken)
        \/ /\ ~stop
           /\ \E i \in Instructions :
                /\ IsFirst(i, h.bid)
                /\ Continue(r, [h EXCEPT !.pc = "claim", !.id = i])
     /\ UNCHANGED <<status, bid, outcome, claimedBy, reinstall, issued, retired, media>>

\* Mutant: the UPDATE goes by the id alone.
ClaimRowUnchecked(r, noReinstall) ==
  LET h == handler[r]
      i == h.id
      next == [h EXCEPT !.pc = "select", !.id = NoId, !.open = FALSE]
  IN /\ IF noReinstall
          THEN /\ status' = [status EXCEPT ![i] = "processing"]
               /\ claimedBy' = [claimedBy EXCEPT ![i] = Append(@, h.bid)]
               /\ Continue(r, [next EXCEPT !.batch = Append(h.batch, i)])
          ELSE /\ Continue(r, next)
               /\ UNCHANGED <<status, claimedBy>>
     /\ UNCHANGED <<bid, outcome, reinstall, issued, retired, media>>

\* The conditional UPDATE: the row is rechecked as it is written, the
\* NOT EXISTS subquery counts as noReinstall says.  A claimed row joins the
\* batch (the get that follows reads columns the extension uses as they were).
ClaimRow(r, noReinstall) ==
  LET h == handler[r]
      i == h.id
      claimed == status[i] = "pending" /\ Visible(i, h.bid) /\ noReinstall
      next == [h EXCEPT !.pc = "select", !.id = NoId, !.open = FALSE]
  IN /\ IF claimed
          THEN /\ status' = [status EXCEPT ![i] = "processing"]
               /\ claimedBy' = [claimedBy EXCEPT ![i] = Append(@, h.bid)]
               /\ Continue(r, [next EXCEPT !.batch = Append(h.batch, i)])
          ELSE /\ Continue(r, next)
               /\ UNCHANGED <<status, claimedBy>>
     /\ UNCHANGED <<bid, outcome, reinstall, issued, retired, media>>

\* Mutant: the UPDATE does not look for a reinstall.
ClaimSeriallyBlind(r) ==
  /\ ~ReadCommitted
  /\ handler[r].pc = "claim"
  /\ ClaimRow(r, TRUE)

\* SQLite: the statement is one step.
ClaimSerially(r) ==
  /\ ~ReadCommitted
  /\ handler[r].pc = "claim"
  /\ ClaimRow(r, reinstall = NoToken)

\* PostgreSQL: the statement takes its snapshot ...
ClaimSnapshot(r) ==
  /\ ReadCommitted
  /\ handler[r].pc = "claim"
  /\ Continue(r, [handler[r] EXCEPT !.pc = "write", !.open = (reinstall = NoToken)])
  /\ UNCHANGED <<status, bid, outcome, claimedBy, reinstall, issued, retired, media>>

\* ... and writes the row later, on the answer that snapshot gave.
ClaimWrite(r) ==
  /\ handler[r].pc = "write"
  /\ ClaimRow(r, handler[r].open)

-----------------------------------------------------------------------------
(***************************************************************************)
(* POST /api/instructions/<id>/result/                                     *)
(***************************************************************************)

\* Mutant: a body that does not validate is kept for the row all the same.
PreparedUnvalidated(i, body) == IF body = "error" THEN {"error"} ELSE {"value", "refused"}

\* What preparing a submitted body can end in: an error is stored as it is; a
\* result is stored, or hosted first, or refused as invalid.  Hosting can fail: that
\* fails the instruction, or one entry of a batch, which completes all the same.
Prepared(i, body) ==
  IF body = "error" THEN {"error"}
  ELSE IF i \in Captures THEN {"capture", "value", "error", "invalid"}
  ELSE {"value", "invalid"}

\* Mutant: the row refers to a capture that nobody stored.
SubmitResultUnstored(r, i, e, body) ==
  /\ handler[r].pc = "idle"
  /\ status[i] = "processing"
  /\ \E p \in Prepared(i, body) \ {"invalid"} :
       Continue(r, [Idle EXCEPT !.pc = "update", !.id = i, !.outcome = p, !.bid = e,
                                !.untargeted = (bid[i] = NoBid)])
  /\ UNCHANGED <<status, bid, outcome, claimedBy, reinstall, issued, retired, media>>

\* The row is read and the result prepared; e is the executor's bid.  store_media
\* writes the capture before the row refers to it, and before a later entry of the
\* same batch turns out to be invalid.
SubmitResult(r, i, e, body) ==
  /\ handler[r].pc = "idle"
  /\ \/ /\ status[i] \in {"absent", "pending"}
        /\ Respond(r, "rejected", <<>>, NoToken)
        /\ UNCHANGED media
     \/ /\ status[i] \in Terminal
        /\ Respond(r, "ok", <<>>, NoToken)
        /\ UNCHANGED media
     \/ /\ status[i] = "processing"
        /\ \E p \in Prepared(i, body) :
             IF p = "invalid"
               THEN /\ Respond(r, "rejected", <<>>, NoToken)
                    /\ media' \in {media, media \cup ({i} \cap Captures)}
               ELSE /\ Continue(r, [Idle EXCEPT
                         !.pc = "update", !.id = i, !.outcome = p, !.bid = e,
                         !.untargeted = (bid[i] = NoBid)])
                    /\ media' = IF p = "capture" THEN media \cup {i} ELSE media
  /\ UNCHANGED <<status, bid, outcome, claimedBy, reinstall, issued, retired>>

\* Mutant: the UPDATE trusts the status that was read.
CompleteUnconditionally(r) ==
  LET h == handler[r]
      i == h.id
  IN /\ h.pc = "update"
     /\ status' = [status EXCEPT ![i] = Lifecycle!StatusOf(h.outcome)]
     /\ outcome' = [outcome EXCEPT ![i] = h.outcome]
     /\ Respond(r, "ok", <<>>, NoToken)
     /\ UNCHANGED <<bid, claimedBy, reinstall, issued, retired, media>>

\* The conditional UPDATE on status = PROCESSING.  The executor's bid is written
\* when the row that was read had none; a row that is no longer processing is
\* left as it is and returned.
CompleteInstruction(r) ==
  LET h == handler[r]
      i == h.id
  IN /\ h.pc = "update"
     /\ IF status[i] = "processing"
          THEN /\ status' = [status EXCEPT ![i] = Lifecycle!StatusOf(h.outcome)]
               /\ outcome' = [outcome EXCEPT ![i] = h.outcome]
               /\ bid' = IF h.untargeted /\ h.bid # NoBid
                           THEN [bid EXCEPT ![i] = h.bid]
                           ELSE bid
          ELSE UNCHANGED <<status, outcome, bid>>
     /\ Respond(r, "ok", <<>>, NoToken)
     /\ UNCHANGED <<claimedBy, reinstall, issued, retired, media>>

-----------------------------------------------------------------------------
(***************************************************************************)
(* POST /api/reinstall/ and POST /api/reinstall/acknowledge/               *)
(***************************************************************************)

\* The UPDATE both handlers run: every processing row fails.
FailProcessing ==
  /\ status'  = [i \in Instructions |->
                   IF status[i] = "processing" THEN "failed" ELSE status[i]]
  /\ outcome' = [i \in Instructions |->
                   IF status[i] = "processing" THEN "reinstalled" ELSE outcome[i]]
  /\ UNCHANGED <<bid, claimedBy>>

\* get_or_create(pk=1).  A second insert waits for the first transaction to end.
GetOrCreateReinstall(r) ==
  LET created == reinstall = NoToken
      token == IF created THEN issued + 1 ELSE reinstall
  IN /\ handler[r].pc = "idle"
     /\ created => issued < MaxReinstalls /\ \A q \in Requests : ~handler[q].fresh
     /\ issued' = IF created THEN issued + 1 ELSE issued
     /\ Continue(r, [Idle EXCEPT !.pc = "recover", !.token = token, !.fresh = created])
     /\ UNCHANGED <<status, bid, outcome, claimedBy, reinstall, retired, media>>

\* Mutant: recovery is left to the acknowledgement.
CommitReinstallOnly(r) ==
  LET h == handler[r]
  IN /\ h.pc = "recover"
     /\ reinstall' = IF h.fresh THEN h.token ELSE reinstall
     /\ Respond(r, "accepted", <<>>, h.token)
     /\ UNCHANGED <<status, bid, outcome, claimedBy, issued, retired, media>>

\* Mutant: the row that was found is saved back, also when it is gone.
CommitReinstallSaved(r) ==
  LET h == handler[r]
  IN /\ h.pc = "recover"
     /\ FailProcessing
     /\ reinstall' = h.token
     /\ Respond(r, "accepted", <<>>, h.token)
     /\ UNCHANGED <<issued, retired, media>>

\* Processing rows fail and the transaction commits; the caller gets the token.
CommitReinstall(r) ==
  LET h == handler[r]
  IN /\ h.pc = "recover"
     /\ FailProcessing
     /\ reinstall' = IF h.fresh THEN h.token ELSE reinstall
     /\ Respond(r, "accepted", <<>>, h.token)
     /\ UNCHANGED <<issued, retired, media>>

\* The restarted extension acknowledges token t, in one transaction that locks
\* the Reinstall row first.
AcknowledgeReinstall(r, t) ==
  /\ handler[r].pc = "idle"
  /\ \/ /\ reinstall = NoToken
        /\ Respond(r, "ok", <<>>, NoToken)
        /\ UNCHANGED <<status, bid, outcome, claimedBy, reinstall, retired>>
     \/ /\ reinstall # NoToken
        /\ reinstall # t
        /\ Respond(r, "rejected", <<>>, NoToken)
        /\ UNCHANGED <<status, bid, outcome, claimedBy, reinstall, retired>>
     \/ /\ reinstall # NoToken
        /\ reinstall = t
        /\ FailProcessing
        /\ reinstall' = NoToken
        /\ retired' = retired \cup {t}
        /\ Respond(r, "ok", <<>>, NoToken)
  /\ UNCHANGED <<issued, media>>

-----------------------------------------------------------------------------
\* The response leaves the server; whether it arrives is not the server's concern.
SendReply(r) ==
  /\ handler[r].pc = "reply"
  /\ Continue(r, Idle)
  /\ UNCHANGED <<status, bid, outcome, claimedBy, reinstall, issued, retired, media>>

\* The process restarts, or a statement raises: the thread is gone, an open
\* transaction rolls back, and committed statements stay.
AbandonRequest(r) ==
  /\ handler[r].pc \notin {"idle", "reply"}
  /\ Continue(r, Idle)
  /\ UNCHANGED <<status, bid, outcome, claimedBy, reinstall, issued, retired, media>>

\* The statements of a request that has arrived.
Run(r) ==
  \/ SelectCandidate(r)
  \/ ClaimSerially(r)
  \/ ClaimSnapshot(r)
  \/ ClaimWrite(r)
  \/ CompleteInstruction(r)
  \/ CommitReinstall(r)
  \/ SendReply(r)

Arrive(r) ==
  \/ \E b \in Callers, n \in 1 .. MaxLimit : NextInstructions(r, b, n)
  \/ \E i \in Instructions, e \in Callers, body \in {"result", "error"} :
       SubmitResult(r, i, e, body)
  \/ GetOrCreateReinstall(r)
  \/ \E t \in 1 .. issued : AcknowledgeReinstall(r, t)

Next ==
  \/ \E i \in Instructions, b \in Callers : CreateInstruction(i, b)
  \/ \E r \in Requests : Arrive(r) \/ Run(r) \/ AbandonRequest(r)

Spec == Init /\ [][Next]_vars

\* A thread that has been scheduled keeps running.
FairSpec == Spec /\ \A r \in Requests : WF_vars(Run(r))
-----------------------------------------------------------------------------
TypeOK ==
  /\ status \in [Instructions -> Lifecycle!Statuses]
  /\ bid \in [Instructions -> Callers]
  /\ outcome \in [Instructions -> Lifecycle!Outcomes]
  /\ claimedBy \in [Instructions -> Seq(Callers)]
  /\ reinstall \in Nat
  /\ issued \in Nat
  /\ retired \in SUBSET Nat
  /\ media \in SUBSET Instructions
  /\ handler \in [Requests -> Handler]

\* An instruction is handed out at most once however many polls race for it, and
\* nothing is being worked on, or finished, that was not handed out: the claim's
\* conditional UPDATE is the only way out of "pending".
ClaimedAtMostOnce ==
  \A i \in Instructions :
    IF status[i] \in {"absent", "pending"}
      THEN claimedBy[i] = <<>>
      ELSE Len(claimedBy[i]) = 1

\* No instruction is in two poll responses, nor twice in one, and everything in
\* a response has left "pending".
BatchesDisjoint ==
  \A r, q \in Requests :
    \A j \in 1 .. Len(handler[r].batch), k \in 1 .. Len(handler[q].batch) :
      /\ status[handler[r].batch[j]] \notin {"absent", "pending"}
      /\ handler[r].batch[j] = handler[q].batch[k] => r = q /\ j = k

\* Polls that race hand every instruction out at most once, to one of them.
HandedOutOnce == ClaimedAtMostOnce /\ BatchesDisjoint

\* A row that says its result is hosted refers to a file that was written, also
\* when two submissions of the result race or the storing request dies.
HostedCaptureExists ==
  \A i \in Instructions : outcome[i] = "capture" => i \in media

\* A reinstall token whose row was acknowledged away is never pending again, so a
\* request to reinstall that overlaps an acknowledgement cannot restart the
\* browser a second time with the same token.
ReinstallRunsOnce == reinstall \notin retired

\* What a thread remembers at each statement: the row it is about to write, for a
\* result the outcome that was prepared, whose capture (if any) is on disk, and
\* whether the row was untargeted, which stays true while it is processing.
ThreadOK(r) ==
  LET h == handler[r]
  IN /\ h.pc \in {"claim", "write", "update"} => h.id \in Instructions
     /\ h.pc = "write" => ReadCommitted
     /\ h.pc = "update" =>
          /\ h.outcome \in {"value", "capture", "error"}
          /\ h.outcome = "capture" => h.id \in media
          /\ status[h.id] \notin {"absent", "pending"}
          /\ status[h.id] = "processing" => (h.untargeted <=> bid[h.id] = NoBid)

ThreadsOK == \A r \in Requests : ThreadOK(r)

\* At most one transaction holds an uncommitted Reinstall row, while none is
\* committed; its token is the newest and was never acknowledged.
ReinstallOK ==
  /\ reinstall <= issued
  /\ retired \subseteq 1 .. issued
  /\ reinstall \notin retired
  /\ \A r \in Requests : handler[r].fresh =>
       /\ handler[r].pc = "recover"
       /\ reinstall = NoToken
       /\ issued > 0
       /\ handler[r].token = issued
       /\ issued \notin retired
       /\ \A q \in Requests : handler[q].fresh => q = r

\* The inductive invariant.
IInv ==
  /\ TypeOK
  /\ ThreadsOK
  /\ ReinstallOK
  /\ ClaimedAtMostOnce
  /\ BatchesDisjoint
  /\ HostedCaptureExists

\* A completed or failed row is never written again: a retried, duplicated or late
\* result, and a recovery, all leave it as it is.
TerminalRowsSealed ==
  [][\A i \in Instructions :
       status[i] \in Terminal =>
         /\ status'[i] = status[i]
         /\ outcome'[i] = outcome[i]
         /\ bid'[i] = bid[i]]_table

\* The statements together implement the promise of InstructionLifecycle: one
\* claim by an eligible caller, one end, the executor recorded with the result.
ImplementsLifecycle == Lifecycle!Spec

\* SQLite only: while a reinstall is pending no instruction is claimed, also by a
\* poll that arrived before the request to reinstall.
NoClaimWhileReinstalling ==
  [][reinstall # NoToken => claimedBy' = claimedBy]_vars

\* SQLite only: while a reinstall is pending nothing is being processed, so that the
\* restart it causes interrupts no row that is not already marked failed.
NothingProcessingWhileReinstalling ==
  reinstall # NoToken => \A i \in Instructions : status[i] # "processing"

\* Every request is answered: in particular the claim loop of a poll ends however
\* many of its candidates other polls take.
RequestsAnswered ==
  \A r \in Requests : handler[r].pc # "idle" ~> handler[r].pc = "idle"
=============================================================================
