------------------------ MODULE InstructionLifecycle ------------------------
(***************************************************************************)
(* What the ACOB server promises about one instruction, with the handlers, *)
(* the polls and the races left out.  An instruction is submitted, handed  *)
(* to one browser that its target allows, and finished once: by a result,  *)
(* or by the recovery that follows a reinstall request.  A finished row    *)
(* never changes.                                                          *)
(***************************************************************************)
EXTENDS Sequences

CONSTANTS
  Instructions,   \* ids of the instructions that may be created
  Bids,           \* browser ids
  NoBid           \* the null bid: an untargeted row, an anonymous caller

VARIABLES
  status,         \* status[i]: where the row is in its life, "absent" before
  bid,            \* bid[i]: the target, and the executor of an untargeted row
  outcome,        \* outcome[i]: what the result and error columns hold
  claimedBy       \* claimedBy[i]: the callers the row was handed to, in order

lifecycleVars == <<status, bid, outcome, claimedBy>>

Statuses == {"absent", "pending", "processing", "completed", "failed"}
Terminal == {"completed", "failed"}
Outcomes == {"none", "value", "capture", "error", "reinstalled"}
Callers  == Bids \cup {NoBid}

\* Instruction.status that goes with a stored outcome.
StatusOf(o) == IF o \in {"error", "reinstalled"} THEN "failed" ELSE "completed"

\* A caller may take untargeted work and work targeted at its own bid.
Eligible(i, b) == bid[i] = NoBid \/ bid[i] = b

Init ==
  /\ status    = [i \in Instructions |-> "absent"]
  /\ bid       = [i \in Instructions |-> NoBid]
  /\ outcome   = [i \in Instructions |-> "none"]
  /\ claimedBy = [i \in Instructions |-> <<>>]

Submit(i, b) ==
  /\ status[i] = "absent"
  /\ status' = [status EXCEPT ![i] = "pending"]
  /\ bid' = [bid EXCEPT ![i] = b]
  /\ UNCHANGED <<outcome, claimedBy>>

\* A row is handed out once: only a pending row can be claimed.
Claim(i, b) ==
  /\ status[i] = "pending"
  /\ Eligible(i, b)
  /\ status' = [status EXCEPT ![i] = "processing"]
  /\ claimedBy' = [claimedBy EXCEPT ![i] = Append(@, b)]
  /\ UNCHANGED <<bid, outcome>>

\* A result ends a processing row; an untargeted row records who reported it.
Finish(i, b, o) ==
  /\ status[i] = "processing"
  /\ o \in {"value", "capture", "error"}
  /\ status' = [status EXCEPT ![i] = StatusOf(o)]
  /\ outcome' = [outcome EXCEPT ![i] = o]
  /\ bid' = [bid EXCEPT ![i] = IF @ = NoBid THEN b ELSE @]
  /\ UNCHANGED claimedBy

\* Recovery fails every processing row, and nothing else.
Interrupt ==
  /\ status'  = [i \in Instructions |->
                   IF status[i] = "processing" THEN "failed" ELSE status[i]]
  /\ outcome' = [i \in Instructions |->
                   IF status[i] = "processing" THEN "reinstalled" ELSE outcome[i]]
  /\ UNCHANGED <<bid, claimedBy>>

Next ==
  \/ \E i \in Instructions, b \in Callers : Submit(i, b) \/ Claim(i, b)
  \/ \E i \in Instructions, b \in Callers, o \in Outcomes : Finish(i, b, o)
  \/ Interrupt

Spec == Init /\ [][Next]_lifecycleVars
=============================================================================
