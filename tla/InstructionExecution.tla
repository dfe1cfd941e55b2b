------------------------- MODULE InstructionExecution -------------------------
(***************************************************************************)
(* What server and extensions together promise about one instruction: it   *)
(* is handed out after it was submitted, its action begins once, in a      *)
(* browser that its target allows, and its row ends once: by the report of *)
(* the browser that ran the action, which the row names from then on, or   *)
(* by the recovery that a reinstall brings, whether the action ran or not. *)
(***************************************************************************)
EXTENDS Sequences

CONSTANTS
  Instructions,
  Browsers,
  NoBrowser       \* no target

VARIABLES
  status, bid, outcome,   \* the row
  runs                    \* runs[i]: the browsers that began the action, in order

executionVars == <<status, bid, outcome, runs>>

Init ==
  /\ status  = [i \in Instructions |-> "absent"]
  /\ bid     = [i \in Instructions |-> NoBrowser]
  /\ outcome = [i \in Instructions |-> "none"]
  /\ runs    = [i \in Instructions |-> <<>>]

Submit(i, b) ==
  /\ status[i] = "absent"
  /\ status' = [status EXCEPT ![i] = "pending"]
  /\ bid' = [bid EXCEPT ![i] = b]
  /\ UNCHANGED <<outcome, runs>>

\* A batch is handed to w, which may never receive it.
HandOut(batch, w) ==
  /\ \A i \in batch : status[i] = "pending" /\ bid[i] \in {NoBrowser, w}
  /\ status' = [i \in Instructions |-> IF i \in batch THEN "processing" ELSE status[i]]
  /\ UNCHANGED <<bid, outcome, runs>>

\* w begins the actions of a batch; their rows may have ended by then.
Begin(batch, w) ==
  /\ \A i \in batch : /\ status[i] \notin {"absent", "pending"}
                      /\ runs[i] = <<>> /\ bid[i] \in {NoBrowser, w}
  /\ runs' = [i \in Instructions |-> IF i \in batch THEN <<w>> ELSE runs[i]]
  /\ UNCHANGED <<status, bid, outcome>>

\* The report of the browser that ran the action.
Report(i, w, o) ==
  /\ status[i] = "processing"
  /\ runs[i] = <<w>> /\ bid[i] \in {NoBrowser, w}
  /\ status' = [status EXCEPT ![i] = IF o = "error" THEN "failed" ELSE "completed"]
  /\ outcome' = [outcome EXCEPT ![i] = o]
  /\ bid' = [bid EXCEPT ![i] = w]
  /\ UNCHANGED runs

\* Recovery fails every processing row, and nothing else.
Interrupt ==
  /\ status'  = [i \in Instructions |->
                   IF status[i] = "processing" THEN "failed" ELSE status[i]]
  /\ outcome' = [i \in Instructions |->
                   IF status[i] = "processing" THEN "reinstalled" ELSE outcome[i]]
  /\ UNCHANGED <<bid, runs>>

Next ==
  \/ \E i \in Instructions, b \in Browsers \cup {NoBrowser} : Submit(i, b)
  \/ \E batch \in SUBSET Instructions, w \in Browsers : HandOut(batch, w) \/ Begin(batch, w)
  \/ \E i \in Instructions, w \in Browsers, o \in {"value", "error"} : Report(i, w, o)
  \/ Interrupt

Spec == Init /\ [][Next]_executionVars
=============================================================================
