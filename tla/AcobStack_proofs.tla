--------------------------- MODULE AcobStack_proofs ---------------------------
(***************************************************************************)
(* Proofs about AcobStack: its inductive invariant IInv, and from it that  *)
(* no action runs twice, that results name who ran them, that workers keep *)
(* to their limit, that they reload once per token, that nothing but a     *)
(* fault loses claimed work, and that all of it together implements        *)
(* InstructionExecution.                                                   *)
(***************************************************************************)
EXTENDS AcobStack, FiniteSetTheorems, WellFoundedInduction, TLAPS

(***************************************************************************)
(* The oldest of a set of instructions.                                    *)
(***************************************************************************)

\* A set of instructions that is not empty has a last one.
LEMMA LastOne ==
  ASSUME NEW S \in SUBSET Nat, IsFiniteSet(S), S # {}
  PROVE  \E m \in S : \A j \in S : j <= m
<1> DEFINE Above(i) == {j \in S : j > i}
           T == {Above(i) : i \in S}
<1>1. IsWellFoundedOn(StrictSubsetOrdering(S), FiniteSubsetsOf(S))
  BY FS_StrictSubsetOrderingWellFounded
<1>2. T \subseteq FiniteSubsetsOf(S) /\ T # {}
  <2>1. \A i \in S : Above(i) \in SUBSET S /\ IsFiniteSet(Above(i))
    BY FS_Subset
  <2>2. QED
    BY <2>1 DEF FiniteSubsetsOf
<1>3. PICK X \in T : \A Y \in T : ~ (<<Y, X>> \in StrictSubsetOrdering(S))
  <2> HIDE DEF T
  <2>1. QED
    BY <1>1, <1>2, WFMin
<1>4. PICK m \in S : X = Above(m)
  OBVIOUS
<1>5. \A k \in S : k <= m
  <2> SUFFICES ASSUME NEW k \in S, k > m
               PROVE  FALSE
    OBVIOUS
  <2>0. k \in Nat /\ m \in Nat /\ \A j \in S : j > k => j > m
    OBVIOUS
  <2>1. /\ Above(k) \subseteq Above(m)
        /\ k \in Above(m)
        /\ k \notin Above(k)
    <3>1. Above(k) \subseteq Above(m)
      BY <2>0
    <3>2. k \in Above(m)
      OBVIOUS
    <3>3. k \notin Above(k)
      BY <2>0
    <3>4. QED
      BY <3>1, <3>2, <3>3
  <2>2. /\ Above(k) \in SUBSET S /\ Above(m) \in SUBSET S /\ Above(k) \in T
        /\ Above(k) # Above(m) /\ X = Above(m)
    BY <2>1, <1>4
  <2> HIDE DEF Above, T
  <2>3. <<Above(k), X>> \in StrictSubsetOrdering(S)
    BY <2>1, <2>2 DEF StrictSubsetOrdering
  <2>4. QED
    BY <2>2, <2>3, <1>3
<1>6. QED
  BY <1>5

\* No more than n are among the n oldest.
LEMMA OldestBounded ==
  ASSUME NEW S \in SUBSET Nat, IsFiniteSet(S), NEW n \in Nat
  PROVE  IsFiniteSet(Oldest(n, S)) /\ Cardinality(Oldest(n, S)) \in 0 .. n
<1> DEFINE O == Oldest(n, S)
<1>1. O \in SUBSET S /\ IsFiniteSet(O) /\ Cardinality(O) \in Nat
  BY FS_Subset, FS_CardinalityType DEF Oldest
<1>2. CASE O = {}
  BY <1>1, <1>2, FS_EmptySet
<1>3. CASE O # {}
  <2>1. PICK m \in O : \A j \in O : j <= m
    <3> HIDE DEF O
    <3>1. QED
      BY <1>1, <1>3, LastOne
  <2> DEFINE B == {j \in S : j < m}
  <2>2. O \ {m} \subseteq B
    <3>1. \A j \in O : j <= m /\ j \in Nat /\ m \in Nat
      BY <1>1, <2>1
    <3>2. QED
      BY <1>1, <3>1
  <2>3. IsFiniteSet(B) /\ Cardinality(B) \in Nat /\ Cardinality(B) < n
    BY <2>1, FS_Subset, FS_CardinalityType DEF Oldest
  <2>4. Cardinality(O \ {m}) = Cardinality(O) - 1 /\ Cardinality(O \ {m}) <= Cardinality(B)
    <3> HIDE DEF O, B
    <3>1. QED
      BY <1>1, <2>1, <2>2, <2>3, FS_RemoveElement, FS_Subset
  <2>5. QED
    BY <1>1, <2>3, <2>4
<1>4. QED
  BY <1>2, <1>3

\* What a poll claims: pending rows for this browser, none while a reinstall is
\* pending, and never more than it asks for.
LEMMA BatchShape ==
  ASSUME Types, NEW w \in Browsers, NEW n \in Nat
  PROVE  /\ Batch(w, n) \in SUBSET Instructions
         /\ reinstall # NoToken => Batch(w, n) = {}
         /\ \A i \in Batch(w, n) :
              /\ status[i] = "pending" /\ bid[i] \in {NoBrowser, w}
              /\ Cardinality({j \in Batch(w, n) : j < i}) < n
<1>1. CASE reinstall # NoToken
  BY <1>1 DEF Batch
<1>2. CASE reinstall = NoToken
  <2> DEFINE C == Candidates(w)
  <2>1. C \in SUBSET Instructions /\ C \in SUBSET Nat /\ IsFiniteSet(C)
    BY StackAssumption, FS_Subset DEF Candidates
  <2>2. Batch(w, n) = {i \in C : Cardinality({j \in C : j < i}) < n}
    BY <1>2 DEF Batch, Oldest
  <2>3. ASSUME NEW i \in Batch(w, n)
        PROVE  Cardinality({j \in Batch(w, n) : j < i}) < n
    <3> DEFINE Older == {j \in C : j < i}
    <3>1. IsFiniteSet(Older) /\ Cardinality(Older) < n
      BY <2>1, <2>2, <2>3, FS_Subset
    <3>2. {j \in Batch(w, n) : j < i} \in SUBSET Older
      BY <2>2
    <3>3. QED
      BY <3>1, <3>2, FS_Subset, FS_CardinalityType
  <2>4. QED
    BY <1>2, <2>1, <2>2, <2>3 DEF Candidates
<1>3. QED
  BY <1>1, <1>2

(***************************************************************************)
(* What the server does to rows.                                           *)
(***************************************************************************)
RowTypes ==
  /\ status \in [Instructions -> {"absent", "pending", "processing"} \cup Terminal]
  /\ bid \in [Instructions -> Browsers \cup {NoBrowser}]
  /\ outcome \in [Instructions -> Bodies \cup {"none", "reinstalled"}]

\* A claimed row stays claimed and an ended one ended; its browser is changed only to
\* the one that ran it, and an outcome is only that one's.
RowsAdvance ==
  \A i \in Instructions :
    /\ status[i] \in Terminal => status'[i] \in Terminal
    /\ Claimed(i) => Claimed(i)'
    /\ runs[i] = <<>> => /\ Claimed(i) => bid'[i] = bid[i]
                         /\ outcome[i] \notin Bodies => outcome'[i] \notin Bodies
    /\ \A w \in Browsers : runs[i] = <<w>> /\ bid[i] \in {NoBrowser, w} /\ Claimed(i)
                           /\ (outcome[i] \in Bodies => bid[i] = w) =>
         /\ bid'[i] \in {NoBrowser, w}
         /\ outcome'[i] \in Bodies => bid'[i] = w

LEMMA RowsStay ==
  ASSUME rows' = rows
  PROVE  RowsAdvance /\ (RowTypes => RowTypes')
BY DEF rows, RowsAdvance, RowTypes, Claimed

LEMMA CreatedRows ==
  ASSUME RowTypes, RunsOK, NEW i \in Instructions, NEW b \in Browsers \cup {NoBrowser},
         CreateInstruction(i, b)
  PROVE  /\ RowTypes' /\ RowsAdvance
         /\ \A j \in Instructions : status'[j] = "processing" => status[j] = "processing"
<1>1. /\ status[i] = "absent" /\ status' = [status EXCEPT ![i] = "pending"]
      /\ bid' = [bid EXCEPT ![i] = b] /\ outcome' = outcome
  BY DEF CreateInstruction
<1>2. RowTypes'
  BY <1>1 DEF RowTypes
<1>3. ~ Claimed(i)
  BY <1>1 DEF Claimed, Terminal
<1>4. \A j \in Instructions : j # i => status'[j] = status[j] /\ bid'[j] = bid[j]
  BY <1>1 DEF RowTypes
<1>5. status'[i] = "pending"
  BY <1>1 DEF RowTypes
<1>6. RowsAdvance
  BY <1>1, <1>3, <1>4 DEF RowsAdvance, Claimed, Terminal
<1>7. QED
  BY <1>2, <1>4, <1>5, <1>6

LEMMA FailedRows ==
  ASSUME RowTypes, FailProcessing
  PROVE  /\ RowTypes' /\ RowsAdvance
         /\ \A i \in Instructions : status'[i] # "processing"
<1>1. \A i \in Instructions :
        /\ status'[i] = IF status[i] = "processing" THEN "failed" ELSE status[i]
        /\ outcome'[i] = IF status[i] = "processing" THEN "reinstalled" ELSE outcome[i]
        /\ bid' = bid
  BY DEF FailProcessing
<1>2. RowTypes'
  BY DEF RowTypes, FailProcessing, Terminal
<1>3. RowsAdvance
  BY <1>1 DEF RowsAdvance, Claimed, Terminal, Bodies
<1>4. QED
  BY <1>1, <1>2, <1>3

LEMMA ReportedRows ==
  ASSUME RowTypes, NEW w \in Browsers, NEW i \in Instructions, NEW body \in Bodies,
         runs[i] = <<w>>, StoreResult(w, i, body)
  PROVE  /\ RowTypes' /\ RowsAdvance
         /\ status'[i] # "processing"
         /\ \A j \in Instructions : status'[j] = "processing" => status[j] = "processing"
<1>1. CASE status[i] # "processing"
  <2>1. UNCHANGED <<status, bid, outcome>>
    BY <1>1 DEF StoreResult, rows
  <2>2. QED
    BY <1>1, <2>1, RowsStay DEF rows
<1>2. CASE status[i] = "processing"
  <2>1. /\ status' = [status EXCEPT ![i] = IF body = "error" THEN "failed" ELSE "completed"]
        /\ outcome' = [outcome EXCEPT ![i] = body]
        /\ bid' = [bid EXCEPT ![i] = IF bid[i] = NoBrowser THEN w ELSE bid[i]]
    BY <1>2 DEF StoreResult
  <2>2. RowTypes'
    BY <2>1 DEF RowTypes, Terminal
  <2>3. /\ \A j \in Instructions \ {i} :
             status'[j] = status[j] /\ bid'[j] = bid[j] /\ outcome'[j] = outcome[j]
        /\ status'[i] \in Terminal
        /\ bid'[i] = IF bid[i] = NoBrowser THEN w ELSE bid[i]
    BY <2>1 DEF RowTypes, Terminal
  <2>4. \A v \in Browsers : runs[i] = <<v>> => v = w
    OBVIOUS
  <2>5. runs[i] # <<>>
    OBVIOUS
  <2>6. RowsAdvance
    BY <2>3, <2>4, <2>5 DEF RowsAdvance, Claimed
  <2>7. QED
    BY <2>2, <2>3, <2>6 DEF Terminal
<1>3. QED
  BY <1>1, <1>2

LEMMA ClaimedRows ==
  ASSUME Types, NEW w \in Browsers, NEW n \in Nat, ClaimBatch(w, n), UNCHANGED <<bid, outcome>>
  PROVE  /\ RowTypes' /\ RowsAdvance
         /\ \A i \in Batch(w, n) : status'[i] = "processing"
         /\ \A i \in Instructions \ Batch(w, n) : status'[i] = status[i]
<1>1. /\ status' = [i \in Instructions |-> IF i \in Batch(w, n) THEN "processing" ELSE status[i]]
      /\ bid' = bid /\ outcome' = outcome
  BY DEF ClaimBatch
<1>2. \A i \in Batch(w, n) : status[i] = "pending" /\ i \in Instructions
  BY BatchShape
<1>3. RowTypes'
  BY <1>1 DEF Types, RowTypes
<1>4. RowsAdvance
  BY <1>1, <1>2 DEF RowsAdvance, Claimed, Terminal
<1>5. QED
  BY <1>1, <1>2, <1>3, <1>4

(***************************************************************************)
(* What keeps the parts of the invariant.                                  *)
(***************************************************************************)
LEMMA RunsKept ==
  ASSUME RunsOK, RowsAdvance, runs' = runs
  PROVE  RunsOK'
<1> SUFFICES ASSUME NEW i \in Instructions
             PROVE  \/ runs[i] = <<>> /\ outcome'[i] \notin Bodies
                    \/ \E w \in Browsers :
                         /\ runs[i] = <<w>> /\ Claimed(i)' /\ bid'[i] \in {NoBrowser, w}
                         /\ outcome'[i] \in Bodies => bid'[i] = w
  BY DEF RunsOK, Claimed
<1>1. CASE runs[i] = <<>> /\ outcome[i] \notin Bodies
  BY <1>1 DEF RowsAdvance
<1>2. ASSUME NEW w \in Browsers,
             runs[i] = <<w>> /\ Claimed(i) /\ bid[i] \in {NoBrowser, w},
             outcome[i] \in Bodies => bid[i] = w
      PROVE  /\ Claimed(i)' /\ bid'[i] \in {NoBrowser, w}
             /\ outcome'[i] \in Bodies => bid'[i] = w
  BY <1>2 DEF RowsAdvance
<1>3. QED
  BY <1>1, <1>2 DEF RunsOK

LEMMA BatchesKept ==
  ASSUME BatchesOK, RowsAdvance, runs' = runs, poll \in [Browsers -> Polls],
         \A w \in Browsers : poll'[w] = poll[w] \/ poll'[w].batch = {}
  PROVE  BatchesOK'
<1> SUFFICES ASSUME NEW w \in Browsers, NEW i \in poll'[w].batch
             PROVE  /\ poll'[w].step = "answered"
                    /\ runs[i] = <<>> /\ Claimed(i)' /\ bid'[i] \in {NoBrowser, w}
                    /\ \A v \in Browsers \ {w} : i \notin poll'[v].batch
                    /\ Cardinality({j \in poll'[w].batch : j < i}) < poll'[w].limit
  BY DEF BatchesOK, Claimed
<1>1. poll'[w] = poll[w] /\ i \in poll[w].batch /\ i \in Instructions
  BY DEF Polls
<1>2. /\ poll[w].step = "answered"
      /\ runs[i] = <<>> /\ Claimed(i) /\ bid[i] \in {NoBrowser, w}
      /\ \A v \in Browsers \ {w} : i \notin poll[v].batch
      /\ Cardinality({j \in poll[w].batch : j < i}) < poll[w].limit
  BY <1>1 DEF BatchesOK
<1>3. Claimed(i)' /\ bid'[i] = bid[i]
  BY <1>1, <1>2 DEF RowsAdvance
<1>4. QED
  BY <1>1, <1>2, <1>3

\* A response with pending rows joins the others.
LEMMA BatchesGrow ==
  ASSUME RunsOK, BatchesOK, RowsAdvance, runs' = runs, bid' = bid, poll \in [Browsers -> Polls],
         NEW w \in Browsers, NEW B \in SUBSET Instructions,
         \A i \in B : /\ status[i] = "pending" /\ bid[i] \in {NoBrowser, w}
                      /\ Cardinality({j \in B : j < i}) < poll[w].limit
                      /\ status'[i] = "processing",
         poll'[w].step = "answered", poll'[w].batch = B, poll'[w].limit = poll[w].limit,
         \A v \in Browsers \ {w} : poll'[v] = poll[v]
  PROVE  BatchesOK'
<1>1. ASSUME NEW i \in B
      PROVE  /\ runs[i] = <<>> /\ Claimed(i)' /\ bid'[i] \in {NoBrowser, w}
             /\ \A v \in Browsers : i \notin poll[v].batch
  <2>1. ~ Claimed(i) /\ i \in Instructions
    BY <1>1 DEF Claimed, Terminal
  <2>2. runs[i] = <<>> /\ \A v \in Browsers : i \notin poll[v].batch
    BY <2>1 DEF RunsOK, BatchesOK
  <2>3. Claimed(i)'
    BY <1>1 DEF Claimed
  <2>4. QED
    BY <1>1, <2>2, <2>3
<1>2. ASSUME NEW v \in Browsers \ {w}, NEW i \in poll[v].batch
      PROVE  /\ poll[v].step = "answered"
             /\ runs[i] = <<>> /\ Claimed(i)' /\ bid'[i] \in {NoBrowser, v}
             /\ \A u \in Browsers \ {v} : i \notin poll[u].batch
             /\ Cardinality({j \in poll[v].batch : j < i}) < poll[v].limit
             /\ i \notin B
  <2>1. /\ poll[v].step = "answered"
        /\ runs[i] = <<>> /\ Claimed(i) /\ bid[i] \in {NoBrowser, v}
        /\ \A u \in Browsers \ {v} : i \notin poll[u].batch
        /\ Cardinality({j \in poll[v].batch : j < i}) < poll[v].limit
    BY <1>2 DEF BatchesOK
  <2>2. i \in Instructions
    BY <1>2 DEF Polls
  <2>3. Claimed(i)' /\ bid'[i] = bid[i]
    BY <2>1, <2>2 DEF RowsAdvance
  <2>4. QED
    BY <1>1, <2>1, <2>3
<1> SUFFICES ASSUME NEW v \in Browsers, NEW i \in poll'[v].batch
             PROVE  /\ poll'[v].step = "answered"
                    /\ runs[i] = <<>> /\ Claimed(i)' /\ bid'[i] \in {NoBrowser, v}
                    /\ \A u \in Browsers \ {v} : i \notin poll'[u].batch
                    /\ Cardinality({j \in poll'[v].batch : j < i}) < poll'[v].limit
  BY DEF BatchesOK, Claimed
<1>3. CASE v = w
  <2>1. i \in B
    BY <1>3
  <2>2. \A u \in Browsers \ {v} : i \notin poll'[u].batch
    BY <1>1, <1>3, <2>1
  <2>3. Cardinality({j \in poll'[v].batch : j < i}) < poll'[v].limit /\ poll'[v].step = "answered"
    BY <1>3, <2>1
  <2>4. QED
    BY <1>1, <1>3, <2>1, <2>2, <2>3
<1>4. CASE v # w
  <2>1. poll'[v] = poll[v] /\ i \in poll[v].batch /\ v \in Browsers \ {w}
    BY <1>4
  <2>2. i \notin B /\ \A u \in Browsers \ {v} : i \notin poll[u].batch
    BY <1>2, <2>1
  <2>3. \A u \in Browsers \ {v} : i \notin poll'[u].batch
    BY <2>2
  <2>4. QED
    BY <1>2, <2>1, <2>3
<1>5. QED
  BY <1>3, <1>4

LEMMA TasksKept ==
  ASSUME TasksOK, RowsAdvance, runs' = runs,
         \A w \in Browsers : poll'[w].step \in {"commanded", "reinstalling"} =>
                               poll[w].step \in {"commanded", "reinstalling"},
         \A w \in Browsers, i \in Instructions :
           \/ task'[w][i] = NoTask \/ task'[w][i] = task[w][i]
           \/ /\ task[w][i].step # "none" /\ task'[w][i].step # "none" /\ task'[w][i].counted
              /\ task'[w][i].body \in Bodies
  PROVE  TasksOK'
<1> SUFFICES ASSUME NEW w \in Browsers, NEW i \in Instructions, task'[w][i] # NoTask
             PROVE  /\ task'[w][i].step # "none" /\ task'[w][i].counted /\ runs[i] = <<w>>
                    /\ task'[w][i].step # "running" => task'[w][i].body \in Bodies
                    /\ poll'[w].step \in {"commanded", "reinstalling"} => status'[i] \in Terminal
  BY DEF TasksOK, NoTask
<1>1. task[w][i].step # "none" \/ task'[w][i] = task[w][i]
  OBVIOUS
<1>2. task[w][i] # NoTask
  BY <1>1 DEF NoTask
<1>3. /\ task[w][i].step # "none" /\ task[w][i].counted /\ runs[i] = <<w>>
      /\ task[w][i].step # "running" => task[w][i].body \in Bodies
      /\ poll[w].step \in {"commanded", "reinstalling"} => status[i] \in Terminal
  BY <1>2 DEF TasksOK
<1>4. /\ task'[w][i].step # "none" /\ task'[w][i].counted
      /\ task'[w][i].step # "running" => task'[w][i].body \in Bodies
  BY <1>3
<1>5. poll'[w].step \in {"commanded", "reinstalling"} => status'[i] \in Terminal
  BY <1>3 DEF RowsAdvance
<1>6. QED
  BY <1>3, <1>4, <1>5

LEMMA StraysKept ==
  ASSUME StraysOK, stray' \subseteq stray, runs' = runs, faults' = faults
  PROVE  StraysOK'
BY DEF StraysOK

(***************************************************************************)
(* Steps of clients and of the server: only rows, the token and requests   *)
(* nobody waits for change.                                                *)
(***************************************************************************)
LEMMA TokenShape ==
  ASSUME IInv, issued' \in 0 .. MaxUpsets,
         \/ reinstall' = reinstall /\ issued' = issued
         \/ reinstall' = NoToken /\ issued' = issued
         \/ reinstall = NoToken /\ reinstall' = issued + 1 /\ issued' = issued + 1
  PROVE  /\ reinstall' \in {NoToken, issued'} /\ issued \in Nat /\ issued' \in Nat
         /\ issued' >= issued
         /\ \A t \in 0 .. issued : t # NoToken /\ reinstall # t => reinstall' # t
BY StackAssumption DEF IInv, Types, NoToken

LEMMA ServerStepKeeps ==
  ASSUME IInv, RowTypes', RowsAdvance, issued' \in 0 .. MaxUpsets,
         \/ reinstall' = reinstall /\ issued' = issued
         \/ reinstall' = NoToken /\ issued' = issued
         \/ reinstall = NoToken /\ reinstall' = issued + 1 /\ issued' = issued + 1,
         stray' \subseteq stray, UNCHANGED <<worker, runs, reloads, faults>>,
         faults = 0 => \A i \in Instructions :
                         status'[i] = "processing" => status[i] = "processing",
         QuietOK'
  PROVE  IInv'
<1>1. /\ UNCHANGED <<poll, active, scheduled, task, stored, runs, reloads, faults>>
      /\ poll \in [Browsers -> Polls] /\ StraysOK /\ RunsOK /\ BatchesOK /\ TasksOK
      /\ CountsOK /\ TokensOK /\ ReloadsOK /\ NoLostWork
  BY DEF IInv, Types, worker
<1>2. /\ reinstall' \in {NoToken, issued'} /\ issued \in Nat /\ issued' \in Nat
      /\ issued' >= issued
      /\ \A t \in 0 .. issued : t # NoToken /\ reinstall # t => reinstall' # t
  BY TokenShape
<1>3. Types'
  <2>1. stray' \in SUBSET Requests
    BY DEF IInv, Types
  <2>2. /\ poll' \in [Browsers -> Polls] /\ active' \in [Browsers -> Nat]
        /\ scheduled' \in [Browsers -> BOOLEAN] /\ task' \in [Browsers -> [Instructions -> Tasks]]
        /\ stored' \in [Browsers -> Nat] /\ runs' \in [Instructions -> Seq(Browsers)]
        /\ reloads' \in [Browsers -> Seq(Nat)] /\ faults' \in Nat
    BY <1>1 DEF IInv, Types
  <2>3. QED
    BY <1>2, <2>1, <2>2 DEF RowTypes, Types
<1>4. RunsOK'
  BY <1>1, RunsKept
<1>5. BatchesOK'
  BY <1>1, BatchesKept
<1>6. TasksOK'
  BY <1>1, TasksKept
<1>7. StraysOK'
  BY <1>1, StraysKept
<1>8. CountsOK'
  BY <1>1 DEF CountsOK
<1>9. TokensOK'
  <2>1. \A w \in Browsers : stored[w] \in Nat /\ poll[w].limit \in Nat
    BY <1>1 DEF IInv, Types, Polls
  <2>2. \A w \in Browsers : stored'[w] <= issued'
    BY <1>1, <1>2, <2>1 DEF TokensOK
  <2>3. \A w \in Browsers : poll[w].step = "acknowledged" => reinstall' # stored[w]
    <3>1. \A w \in Browsers : poll[w].step = "acknowledged" =>
             stored[w] \in 0 .. issued /\ stored[w] # NoToken /\ reinstall # stored[w]
      BY <1>1, <1>2, <2>1 DEF TokensOK
    <3>2. QED
      BY <1>2, <3>1
  <2>4. \A w \in Browsers : poll[w].step = "commanded" => poll[w].limit \in 1 .. issued'
    BY <1>1, <1>2, <2>1 DEF TokensOK
  <2>5. QED
    BY <1>1, <2>2, <2>3, <2>4 DEF TokensOK
<1>10. ReloadsOK'
  <2> SUFFICES ASSUME NEW w \in Browsers, NEW k \in 1 .. Len(reloads[w])
               PROVE  /\ reloads[w][k] \in 1 .. issued'
                      /\ reinstall' # reloads[w][k] \/ stored[w] = reloads[w][k]
                      /\ \A j \in 1 .. Len(reloads[w]) : reloads[w][j] = reloads[w][k] => j = k
    BY <1>1 DEF ReloadsOK
  <2>1. /\ reloads[w][k] \in 1 .. issued
        /\ reinstall # reloads[w][k] \/ stored[w] = reloads[w][k]
        /\ \A j \in 1 .. Len(reloads[w]) : reloads[w][j] = reloads[w][k] => j = k
    BY <1>1 DEF ReloadsOK
  <2>2. reinstall # reloads[w][k] => reinstall' # reloads[w][k]
    BY <1>2, <2>1 DEF NoToken
  <2>3. QED
    BY <1>2, <2>1, <2>2
<1>11. NoLostWork'
  BY <1>1 DEF NoLostWork, Reporting
<1>12. QED
  BY <1>3, <1>4, <1>5, <1>6, <1>7, <1>8, <1>9, <1>10, <1>11 DEF IInv

LEMMA TypesOfRows ==
  ASSUME IInv
  PROVE  /\ RowTypes /\ RunsOK /\ Types /\ issued \in 0 .. MaxUpsets /\ issued \in Nat
         /\ reinstall \in {NoToken, issued} /\ stray \in SUBSET Requests /\ faults \in Nat
BY StackAssumption DEF IInv, Types, RowTypes

LEMMA CreateKeeps ==
  ASSUME IInv, NEW i \in Instructions, NEW b \in Browsers \cup {NoBrowser}, CreateInstruction(i, b)
  PROVE  IInv'
<1>1. UNCHANGED <<reinstall, issued, stray, worker, runs, reloads, faults>>
  BY DEF CreateInstruction
<1>2. /\ RowTypes' /\ RowsAdvance
      /\ \A j \in Instructions : status'[j] = "processing" => status[j] = "processing"
  BY TypesOfRows, CreatedRows
<1>3. QuietOK'
  BY <1>1, <1>2 DEF IInv, QuietOK
<1>4. QED
  BY <1>1, <1>2, <1>3, TypesOfRows, ServerStepKeeps

LEMMA RequestReinstallKeeps ==
  ASSUME IInv, RequestReinstall
  PROVE  IInv'
<1>1. /\ UNCHANGED <<stray, worker, runs, reloads, faults>> /\ FailProcessing
      /\ \/ reinstall' = reinstall /\ issued' = issued
         \/ /\ reinstall = NoToken /\ reinstall' = issued + 1 /\ issued' = issued + 1
            /\ issued + faults < MaxUpsets
  BY DEF RequestReinstall
<1>2. RowTypes' /\ RowsAdvance /\ \A i \in Instructions : status'[i] # "processing"
  BY <1>1, TypesOfRows, FailedRows
<1>3. issued' \in 0 .. MaxUpsets
  BY <1>1, TypesOfRows, StackAssumption
<1>4. QuietOK'
  BY <1>2 DEF QuietOK
<1>5. QED
  BY <1>1, <1>2, <1>3, <1>4, TypesOfRows, ServerStepKeeps

\* An acknowledgement ends what is processing, or changes nothing.
LEMMA AcknowledgedRows ==
  ASSUME IInv, NEW t, Acknowledge(t)
  PROVE  /\ RowTypes' /\ RowsAdvance
         /\ reinstall' = reinstall \/ reinstall' = NoToken
         /\ \A i \in Instructions : status'[i] = "processing" => status[i] = "processing"
         /\ reinstall' # t \/ t = NoToken
<1>1. CASE reinstall = t
  <2>1. FailProcessing /\ reinstall' = NoToken
    BY <1>1 DEF Acknowledge
  <2>2. QED
    BY <1>1, <2>1, TypesOfRows, FailedRows
<1>2. CASE reinstall # t
  <2>1. rows' = rows /\ reinstall' = reinstall
    BY <1>2 DEF Acknowledge
  <2>2. QED
    BY <1>2, <2>1, TypesOfRows, RowsStay DEF rows
<1>3. QED
  BY <1>1, <1>2

LEMMA HandleStrayKeeps ==
  ASSUME IInv, NEW m \in stray, HandleStray(m)
  PROVE  IInv'
<1>1. /\ stray' \subseteq stray /\ UNCHANGED <<issued, worker, runs, reloads, faults>>
      /\ m \in Requests /\ m.from \in Browsers /\ m.arg \in Nat
  BY TypesOfRows DEF HandleStray, Requests
<1>2. \/ m.kind = "result" /\ m.arg \in Instructions /\ m.body \in Bodies /\ runs[m.arg] = <<m.from>>
      \/ m.kind # "result" /\ faults > 0
  BY DEF IInv, StraysOK
<1>3. CASE m.kind = "poll" /\ ClaimBatch(m.from, m.arg) /\ UNCHANGED <<bid, outcome, reinstall>>
  <2>1. /\ RowTypes' /\ RowsAdvance
        /\ \A i \in Instructions \ Batch(m.from, m.arg) : status'[i] = status[i]
    BY <1>1, <1>3, TypesOfRows, ClaimedRows
  <2>2. faults # 0
    BY <1>2, <1>3, TypesOfRows
  <2>3. QuietOK'
    BY <1>1, <1>3, <2>1, TypesOfRows, BatchShape DEF QuietOK, IInv
  <2>4. QED
    BY <1>1, <1>3, <2>1, <2>2, <2>3, TypesOfRows, ServerStepKeeps
<1>4. CASE m.kind = "acknowledge" /\ Acknowledge(m.arg)
  <2>1. /\ RowTypes' /\ RowsAdvance
        /\ reinstall' = reinstall \/ reinstall' = NoToken
        /\ \A i \in Instructions : status'[i] = "processing" => status[i] = "processing"
    BY <1>4, AcknowledgedRows
  <2>2. QuietOK'
    BY <2>1 DEF QuietOK, IInv
  <2>3. QED
    BY <1>1, <2>1, <2>2, TypesOfRows, ServerStepKeeps
<1>5. CASE m.kind = "result" /\ StoreResult(m.from, m.arg, m.body) /\ UNCHANGED reinstall
  <2>1. /\ RowTypes' /\ RowsAdvance
        /\ \A i \in Instructions : status'[i] = "processing" => status[i] = "processing"
    BY <1>1, <1>2, <1>5, TypesOfRows, ReportedRows
  <2>2. QuietOK'
    BY <1>5, <2>1 DEF QuietOK, IInv
  <2>3. QED
    BY <1>1, <1>5, <2>1, <2>2, TypesOfRows, ServerStepKeeps
<1>6. QED
  BY <1>3, <1>4, <1>5 DEF HandleStray

LEMMA LoseStrayKeeps ==
  ASSUME IInv, NEW m \in stray, LoseStray(m)
  PROVE  IInv'
<1>1. /\ stray' \subseteq stray /\ UNCHANGED <<rows, reinstall, issued, worker, runs, reloads, faults>>
  BY DEF LoseStray, server, rows
<1>2. RowTypes' /\ RowsAdvance
  BY <1>1, RowsStay, TypesOfRows
<1>3. QuietOK' /\ status' = status
  BY <1>1 DEF IInv, QuietOK, rows
<1>4. QED
  BY <1>1, <1>2, <1>3, TypesOfRows, ServerStepKeeps

(***************************************************************************)
(* Steps of poll() that neither claim nor start anything.                  *)
(***************************************************************************)

\* What a worker gives up: reports of what it ran, and requests of its poll().
LEMMA UnhandledShape ==
  ASSUME IInv, NEW w \in Browsers
  PROVE  /\ Unhandled(w) \in SUBSET Requests
         /\ \A m \in Unhandled(w) :
              \/ m.kind = "result" /\ m.arg \in Instructions /\ m.body \in Bodies
                 /\ runs[m.arg] = <<m.from>>
              \/ m.kind # "result" /\ poll[w].step \in {"asking", "acknowledging"}
<1>1. /\ poll[w] \in Polls /\ poll[w].limit \in Nat /\ stored[w] \in Nat
      /\ \A i \in Instructions : task[w][i] \in Tasks
  BY DEF IInv, Types, Polls
<1>2. ASSUME NEW i \in Instructions, task[w][i].step = "posting"
      PROVE  task[w][i].body \in Bodies /\ runs[i] = <<w>>
  BY <1>2 DEF IInv, TasksOK, NoTask
<1>3. Instructions \subseteq Nat
  BY StackAssumption
<1>4. ASSUME NEW m \in Unhandled(w)
      PROVE  /\ m \in Requests
             /\ \/ m.kind = "result" /\ m.arg \in Instructions /\ m.body \in Bodies
                   /\ runs[m.arg] = <<m.from>>
                \/ m.kind # "result" /\ poll[w].step \in {"asking", "acknowledging"}
  <2>1. CASE /\ m = [kind |-> "poll", from |-> w, arg |-> poll[w].limit, body |-> "none"]
             /\ poll[w].step = "asking"
    BY <2>1, <1>1 DEF Requests
  <2>2. CASE /\ m = [kind |-> "acknowledge", from |-> w, arg |-> stored[w], body |-> "none"]
             /\ poll[w].step = "acknowledging"
    BY <2>2, <1>1 DEF Requests
  <2>3. CASE \E i \in Instructions :
               /\ task[w][i].step = "posting"
               /\ m = [kind |-> "result", from |-> w, arg |-> i, body |-> task[w][i].body]
    BY <2>3, <1>2, <1>3 DEF Requests
  <2>4. QED
    BY <1>4, <2>1, <2>2, <2>3 DEF Unhandled
<1>5. QED
  BY <1>4

LEMMA RowsQuiet ==
  ASSUME IInv, UNCHANGED <<server, runs>>
  PROVE  /\ rows' = rows /\ reinstall' = reinstall /\ issued' = issued /\ runs' = runs
         /\ RowTypes' /\ RowsAdvance /\ RunsOK' /\ QuietOK'
<1>1. rows' = rows /\ reinstall' = reinstall /\ issued' = issued /\ runs' = runs
  BY DEF server, rows
<1>2. RowTypes' /\ RowsAdvance
  BY <1>1, RowsStay, TypesOfRows
<1>3. RunsOK'
  BY <1>1, <1>2, RunsKept DEF IInv
<1>4. QuietOK'
  BY <1>1 DEF IInv, QuietOK, rows
<1>5. QED
  BY <1>1, <1>2, <1>3, <1>4

LEMMA PollStepKeeps ==
  ASSUME IInv, NEW w \in Browsers, NEW p \in Polls,
         poll' = [poll EXCEPT ![w] = p],
         UNCHANGED <<server, active, task, runs, reloads>>,
         \/ stray' = stray /\ faults' = faults
         \/ stray' \subseteq stray \cup Unhandled(w) /\ faults' = faults + 1,
         p.batch = {}, poll[w].batch = {} \/ faults' # faults,
         p.step \in {"commanded", "reinstalling"} =>
           \/ poll[w].step \in {"commanded", "reinstalling"}
           \/ \A i \in Instructions : status[i] # "processing",
         p.step \in {"asking", "answered"} => active[w] + p.limit <= MaxConcurrent,
         stored' \in [Browsers -> Nat], scheduled' \in [Browsers -> BOOLEAN],
         \A v \in Browsers \ {w} : stored'[v] = stored[v] /\ scheduled'[v] = scheduled[v],
         stored'[w] <= issued,
         p.step \in {"ready", "asking", "answered", "commanded"} => stored'[w] = NoToken,
         p.step \in {"acknowledging", "acknowledged"} => stored'[w] # NoToken,
         p.step = "acknowledged" => reinstall # stored'[w],
         p.step = "commanded" => /\ p.limit \in 1 .. issued
                                 /\ \A k \in 1 .. Len(reloads[w]) : reloads[w][k] # p.limit,
         p.step = "reinstalling" => /\ stored'[w] # NoToken
                                    /\ \A k \in 1 .. Len(reloads[w]) : reloads[w][k] # stored'[w],
         scheduled'[w] => p.step = "reinstalling",
         \A k \in 1 .. Len(reloads[w]) : reinstall # reloads[w][k] \/ stored'[w] = reloads[w][k]
  PROVE  IInv'
<1>1. /\ rows' = rows /\ reinstall' = reinstall /\ issued' = issued /\ runs' = runs
      /\ RowTypes' /\ RowsAdvance /\ RunsOK' /\ QuietOK'
  BY RowsQuiet
<1>2. /\ active' = active /\ task' = task /\ reloads' = reloads /\ faults \in Nat
      /\ poll \in [Browsers -> Polls]
      /\ BatchesOK /\ TasksOK /\ StraysOK /\ CountsOK /\ TokensOK /\ ReloadsOK /\ NoLostWork
  BY DEF IInv, Types
<1>3. /\ poll' \in [Browsers -> Polls] /\ poll'[w] = p
      /\ \A v \in Browsers \ {w} : poll'[v] = poll[v]
  BY <1>2
<1>4. Types'
  <2>1. stray' \in SUBSET Requests /\ faults' \in Nat
    BY <1>2, TypesOfRows, UnhandledShape
  <2>2. /\ active' \in [Browsers -> Nat] /\ task' \in [Browsers -> [Instructions -> Tasks]]
        /\ runs' \in [Instructions -> Seq(Browsers)] /\ reloads' \in [Browsers -> Seq(Nat)]
    BY <1>1, <1>2 DEF IInv, Types
  <2>3. QED
    BY <1>1, <1>3, <2>1, <2>2, TypesOfRows DEF Types, RowTypes
<1>5. BatchesOK'
  <2>1. \A v \in Browsers : poll'[v] = poll[v] \/ poll'[v].batch = {}
    BY <1>3
  <2>2. QED
    BY <1>1, <1>2, <2>1, BatchesKept
<1>6. TasksOK'
  <2>1. CASE \A v \in Browsers : poll'[v].step \in {"commanded", "reinstalling"} =>
                                    poll[v].step \in {"commanded", "reinstalling"}
    BY <1>1, <1>2, <2>1, TasksKept
  <2>2. CASE \A i \in Instructions : status[i] # "processing"
    <3>1. \A v \in Browsers, i \in Instructions : runs[i] = <<v>> => status[i] \in Terminal
      <4> SUFFICES ASSUME NEW v \in Browsers, NEW i \in Instructions, runs[i] = <<v>>
                   PROVE  status[i] \in Terminal
        OBVIOUS
      <4>1. runs[i] # <<>>
        OBVIOUS
      <4>2. Claimed(i)
        BY <4>1 DEF IInv, RunsOK
      <4>3. QED
        BY <2>2, <4>2 DEF Claimed
    <3>2. status' = status
      BY <1>1 DEF rows
    <3>3. QED
      BY <1>1, <1>2, <3>1, <3>2 DEF TasksOK
  <2>3. QED
    BY <1>3, <2>1, <2>2
<1>7. StraysOK'
  <2>1. \A m \in stray' : m \in stray \/ (m \in Unhandled(w) /\ faults' > 0)
    BY <1>2
  <2>2. \A m \in Unhandled(w) : m.kind = "result" =>
          m.arg \in Instructions /\ m.body \in Bodies /\ runs[m.arg] = <<m.from>>
    BY UnhandledShape
  <2>3. faults' >= faults
    BY <1>2
  <2>4. QED
    BY <1>1, <1>2, <2>1, <2>2, <2>3 DEF StraysOK
<1>8. CountsOK'
  <2> SUFFICES ASSUME NEW v \in Browsers
               PROVE  /\ active[v] = Cardinality({i \in Instructions : task[v][i].counted})
                      /\ active[v] <= MaxConcurrent
                      /\ poll'[v].step \in {"asking", "answered"} =>
                           active[v] + poll'[v].limit <= MaxConcurrent
    <3>1. active' = active /\ task' = task
      BY <1>2
    <3>2. \A v \in Browsers : {i \in Instructions : task'[v][i].counted}
                               = {i \in Instructions : task[v][i].counted}
      BY <3>1
    <3>3. \A v \in Browsers :
            /\ active'[v] = Cardinality({i \in Instructions : task'[v][i].counted})
            /\ active'[v] <= MaxConcurrent
            /\ poll'[v].step \in {"asking", "answered"} =>
                 active'[v] + poll'[v].limit <= MaxConcurrent
      BY <3>1, <3>2
    <3>4. QED
      BY <3>3 DEF CountsOK
  <2>1. CASE v = w
    BY <1>2, <1>3, <2>1 DEF CountsOK
  <2>2. CASE v # w
    BY <1>2, <1>3, <2>2 DEF CountsOK
  <2>3. QED
    BY <2>1, <2>2
<1>9. TokensOK'
  BY <1>1, <1>2, <1>3 DEF TokensOK
<1>10. ReloadsOK'
  <2> SUFFICES ASSUME NEW v \in Browsers, NEW k \in 1 .. Len(reloads[v])
               PROVE  /\ reloads[v][k] \in 1 .. issued
                      /\ reinstall # reloads[v][k] \/ stored'[v] = reloads[v][k]
                      /\ \A j \in 1 .. Len(reloads[v]) : reloads[v][j] = reloads[v][k] => j = k
    BY <1>1, <1>2 DEF ReloadsOK
  <2>1. /\ reloads[v][k] \in 1 .. issued
        /\ reinstall # reloads[v][k] \/ stored[v] = reloads[v][k]
        /\ \A j \in 1 .. Len(reloads[v]) : reloads[v][j] = reloads[v][k] => j = k
    BY <1>2 DEF ReloadsOK
  <2>2. QED
    BY <2>1
<1>11. NoLostWork'
  <2> SUFFICES ASSUME faults' = 0, NEW i \in Instructions, status'[i] = "processing"
               PROVE  Reporting(i)'
    BY DEF NoLostWork
  <2>1. faults = 0 /\ faults' = faults /\ status[i] = "processing"
    BY <1>1, <1>2 DEF rows
  <2>2. PICK v \in Browsers : i \in poll[v].batch \/ task[v][i].step \in {"running", "posting"}
    BY <1>2, <2>1 DEF NoLostWork, Reporting
  <2>3. i \in poll'[v].batch \/ task'[v][i].step \in {"running", "posting"}
    BY <1>2, <1>3, <2>1, <2>2
  <2>4. QED
    BY <2>3 DEF Reporting
<1>12. QED
  BY <1>1, <1>4, <1>5, <1>6, <1>7, <1>8, <1>9, <1>10, <1>11 DEF IInv

\* What the invariant says of one worker's poll().
LEMMA PollFacts ==
  ASSUME IInv, NEW w \in Browsers
  PROVE  /\ poll \in [Browsers -> Polls] /\ poll[w] \in Polls /\ poll[w].limit \in Nat
         /\ stored \in [Browsers -> Nat] /\ stored[w] \in Nat /\ stored[w] <= issued
         /\ scheduled \in [Browsers -> BOOLEAN] /\ active[w] \in Nat
         /\ NoPoll \in Polls /\ NoPoll.batch = {} /\ NoPoll.step = "idle"
         /\ poll[w].step # "answered" => poll[w].batch = {}
         /\ poll[w].step \in {"ready", "asking", "answered", "commanded"} => stored[w] = NoToken
         /\ poll[w].step \in {"acknowledging", "acknowledged"} => stored[w] # NoToken
         /\ poll[w].step = "acknowledged" => reinstall # stored[w]
         /\ scheduled[w] => poll[w].step = "reinstalling"
         /\ \A k \in 1 .. Len(reloads[w]) : reinstall # reloads[w][k] \/ stored[w] = reloads[w][k]
<1>1. poll \in [Browsers -> Polls] /\ poll[w] \in Polls /\ poll[w].limit \in Nat
  BY DEF IInv, Types, Polls
<1>2. /\ stored \in [Browsers -> Nat] /\ stored[w] \in Nat
      /\ scheduled \in [Browsers -> BOOLEAN] /\ active[w] \in Nat
  BY DEF IInv, Types
<1>3. NoPoll \in Polls /\ NoPoll.batch = {} /\ NoPoll.step = "idle"
  BY DEF NoPoll, Polls
<1>4. poll[w].step # "answered" => poll[w].batch = {}
  BY DEF IInv, BatchesOK
<1>5. QED
  BY <1>1, <1>2, <1>3, <1>4 DEF IInv, TokensOK, ReloadsOK

LEMMA StartPollKeeps ==
  ASSUME IInv, NEW w \in Browsers, StartPoll(w)
  PROVE  IInv'
<1> DEFINE s == IF stored[w] # NoToken THEN "acknowledging" ELSE "ready"
           p == [poll[w] EXCEPT !.step = s]
<1>1. /\ poll[w].step = "idle" /\ ~scheduled[w]
      /\ poll' = [poll EXCEPT ![w] = p]
      /\ UNCHANGED <<server, stray, active, scheduled, task, stored, runs, reloads, faults>>
  BY DEF StartPoll
<1>2. p \in Polls /\ p.step = s /\ p.batch = {}
  BY <1>1, PollFacts DEF Polls
<1>3. QED
  <2> HIDE DEF p
  <2>1. QED
    BY <1>1, <1>2, PollFacts, PollStepKeeps

LEMMA AcknowledgedKeeps ==
  ASSUME IInv, NEW w \in Browsers, Acknowledged(w)
  PROVE  IInv'
<1> DEFINE p == [poll[w] EXCEPT !.step = "ready"]
<1>1. /\ poll[w].step = "acknowledged" /\ stored' = [stored EXCEPT ![w] = NoToken]
      /\ poll' = [poll EXCEPT ![w] = p]
      /\ UNCHANGED <<server, stray, active, scheduled, task, runs, reloads, faults>>
  BY DEF Acknowledged
<1>2. p \in Polls /\ p.step = "ready" /\ p.batch = {}
  BY <1>1, PollFacts DEF Polls
<1>3. /\ stored' \in [Browsers -> Nat] /\ stored'[w] = NoToken /\ NoToken <= issued
      /\ \A v \in Browsers \ {w} : stored'[v] = stored[v]
  BY <1>1, PollFacts, TypesOfRows DEF NoToken
<1>4. \A k \in 1 .. Len(reloads[w]) : reinstall # reloads[w][k]
  BY <1>1, PollFacts
<1>5. /\ stored'[w] <= issued /\ poll[w].batch = {} /\ ~scheduled'[w]
      /\ scheduled' \in [Browsers -> BOOLEAN]
      /\ \A v \in Browsers \ {w} : scheduled'[v] = scheduled[v]
  BY <1>1, <1>3, PollFacts
<1>6. QED
  <2> HIDE DEF p
  <2>1. QED
    BY <1>1, <1>2, <1>3, <1>4, <1>5, PollStepKeeps

LEMMA AskForWorkKeeps ==
  ASSUME IInv, NEW w \in Browsers, AskForWork(w)
  PROVE  IInv'
<1> DEFINE p == IF Room(w) = 0 THEN NoPoll ELSE [NoPoll EXCEPT !.step = "asking", !.limit = Room(w)]
<1>1. /\ poll[w].step = "ready" /\ poll' = [poll EXCEPT ![w] = p]
      /\ UNCHANGED <<server, stray, active, scheduled, task, stored, runs, reloads, faults>>
  BY DEF AskForWork
<1>2. Room(w) \in Nat /\ (Room(w) # 0 => active[w] + Room(w) <= MaxConcurrent)
  BY PollFacts, StackAssumption DEF Room
<1>3. /\ p \in Polls /\ p.batch = {} /\ p.step \in {"idle", "asking"}
      /\ p.step = "asking" => active[w] + p.limit <= MaxConcurrent
  BY <1>2 DEF Polls, NoPoll
<1>4. QED
  <2> HIDE DEF p
  <2>1. QED
    BY <1>1, <1>3, PollFacts, PollStepKeeps

LEMMA StoreCommandKeeps ==
  ASSUME IInv, NEW w \in Browsers, StoreCommand(w)
  PROVE  IInv'
<1> DEFINE p == [poll[w] EXCEPT !.step = "reinstalling"]
<1>1. /\ poll[w].step = "commanded" /\ stored' = [stored EXCEPT ![w] = poll[w].limit]
      /\ poll' = [poll EXCEPT ![w] = p]
      /\ UNCHANGED <<server, stray, active, scheduled, task, runs, reloads, faults>>
  BY DEF StoreCommand
<1>2. p \in Polls /\ p.step = "reinstalling" /\ p.batch = {}
  BY <1>1, PollFacts DEF Polls
<1>3. /\ stored' \in [Browsers -> Nat] /\ stored'[w] = poll[w].limit
      /\ \A v \in Browsers \ {w} : stored'[v] = stored[v]
  BY <1>1, PollFacts
<1>4. /\ poll[w].limit \in 1 .. issued /\ poll[w].limit <= issued /\ poll[w].limit # NoToken
      /\ \A k \in 1 .. Len(reloads[w]) : reloads[w][k] # poll[w].limit
  BY <1>1, TypesOfRows DEF IInv, TokensOK, NoToken
<1>5. ~scheduled[w] /\ stored[w] = NoToken
  BY <1>1, PollFacts
<1>6. \A k \in 1 .. Len(reloads[w]) : reloads[w][k] # NoToken
  BY TypesOfRows DEF IInv, ReloadsOK, NoToken
<1>7. \A k \in 1 .. Len(reloads[w]) : reinstall # reloads[w][k]
  BY <1>5, <1>6, PollFacts
<1>8. /\ stored'[w] <= issued /\ stored'[w] # NoToken /\ poll[w].batch = {} /\ ~scheduled'[w]
      /\ scheduled' \in [Browsers -> BOOLEAN]
      /\ \A v \in Browsers \ {w} : scheduled'[v] = scheduled[v]
      /\ \A k \in 1 .. Len(reloads[w]) : reloads[w][k] # stored'[w]
  BY <1>1, <1>3, <1>4, <1>5, PollFacts
<1>9. QED
  <2> HIDE DEF p
  <2>1. QED
    BY <1>1, <1>2, <1>3, <1>7, <1>8, PollStepKeeps

LEMMA ScheduleReinstallKeeps ==
  ASSUME IInv, NEW w \in Browsers, ScheduleReinstall(w)
  PROVE  IInv'
<1>1. /\ poll[w].step = "reinstalling" /\ scheduled' = [scheduled EXCEPT ![w] = TRUE]
      /\ UNCHANGED <<server, stray, poll, active, task, stored, runs, reloads, faults>>
  BY DEF ScheduleReinstall
<1>2. poll' = [poll EXCEPT ![w] = poll[w]] /\ poll[w].batch = {}
  BY <1>1, PollFacts
<1>3. /\ scheduled' \in [Browsers -> BOOLEAN] /\ \A v \in Browsers \ {w} : scheduled'[v] = scheduled[v]
  BY <1>1, PollFacts
<1>4. /\ stored[w] # NoToken /\ \A k \in 1 .. Len(reloads[w]) : reloads[w][k] # stored[w]
  BY <1>1 DEF IInv, TokensOK
<1>5. QED
  BY <1>1, <1>2, <1>3, <1>4, PollFacts, PollStepKeeps

LEMMA PollFailsKeeps ==
  ASSUME IInv, NEW w \in Browsers, PollFails(w)
  PROVE  IInv'
<1>1. /\ poll[w].step # "reinstalling" /\ poll' = [poll EXCEPT ![w] = NoPoll]
      /\ stray' \subseteq stray \cup Unhandled(w) /\ faults' = faults + 1 /\ faults' # faults
      /\ UNCHANGED <<server, active, scheduled, task, stored, runs, reloads>>
  BY TypesOfRows DEF PollFails, Fault
<1>2. ~scheduled[w]
  BY <1>1, PollFacts
<1>3. QED
  BY <1>1, <1>2, PollFacts, PollStepKeeps

(***************************************************************************)
(* Steps of executeInstruction.                                            *)
(***************************************************************************)
Counted(w) == {i \in Instructions : task[w][i].counted}

LEMMA TaskFacts ==
  ASSUME IInv, NEW w \in Browsers
  PROVE  /\ task \in [Browsers -> [Instructions -> Tasks]] /\ NoTask \in Tasks
         /\ active \in [Browsers -> Nat] /\ active[w] = Cardinality(Counted(w))
         /\ IsFiniteSet(Counted(w)) /\ Cardinality(Counted(w)) \in Nat
         /\ \A i \in Instructions :
              /\ task[w][i] \in Tasks
              /\ task[w][i].step # "none" => task[w][i] # NoTask
              /\ task[w][i] # NoTask => /\ task[w][i].step # "none" /\ task[w][i].counted
                                        /\ runs[i] = <<w>>
              /\ task[w][i].step \in {"posting", "answered"} => task[w][i].body \in Bodies
<1>1. IsFiniteSet(Counted(w)) /\ Cardinality(Counted(w)) \in Nat
  BY StackAssumption, FS_Subset, FS_CardinalityType DEF Counted
<1>2. NoTask \in Tasks
  BY DEF NoTask, Tasks
<1>3. ASSUME NEW i \in Instructions
      PROVE  /\ task[w][i] \in Tasks
             /\ task[w][i].step # "none" => task[w][i] # NoTask
             /\ task[w][i] # NoTask => /\ task[w][i].step # "none" /\ task[w][i].counted
                                       /\ runs[i] = <<w>>
             /\ task[w][i].step \in {"posting", "answered"} => task[w][i].body \in Bodies
  BY DEF IInv, Types, TasksOK, NoTask
<1>4. active[w] = Cardinality(Counted(w))
  BY DEF IInv, CountsOK, Counted
<1>5. QED
  BY <1>1, <1>2, <1>3, <1>4 DEF IInv, Types

LEMMA TaskStepKeeps ==
  ASSUME IInv, NEW w \in Browsers, NEW i \in Instructions, NEW t \in Tasks,
         task[w][i] # NoTask, task' = [task EXCEPT ![w][i] = t],
         \/ t = NoTask /\ active' = [active EXCEPT ![w] = active[w] - 1]
         \/ t.step # "none" /\ t.counted /\ t.body \in Bodies /\ active' = active,
         UNCHANGED <<reinstall, issued, poll, scheduled, stored, runs, reloads>>,
         RowTypes', RowsAdvance,
         \A j \in Instructions : status'[j] = "processing" => status[j] = "processing",
         stray' \subseteq stray \cup {m \in Unhandled(w) : m.kind = "result"},
         faults' \in {faults, faults + 1},
         \/ t.step \in {"running", "posting"} \/ status'[i] # "processing" \/ faults' # faults
         \/ task[w][i].step \notin {"running", "posting"}
  PROVE  IInv'
<1>1. /\ reinstall' = reinstall /\ issued' = issued /\ poll' = poll /\ scheduled' = scheduled
      /\ stored' = stored /\ runs' = runs /\ reloads' = reloads /\ faults \in Nat
      /\ RunsOK /\ BatchesOK /\ TasksOK /\ StraysOK /\ CountsOK /\ TokensOK /\ ReloadsOK
      /\ NoLostWork /\ QuietOK /\ poll \in [Browsers -> Polls]
  BY DEF IInv, Types
<1>2. /\ task' \in [Browsers -> [Instructions -> Tasks]] /\ task'[w][i] = t
      /\ \A v \in Browsers, j \in Instructions : v # w \/ j # i => task'[v][j] = task[v][j]
  BY TaskFacts
<1>3. task[w][i].step # "none" /\ task[w][i].counted
  BY TaskFacts
<1>4. \A v \in Browsers : /\ active'[v] \in Nat /\ active'[v] <= active[v]
                          /\ active'[v] = Cardinality(Counted(v)')
  <2>1. \A v \in Browsers \ {w} : Counted(v)' = Counted(v) /\ active'[v] = active[v]
    BY <1>2, TaskFacts DEF Counted
  <2>2. CASE t = NoTask /\ active' = [active EXCEPT ![w] = active[w] - 1]
    <3>1. Counted(w)' = Counted(w) \ {i} /\ i \in Counted(w)
      BY <1>2, <1>3, <2>2 DEF Counted, NoTask
    <3>2. /\ IsFiniteSet(Counted(w) \ {i}) /\ Cardinality(Counted(w) \ {i}) \in Nat
          /\ Cardinality(Counted(w) \ {i}) = Cardinality(Counted(w)) - 1
      BY <3>1, TaskFacts, FS_RemoveElement, FS_CardinalityType
    <3>3. active'[w] = active[w] - 1
      BY <2>2, TaskFacts
    <3>4. active'[w] = Cardinality(Counted(w)') /\ active'[w] \in Nat /\ active'[w] <= active[w]
      BY <3>1, <3>2, <3>3, TaskFacts
    <3>5. \A v \in Browsers : active[v] \in Nat /\ active[v] = Cardinality(Counted(v))
      BY TaskFacts
    <3>6. QED
      BY <2>1, <3>4, <3>5
  <2>3. CASE t.counted /\ active' = active
    <3>1. Counted(w)' = Counted(w)
      BY <1>2, <1>3, <2>3 DEF Counted
    <3>2. QED
      BY <2>1, <2>3, <3>1, TaskFacts
  <2>4. QED
    BY <2>2, <2>3
<1>5. active' \in [Browsers -> Nat]
  <2>1. active' = [v \in Browsers |-> active'[v]]
    BY TaskFacts
  <2>2. QED
    BY <1>4, <2>1
<1>6. Types'
  <2>1. stray' \in SUBSET Requests /\ faults' \in Nat
    BY <1>1, TypesOfRows, UnhandledShape
  <2>2. QED
    BY <1>1, <1>2, <1>5, <2>1 DEF IInv, Types, RowTypes
<1>7. RunsOK'
  BY <1>1, RunsKept
<1>8. BatchesOK'
  BY <1>1, BatchesKept
<1>9. TasksOK'
  <2>1. \A v \in Browsers, j \in Instructions :
          \/ task'[v][j] = NoTask \/ task'[v][j] = task[v][j]
          \/ /\ task[v][j].step # "none" /\ task'[v][j].step # "none" /\ task'[v][j].counted
             /\ task'[v][j].body \in Bodies
    BY <1>2, <1>3
  <2>2. QED
    BY <1>1, <2>1, TasksKept
<1>10. StraysOK'
  <2>1. \A m \in Unhandled(w) : m.kind = "result" =>
          m.arg \in Instructions /\ m.body \in Bodies /\ runs[m.arg] = <<m.from>>
    BY UnhandledShape
  <2>2. faults > 0 => faults' > 0
    BY <1>1
  <2>3. QED
    BY <1>1, <2>1, <2>2 DEF StraysOK
<1>11. CountsOK'
  <2> SUFFICES ASSUME NEW v \in Browsers
               PROVE  /\ active'[v] = Cardinality(Counted(v)')
                      /\ active'[v] <= MaxConcurrent
                      /\ poll[v].step \in {"asking", "answered"} =>
                           active'[v] + poll[v].limit <= MaxConcurrent
    BY <1>1 DEF CountsOK, Counted
  <2>1. /\ active[v] <= MaxConcurrent /\ active[v] \in Nat /\ poll[v].limit \in Nat
        /\ poll[v].step \in {"asking", "answered"} => active[v] + poll[v].limit <= MaxConcurrent
    BY <1>1, PollFacts DEF CountsOK
  <2>2. MaxConcurrent \in Nat
    BY StackAssumption
  <2>3. QED
    BY <1>4, <2>1, <2>2
<1>12. TokensOK' /\ ReloadsOK'
  BY <1>1 DEF TokensOK, ReloadsOK
<1>13. QuietOK'
  BY <1>1 DEF QuietOK
<1>14. NoLostWork'
  <2> SUFFICES ASSUME faults' = 0, NEW j \in Instructions, status'[j] = "processing"
               PROVE  Reporting(j)'
    BY DEF NoLostWork
  <2>1. faults = 0 /\ faults' = faults /\ status[j] = "processing"
    BY <1>1
  <2>2. PICK v \in Browsers : j \in poll[v].batch \/ task[v][j].step \in {"running", "posting"}
    BY <1>1, <2>1 DEF NoLostWork, Reporting
  <2>3. j \in poll[v].batch \/ task'[v][j].step \in {"running", "posting"}
    BY <1>2, <2>1, <2>2
  <2>4. QED
    BY <1>1, <2>3 DEF Reporting
<1>15. QED
  BY <1>6, <1>7, <1>8, <1>9, <1>10, <1>11, <1>12, <1>13, <1>14 DEF IInv

LEMMA HandleResultKeeps ==
  ASSUME IInv, NEW w \in Browsers, NEW i \in Instructions, HandleResult(w, i)
  PROVE  IInv'
<1> DEFINE t == [task[w][i] EXCEPT !.step = "answered", !.ok = Accepts(i)]
<1>1. /\ task[w][i].step = "posting" /\ StoreResult(w, i, task[w][i].body)
      /\ task' = [task EXCEPT ![w][i] = t]
      /\ UNCHANGED <<reinstall, issued, stray, poll, active, scheduled, stored, runs, reloads, faults>>
  BY DEF HandleResult
<1>2. task[w][i] \in Tasks /\ task[w][i] # NoTask /\ task[w][i].body \in Bodies
      /\ task[w][i].counted /\ runs[i] = <<w>>
  BY <1>1, TaskFacts
<1>3. t \in Tasks /\ t.step = "answered" /\ t.counted /\ t.body \in Bodies
  <2>1. Accepts(i) \in BOOLEAN
    BY DEF Accepts
  <2>2. QED
    BY <1>2, <2>1 DEF Tasks
<1>4. /\ RowTypes' /\ RowsAdvance /\ status'[i] # "processing"
      /\ \A j \in Instructions : status'[j] = "processing" => status[j] = "processing"
  BY <1>1, <1>2, TypesOfRows, ReportedRows
<1>5. QED
  <2> HIDE DEF t
  <2>1. QED
    BY <1>1, <1>2, <1>3, <1>4, TaskStepKeeps

\* The end of a task, or its next step.
LEMMA EndedOrNext ==
  ASSUME IInv, NEW w \in Browsers, NEW i \in Instructions, NEW t \in Tasks, NEW ends \in BOOLEAN,
         task[w][i] # NoTask, t.step # "none" /\ t.counted /\ t.body \in Bodies,
         IF ends THEN EndTask(w, i)
                 ELSE task' = [task EXCEPT ![w][i] = t] /\ active' = active,
         UNCHANGED <<server, poll, scheduled, stored, runs, reloads>>,
         stray' \subseteq stray \cup {m \in Unhandled(w) : m.kind = "result"},
         faults' \in {faults, faults + 1},
         \/ ~ends /\ t.step = "posting"
         \/ task[w][i].step \notin {"running", "posting"}
         \/ status[i] # "processing"
         \/ faults' # faults
  PROVE  IInv'
<1>1. rows' = rows /\ reinstall' = reinstall /\ issued' = issued /\ RowTypes' /\ RowsAdvance
  BY RowsQuiet
<1>2. status' = status
  BY <1>1 DEF rows
<1>3. CASE ends
  <2>1. /\ task' = [task EXCEPT ![w][i] = NoTask]
        /\ active' = [active EXCEPT ![w] = active[w] - 1] /\ NoTask \in Tasks
    BY <1>3, TaskFacts DEF EndTask
  <2>2. QED
    BY <1>1, <1>2, <1>3, <2>1, TaskStepKeeps
<1>4. CASE ~ends
  BY <1>1, <1>2, <1>4, TaskStepKeeps
<1>5. QED
  BY <1>3, <1>4

LEMMA FinishActionKeeps ==
  ASSUME IInv, NEW w \in Browsers, NEW i \in Instructions, NEW body \in {"value", "error"},
         FinishAction(w, i, body)
  PROVE  IInv'
<1> DEFINE t == [task[w][i] EXCEPT !.step = "posting", !.attempt = 1, !.body = body]
<1>1. /\ task[w][i].step = "running"
      /\ IF scheduled[w] THEN EndTask(w, i)
                         ELSE task' = [task EXCEPT ![w][i] = t] /\ active' = active
      /\ UNCHANGED <<server, stray, poll, scheduled, stored, runs, reloads, faults>>
  <2>1. CASE scheduled[w]
    BY <2>1 DEF FinishAction
  <2>2. CASE ~scheduled[w]
    <3>1. /\ task[w][i].step = "running" /\ active' = active
          /\ task' = [task EXCEPT ![w][i].step = "posting", ![w][i].attempt = 1, ![w][i].body = body]
          /\ UNCHANGED <<server, stray, poll, scheduled, stored, runs, reloads, faults>>
      BY <2>2 DEF FinishAction
    <3>2. task' = [task EXCEPT ![w][i] = t]
      BY <3>1, TaskFacts
    <3>3. QED
      BY <2>2, <3>1, <3>2
  <2>3. QED
    BY <2>1, <2>2
<1>2. task[w][i] \in Tasks /\ task[w][i] # NoTask /\ task[w][i].counted
  BY <1>1, TaskFacts
<1>3. t \in Tasks /\ t.step = "posting" /\ t.counted /\ t.body \in Bodies
  BY <1>2 DEF Tasks, Bodies
<1>4. scheduled[w] => status[i] # "processing"
  BY <1>2, PollFacts DEF IInv, TasksOK, Terminal
<1>5. scheduled[w] \in BOOLEAN
  BY PollFacts
<1>6. QED
  <2> HIDE DEF t
  <2>1. QED
    BY <1>1, <1>2, <1>3, <1>4, <1>5, EndedOrNext

LEMMA ResultAnsweredKeeps ==
  ASSUME IInv, NEW w \in Browsers, NEW i \in Instructions, ResultAnswered(w, i)
  PROVE  IInv'
<1> DEFINE t == [task[w][i] EXCEPT !.step = "posting", !.attempt = task[w][i].attempt + 1]
           ends == task[w][i].ok \/ scheduled[w] \/ task[w][i].attempt = RetryAttempts
<1>1. /\ task[w][i].step = "answered"
      /\ IF ends THEN EndTask(w, i)
                 ELSE task' = [task EXCEPT ![w][i] = t] /\ active' = active
      /\ UNCHANGED <<server, stray, poll, scheduled, stored, runs, reloads, faults>>
  BY DEF ResultAnswered
<1>2. /\ task[w][i] \in Tasks /\ task[w][i] # NoTask /\ task[w][i].counted
      /\ task[w][i].body \in Bodies
  BY <1>1, TaskFacts
<1>3. t \in Tasks /\ t.step = "posting" /\ t.counted /\ t.body \in Bodies
  <2>1. task[w][i].attempt + 1 \in Nat
    BY <1>2 DEF Tasks
  <2> HIDE DEF ends
  <2>2. QED
    BY <1>2, <2>1 DEF Tasks
<1>4. ends \in BOOLEAN
  BY <1>2, PollFacts DEF Tasks
<1>5. QED
  <2> HIDE DEF t, ends
  <2>1. QED
    BY <1>1, <1>2, <1>3, <1>4, EndedOrNext

LEMMA ResultFailsKeeps ==
  ASSUME IInv, NEW w \in Browsers, NEW i \in Instructions, ResultFails(w, i)
  PROVE  IInv'
<1> DEFINE t == [task[w][i] EXCEPT !.step = "answered", !.ok = FALSE]
<1>1. /\ task[w][i].step \in {"posting", "answered"} /\ faults' = faults + 1
      /\ task' = [task EXCEPT ![w][i] = t] /\ active' = active
      /\ stray' \subseteq stray \cup {m \in Unhandled(w) : m.kind = "result"}
      /\ UNCHANGED <<server, poll, scheduled, stored, runs, reloads>>
  BY DEF ResultFails, Fault
<1>2. /\ task[w][i] \in Tasks /\ task[w][i] # NoTask /\ task[w][i].counted
      /\ task[w][i].body \in Bodies
  BY <1>1, TaskFacts
<1>3. t \in Tasks /\ t.step = "answered" /\ t.counted /\ t.body \in Bodies
  BY <1>2 DEF Tasks
<1>4. faults' # faults
  BY <1>1, TypesOfRows
<1>5. QED
  <2> HIDE DEF t
  <2>1. QED
    BY <1>1, <1>2, <1>3, <1>4, EndedOrNext

(***************************************************************************)
(* Restarts.                                                               *)
(***************************************************************************)
LEMMA RestartKeeps ==
  ASSUME IInv, NEW w \in Browsers, Restart(w),
         \/ faults' = faults + 1 /\ reloads' = reloads
         \/ /\ faults' = faults /\ poll[w].step = "reinstalling"
            /\ reloads' = [reloads EXCEPT ![w] = Append(reloads[w], stored[w])]
  PROVE  IInv'
<1>1. /\ stray' = stray \cup Unhandled(w) /\ UNCHANGED <<server, stored, runs>>
      /\ poll' = [poll EXCEPT ![w] = NoPoll] /\ active' = [active EXCEPT ![w] = 0]
      /\ scheduled' = [scheduled EXCEPT ![w] = FALSE]
      /\ task' = [task EXCEPT ![w] = [i \in Instructions |-> NoTask]]
  BY DEF Restart
<1>2. /\ rows' = rows /\ reinstall' = reinstall /\ issued' = issued /\ runs' = runs
      /\ RowTypes' /\ RowsAdvance /\ RunsOK' /\ QuietOK'
  BY <1>1, RowsQuiet
<1>3. /\ stored' = stored /\ faults \in Nat /\ reloads \in [Browsers -> Seq(Nat)]
      /\ BatchesOK /\ TasksOK /\ StraysOK /\ CountsOK /\ TokensOK /\ ReloadsOK /\ NoLostWork
      /\ poll \in [Browsers -> Polls] /\ active \in [Browsers -> Nat]
      /\ scheduled \in [Browsers -> BOOLEAN] /\ stored \in [Browsers -> Nat]
      /\ task \in [Browsers -> [Instructions -> Tasks]] /\ status' = status
  BY <1>1, <1>2 DEF IInv, Types, rows
<1>4. /\ poll'[w] = NoPoll /\ active'[w] = 0 /\ scheduled'[w] = FALSE
      /\ \A i \in Instructions : task'[w][i] = NoTask
      /\ \A v \in Browsers \ {w} : /\ poll'[v] = poll[v] /\ active'[v] = active[v]
                                   /\ scheduled'[v] = scheduled[v] /\ task'[v] = task[v]
  BY <1>1, <1>3
<1>5. reloads' \in [Browsers -> Seq(Nat)] /\ \A v \in Browsers \ {w} : reloads'[v] = reloads[v]
  <2>1. Append(reloads[w], stored[w]) \in Seq(Nat)
    BY <1>3
  <2>2. QED
    BY <1>3, <2>1
<1>6. Types'
  <2>1. stray' \in SUBSET Requests /\ faults' \in Nat
    BY <1>1, <1>3, TypesOfRows, UnhandledShape
  <2>2. /\ poll' \in [Browsers -> Polls] /\ active' \in [Browsers -> Nat]
        /\ scheduled' \in [Browsers -> BOOLEAN] /\ task' \in [Browsers -> [Instructions -> Tasks]]
    BY <1>1, <1>3, PollFacts, TaskFacts
  <2>3. runs' \in [Instructions -> Seq(Browsers)] /\ stored' \in [Browsers -> Nat]
    BY <1>2, <1>3 DEF IInv, Types
  <2>4. QED
    BY <1>2, <1>5, <2>1, <2>2, <2>3, TypesOfRows DEF Types, RowTypes
<1>7. BatchesOK'
  <2>1. \A v \in Browsers : poll'[v] = poll[v] \/ poll'[v].batch = {}
    BY <1>4, PollFacts
  <2>2. QED
    BY <1>2, <1>3, <2>1, BatchesKept
<1>8. TasksOK'
  <2>1. \A v \in Browsers : poll'[v].step \in {"commanded", "reinstalling"} =>
                              poll[v].step \in {"commanded", "reinstalling"}
    BY <1>4, PollFacts
  <2>2. \A v \in Browsers, i \in Instructions : task'[v][i] = NoTask \/ task'[v][i] = task[v][i]
    BY <1>4
  <2>3. QED
    BY <1>2, <1>3, <2>1, <2>2, TasksKept
<1>9. StraysOK'
  <2>1. \A m \in Unhandled(w) :
          \/ m.kind = "result" /\ m.arg \in Instructions /\ m.body \in Bodies
             /\ runs[m.arg] = <<m.from>>
          \/ m.kind # "result" /\ faults' > 0
    <3>1. poll[w].step = "reinstalling" \/ faults' > 0
      BY <1>3
    <3>2. QED
      BY <3>1, UnhandledShape
  <2>2. faults > 0 => faults' > 0
    BY <1>3
  <2>3. QED
    BY <1>1, <1>2, <1>3, <2>1, <2>2 DEF StraysOK
<1>10. CountsOK'
  <2>1. {i \in Instructions : task'[w][i].counted} = {}
    BY <1>4 DEF NoTask
  <2>2. /\ active'[w] = Cardinality({i \in Instructions : task'[w][i].counted})
        /\ active'[w] <= MaxConcurrent
    <3>1. 0 <= MaxConcurrent
      BY StackAssumption
    <3>2. Cardinality({i \in Instructions : task'[w][i].counted}) = 0
      BY <2>1, FS_EmptySet
    <3>3. QED
      BY <1>4, <3>1, <3>2
  <2>3. ASSUME NEW v \in Browsers, v # w
        PROVE  /\ active'[v] = Cardinality({i \in Instructions : task'[v][i].counted})
               /\ active'[v] <= MaxConcurrent
               /\ poll'[v].step \in {"asking", "answered"} =>
                    active'[v] + poll'[v].limit <= MaxConcurrent
    <3>1. active'[v] = active[v] /\ task'[v] = task[v] /\ poll'[v] = poll[v]
      BY <1>4, <2>3
    <3>2. QED
      BY <1>3, <3>1 DEF CountsOK
  <2>4. QED
    BY <1>4, <2>2, <2>3, PollFacts DEF CountsOK
<1>11. TokensOK'
  <2> SUFFICES ASSUME NEW v \in Browsers
               PROVE  /\ stored[v] <= issued
                      /\ poll'[v].step \in {"ready", "asking", "answered", "commanded"} => stored[v] = NoToken
                      /\ poll'[v].step \in {"acknowledging", "acknowledged"} => stored[v] # NoToken
                      /\ poll'[v].step = "acknowledged" => reinstall # stored[v]
                      /\ poll'[v].step = "commanded" =>
                           /\ poll'[v].limit \in 1 .. issued
                           /\ \A k \in 1 .. Len(reloads'[v]) : reloads'[v][k] # poll'[v].limit
                      /\ poll'[v].step = "reinstalling" =>
                           /\ stored[v] # NoToken
                           /\ \A k \in 1 .. Len(reloads'[v]) : reloads'[v][k] # stored[v]
                      /\ scheduled'[v] => poll'[v].step = "reinstalling"
    BY <1>2, <1>3 DEF TokensOK
  <2>1. CASE v = w
    BY <1>4, <2>1, PollFacts
  <2>2. CASE v # w
    <3>1. poll'[v] = poll[v] /\ scheduled'[v] = scheduled[v] /\ reloads'[v] = reloads[v]
      BY <1>4, <1>5, <2>2
    <3>2. QED
      BY <1>3, <3>1 DEF TokensOK
  <2>3. QED
    BY <2>1, <2>2
<1>12. ReloadsOK'
  <2> SUFFICES ASSUME NEW v \in Browsers, NEW k \in 1 .. Len(reloads'[v])
               PROVE  /\ reloads'[v][k] \in 1 .. issued
                      /\ reinstall # reloads'[v][k] \/ stored[v] = reloads'[v][k]
                      /\ \A j \in 1 .. Len(reloads'[v]) : reloads'[v][j] = reloads'[v][k] => j = k
    BY <1>2, <1>3 DEF ReloadsOK
  <2>1. CASE reloads'[v] = reloads[v]
    BY <1>3, <2>1 DEF ReloadsOK
  <2>2. CASE /\ v = w /\ poll[w].step = "reinstalling"
             /\ reloads' = [reloads EXCEPT ![w] = Append(reloads[w], stored[w])]
    <3> DEFINE old == reloads[w]
               n == Len(old)
    <3>1. /\ old \in Seq(Nat) /\ n \in Nat /\ stored[w] \in Nat /\ reloads'[v] = Append(old, stored[w])
      BY <1>3, <2>2
    <3>2. /\ Len(reloads'[v]) = n + 1 /\ reloads'[v][n + 1] = stored[w]
          /\ \A j \in 1 .. n : reloads'[v][j] = old[j]
      <4> HIDE DEF old
      <4>1. QED
        BY <3>1
    <3>3. stored[w] \in 1 .. issued /\ \A j \in 1 .. n : old[j] # stored[w]
      BY <1>3, <2>2, <3>1, TypesOfRows DEF TokensOK, NoToken
    <3>4. \A j \in 1 .. n :
            /\ old[j] \in 1 .. issued
            /\ reinstall # old[j] \/ stored[w] = old[j]
            /\ \A l \in 1 .. n : old[l] = old[j] => l = j
      BY <1>3 DEF ReloadsOK
    <3> HIDE DEF old, n
    <3>5. \A j \in 1 .. n + 1 : j \in 1 .. n \/ j = n + 1
      BY <3>1
    <3>6. CASE k = n + 1
      BY <2>2, <3>2, <3>3, <3>5, <3>6
    <3>7. CASE k \in 1 .. n
      BY <2>2, <3>2, <3>3, <3>4, <3>5, <3>7
    <3>8. QED
      BY <3>2, <3>5, <3>6, <3>7
  <2>3. QED
    BY <1>5, <2>1, <2>2
<1>13. NoLostWork'
  <2> SUFFICES ASSUME faults' = 0, NEW j \in Instructions, status[j] = "processing"
               PROVE  Reporting(j)'
    BY <1>3 DEF NoLostWork
  <2>1. faults = 0 /\ poll[w].step = "reinstalling"
    BY <1>3
  <2>2. PICK v \in Browsers : j \in poll[v].batch \/ task[v][j].step \in {"running", "posting"}
    BY <1>3, <2>1 DEF NoLostWork, Reporting
  <2>3. v # w
    <3>1. j \notin poll[w].batch
      BY <2>1, PollFacts
    <3>2. task[w][j] # NoTask => status[j] \in Terminal
      BY <1>3, <2>1 DEF TasksOK
    <3>3. task[w][j].step \notin {"running", "posting"}
      BY <3>2 DEF NoTask, Terminal
    <3>4. QED
      BY <2>2, <3>1, <3>3
  <2>4. QED
    BY <1>4, <2>2, <2>3 DEF Reporting
<1>14. QED
  BY <1>2, <1>6, <1>7, <1>8, <1>9, <1>10, <1>11, <1>12, <1>13 DEF IInv

LEMMA ReloadKeeps ==
  ASSUME IInv, NEW w \in Browsers, Reload(w)
  PROVE  IInv'
<1>1. /\ Restart(w) /\ faults' = faults /\ scheduled[w]
      /\ reloads' = [reloads EXCEPT ![w] = Append(reloads[w], stored[w])]
  BY DEF Reload
<1>2. poll[w].step = "reinstalling"
  BY <1>1, PollFacts
<1>3. QED
  BY <1>1, <1>2, RestartKeeps

LEMMA CrashKeeps ==
  ASSUME IInv, NEW w \in Browsers, Crash(w)
  PROVE  IInv'
BY RestartKeeps DEF Crash, Fault

(***************************************************************************)
(* The server's answers to poll(), and what poll() does with work.         *)
(***************************************************************************)

\* The acknowledgement: rows and the token change, poll() waits for nothing new.
LEMMA AcknowledgeKeeps ==
  ASSUME IInv, NEW w \in Browsers, poll[w].step = "acknowledging", Acknowledge(stored[w]),
         poll' = [poll EXCEPT ![w].step = "acknowledged"],
         UNCHANGED <<issued, stray, active, scheduled, task, stored, runs, reloads, faults>>
  PROVE  IInv'
<1> DEFINE p == [poll[w] EXCEPT !.step = "acknowledged"]
<1>1. /\ RowTypes' /\ RowsAdvance /\ reinstall' \in {reinstall, NoToken}
      /\ reinstall' # stored[w]
      /\ \A i \in Instructions : status'[i] = "processing" => status[i] = "processing"
  BY AcknowledgedRows, PollFacts
<1>2. /\ issued' = issued /\ stray' = stray /\ active' = active /\ scheduled' = scheduled
      /\ task' = task /\ stored' = stored /\ runs' = runs /\ reloads' = reloads
      /\ faults' = faults /\ poll \in [Browsers -> Polls]
      /\ RunsOK /\ BatchesOK /\ TasksOK /\ StraysOK /\ CountsOK /\ TokensOK /\ ReloadsOK
      /\ NoLostWork /\ QuietOK
  BY DEF IInv, Types
<1>3. p \in Polls /\ p.step = "acknowledged" /\ p.batch = {} /\ poll[w].batch = {}
  BY PollFacts DEF Polls
<1>4. /\ poll' \in [Browsers -> Polls] /\ poll'[w] = p
      /\ \A v \in Browsers \ {w} : poll'[v] = poll[v]
  BY <1>2, <1>3
<1> HIDE DEF p
<1>5. Types'
  BY <1>1, <1>2, <1>4 DEF IInv, Types, RowTypes
<1>6. RunsOK' /\ StraysOK'
  BY <1>1, <1>2, RunsKept, StraysKept
<1>7. BatchesOK'
  BY <1>1, <1>2, <1>3, <1>4, BatchesKept
<1>8. TasksOK'
  <2>1. \A v \in Browsers : poll'[v].step \in {"commanded", "reinstalling"} =>
                              poll[v].step \in {"commanded", "reinstalling"}
    BY <1>3, <1>4
  <2>2. QED
    BY <1>1, <1>2, <2>1, TasksKept
<1>9. CountsOK'
  <2>1. \A v \in Browsers : {i \in Instructions : task'[v][i].counted}
                             = {i \in Instructions : task[v][i].counted}
    BY <1>2
  <2>2. \A v \in Browsers : poll'[v].step \in {"asking", "answered"} => poll'[v] = poll[v]
    BY <1>3, <1>4
  <2>3. QED
    BY <1>2, <2>1, <2>2 DEF CountsOK
<1>10. TokensOK'
  <2> SUFFICES ASSUME NEW v \in Browsers
               PROVE  /\ stored[v] <= issued
                      /\ poll'[v].step \in {"ready", "asking", "answered", "commanded"} => stored[v] = NoToken
                      /\ poll'[v].step \in {"acknowledging", "acknowledged"} => stored[v] # NoToken
                      /\ poll'[v].step = "acknowledged" => reinstall' # stored[v]
                      /\ poll'[v].step = "commanded" =>
                           /\ poll'[v].limit \in 1 .. issued
                           /\ \A k \in 1 .. Len(reloads[v]) : reloads[v][k] # poll'[v].limit
                      /\ poll'[v].step = "reinstalling" =>
                           /\ stored[v] # NoToken
                           /\ \A k \in 1 .. Len(reloads[v]) : reloads[v][k] # stored[v]
                      /\ scheduled[v] => poll'[v].step = "reinstalling"
    BY <1>2 DEF TokensOK
  <2>1. CASE v = w
    BY <1>1, <1>3, <1>4, <2>1, PollFacts
  <2>2. CASE v # w
    <3>1. poll'[v] = poll[v] /\ reinstall' \in {reinstall, NoToken}
      BY <1>1, <1>4, <2>2
    <3>2. poll[v].step = "acknowledged" => stored[v] # NoToken /\ reinstall # stored[v]
      BY <1>2 DEF TokensOK
    <3>3. QED
      BY <1>2, <3>1, <3>2 DEF TokensOK
  <2>3. QED
    BY <2>1, <2>2
<1>11. ReloadsOK'
  <2> SUFFICES ASSUME NEW v \in Browsers, NEW k \in 1 .. Len(reloads[v])
               PROVE  /\ reloads[v][k] \in 1 .. issued
                      /\ reinstall' # reloads[v][k] \/ stored[v] = reloads[v][k]
                      /\ \A j \in 1 .. Len(reloads[v]) : reloads[v][j] = reloads[v][k] => j = k
    BY <1>2 DEF ReloadsOK
  <2>1. /\ reloads[v][k] \in 1 .. issued
        /\ reinstall # reloads[v][k] \/ stored[v] = reloads[v][k]
        /\ \A j \in 1 .. Len(reloads[v]) : reloads[v][j] = reloads[v][k] => j = k
    BY <1>2 DEF ReloadsOK
  <2>2. NoToken # reloads[v][k]
    BY <2>1, TypesOfRows DEF NoToken
  <2>3. QED
    BY <1>1, <2>1, <2>2
<1>12. QuietOK'
  BY <1>1, <1>2 DEF QuietOK
<1>13. NoLostWork'
  <2> SUFFICES ASSUME faults = 0, NEW j \in Instructions, status'[j] = "processing"
               PROVE  Reporting(j)'
    BY <1>2 DEF NoLostWork
  <2>1. PICK v \in Browsers : j \in poll[v].batch \/ task[v][j].step \in {"running", "posting"}
    BY <1>1, <1>2 DEF NoLostWork, Reporting
  <2>2. j \in poll'[v].batch \/ task'[v][j].step \in {"running", "posting"}
    BY <1>2, <1>3, <1>4, <2>1
  <2>3. QED
    BY <2>2 DEF Reporting
<1>14. QED
  BY <1>5, <1>6, <1>7, <1>8, <1>9, <1>10, <1>11, <1>12, <1>13 DEF IInv

\* The command to reinstall, which no row is still processing under.
LEMMA CommandKeeps ==
  ASSUME IInv, NEW w \in Browsers, poll[w].step = "asking", reinstall # NoToken,
         ClaimBatch(w, poll[w].limit),
         poll' = [poll EXCEPT ![w].step = "commanded", ![w].limit = reinstall],
         UNCHANGED <<bid, outcome, reinstall, issued, stray, active, scheduled, task, stored,
                     runs, reloads, faults>>
  PROVE  IInv'
<1> DEFINE p == [poll[w] EXCEPT !.step = "commanded", !.limit = reinstall]
<1>1. status' = status
  <2>1. Batch(w, poll[w].limit) = {}
    BY PollFacts, TypesOfRows, BatchShape
  <2>2. status \in [Instructions -> {"absent", "pending", "processing"} \cup Terminal]
    BY TypesOfRows DEF RowTypes
  <2>3. QED
    BY <2>1, <2>2 DEF ClaimBatch
<1>2. UNCHANGED <<server, stray, active, scheduled, task, stored, runs, reloads, faults>>
  BY <1>1 DEF server
<1>3. reinstall = issued /\ reinstall \in 1 .. issued /\ reinstall \in Nat
  BY TypesOfRows DEF NoToken
<1>4. p \in Polls /\ p.step = "commanded" /\ p.limit = reinstall /\ p.batch = {}
  BY <1>3, PollFacts DEF Polls
<1>5. poll' = [poll EXCEPT ![w] = p]
  BY PollFacts
<1>6. \A i \in Instructions : status[i] # "processing"
  BY DEF IInv, QuietOK
<1>7. stored[w] = NoToken /\ \A k \in 1 .. Len(reloads[w]) : reloads[w][k] \in 1 .. issued
  BY PollFacts DEF IInv, ReloadsOK
<1>8. \A k \in 1 .. Len(reloads[w]) : reloads[w][k] # reinstall
  BY <1>7, PollFacts, TypesOfRows DEF NoToken
<1>9. ~scheduled[w] /\ poll[w].batch = {}
  BY PollFacts
<1>10. /\ stored' \in [Browsers -> Nat] /\ scheduled' \in [Browsers -> BOOLEAN]
       /\ \A v \in Browsers \ {w} : stored'[v] = stored[v] /\ scheduled'[v] = scheduled[v]
       /\ stored'[w] = NoToken /\ stored'[w] <= issued /\ ~scheduled'[w]
  BY <1>2, <1>7, <1>9, PollFacts
<1>11. \A k \in 1 .. Len(reloads[w]) : reinstall # reloads[w][k]
  BY <1>8
<1> HIDE DEF p
<1>12. QED
  <2>1. /\ UNCHANGED <<server, active, task, runs, reloads>> /\ stray' = stray /\ faults' = faults
        /\ p.step \notin {"acknowledging", "acknowledged", "asking", "answered", "reinstalling"}
        /\ p.limit \in 1 .. issued /\ \A k \in 1 .. Len(reloads[w]) : reloads[w][k] # p.limit
        /\ \A k \in 1 .. Len(reloads[w]) : reinstall # reloads[w][k] \/ stored'[w] = reloads[w][k]
    BY <1>2, <1>3, <1>4, <1>8, <1>11
  <2>2. QED
    BY <1>4, <1>5, <1>6, <1>9, <1>10, <2>1, PollStepKeeps

\* The response with work: what is claimed was pending, and is in no other response.
LEMMA ClaimKeeps ==
  ASSUME IInv, NEW w \in Browsers, poll[w].step = "asking", reinstall = NoToken,
         ClaimBatch(w, poll[w].limit),
         poll' = [poll EXCEPT ![w].step = "answered", ![w].batch = Batch(w, poll[w].limit)],
         UNCHANGED <<bid, outcome, reinstall, issued, stray, active, scheduled, task, stored,
                     runs, reloads, faults>>
  PROVE  IInv'
<1> DEFINE B == Batch(w, poll[w].limit)
           p == [poll[w] EXCEPT !.step = "answered", !.batch = B]
<1>1. /\ B \in SUBSET Instructions
      /\ \A i \in B : /\ status[i] = "pending" /\ bid[i] \in {NoBrowser, w}
                      /\ Cardinality({j \in B : j < i}) < poll[w].limit
  BY PollFacts, TypesOfRows, BatchShape
<1>2. /\ RowTypes' /\ RowsAdvance
      /\ \A i \in B : status'[i] = "processing"
      /\ \A i \in Instructions \ B : status'[i] = status[i]
  BY PollFacts, TypesOfRows, ClaimedRows
<1>3. /\ issued' = issued /\ stray' = stray /\ active' = active /\ scheduled' = scheduled
      /\ task' = task /\ stored' = stored /\ runs' = runs /\ reloads' = reloads
      /\ faults' = faults /\ reinstall' = reinstall /\ bid' = bid
      /\ poll \in [Browsers -> Polls]
      /\ RunsOK /\ BatchesOK /\ TasksOK /\ StraysOK /\ CountsOK /\ TokensOK /\ ReloadsOK
      /\ NoLostWork /\ QuietOK
  BY DEF IInv, Types
<1> HIDE DEF B
<1>4. p \in Polls /\ p.step = "answered" /\ p.batch = B /\ p.limit = poll[w].limit
  BY <1>1, PollFacts DEF Polls
<1>5. /\ poll' \in [Browsers -> Polls] /\ poll'[w] = p
      /\ \A v \in Browsers \ {w} : poll'[v] = poll[v]
  BY <1>3, <1>4 DEF B
<1> HIDE DEF p
<1>6. Types'
  BY <1>2, <1>3, <1>5 DEF IInv, Types, RowTypes
<1>7. RunsOK' /\ StraysOK'
  BY <1>2, <1>3, RunsKept, StraysKept
<1>8. BatchesOK'
  <2>1. \A i \in B : /\ status[i] = "pending" /\ bid[i] \in {NoBrowser, w}
                     /\ Cardinality({j \in B : j < i}) < poll[w].limit
                     /\ status'[i] = "processing"
    BY <1>1, <1>2
  <2>2. /\ poll'[w].step = "answered" /\ poll'[w].batch = B /\ poll'[w].limit = poll[w].limit
        /\ \A v \in Browsers \ {w} : poll'[v] = poll[v]
    BY <1>4, <1>5
  <2>3. /\ RunsOK /\ BatchesOK /\ RowsAdvance /\ runs' = runs /\ bid' = bid
        /\ poll \in [Browsers -> Polls] /\ B \in SUBSET Instructions
    BY <1>1, <1>2, <1>3
  <2>4. QED
    BY <2>1, <2>2, <2>3, BatchesGrow
<1>9. TasksOK'
  <2>1. \A v \in Browsers : poll'[v].step \in {"commanded", "reinstalling"} =>
                              poll[v].step \in {"commanded", "reinstalling"}
    BY <1>4, <1>5
  <2>2. QED
    BY <1>2, <1>3, <2>1, TasksKept
<1>10. CountsOK'
  <2>1. \A v \in Browsers : {i \in Instructions : task'[v][i].counted}
                             = {i \in Instructions : task[v][i].counted}
    BY <1>3
  <2>2. \A v \in Browsers : poll'[v].step \in {"asking", "answered"} =>
          poll[v].step \in {"asking", "answered"} /\ poll'[v].limit = poll[v].limit
    BY <1>4, <1>5
  <2>3. QED
    BY <1>3, <2>1, <2>2 DEF CountsOK
<1>11. TokensOK' /\ ReloadsOK' /\ QuietOK'
  <2>1. TokensOK'
    <3>1. \A v \in Browsers : \/ poll'[v] = poll[v]
                              \/ poll'[v].step = "answered" /\ stored[v] = NoToken /\ ~scheduled[v]
      BY <1>4, <1>5, PollFacts
    <3>2. QED
      BY <1>3, <3>1 DEF TokensOK
  <2>2. ReloadsOK' /\ QuietOK'
    BY <1>3 DEF ReloadsOK, QuietOK
  <2>3. QED
    BY <2>1, <2>2
<1>12. NoLostWork'
  <2> SUFFICES ASSUME faults = 0, NEW j \in Instructions, status'[j] = "processing"
               PROVE  Reporting(j)'
    BY <1>3 DEF NoLostWork
  <2>1. CASE j \in B
    BY <1>4, <1>5, <2>1 DEF Reporting
  <2>2. CASE j \notin B
    <3>1. PICK v \in Browsers : j \in poll[v].batch \/ task[v][j].step \in {"running", "posting"}
      BY <1>2, <1>3, <2>2 DEF NoLostWork, Reporting
    <3>2. j \in poll'[v].batch \/ task'[v][j].step \in {"running", "posting"}
      BY <1>3, <1>5, <3>1, PollFacts
    <3>3. QED
      BY <3>2 DEF Reporting
  <2>3. QED
    BY <2>1, <2>2
<1>13. QED
  BY <1>6, <1>7, <1>8, <1>9, <1>10, <1>11, <1>12 DEF IInv

LEMMA HandlePollKeeps ==
  ASSUME IInv, NEW w \in Browsers, HandlePoll(w)
  PROVE  IInv'
<1>1. UNCHANGED <<issued, stray, active, scheduled, task, stored, runs, reloads, faults>>
  BY DEF HandlePoll
<1>2. CASE /\ poll[w].step = "acknowledging" /\ Acknowledge(stored[w])
           /\ poll' = [poll EXCEPT ![w].step = "acknowledged"]
  BY <1>1, <1>2, AcknowledgeKeeps
<1>3. CASE /\ poll[w].step = "asking" /\ ClaimBatch(w, poll[w].limit)
           /\ UNCHANGED <<bid, outcome, reinstall>>
           /\ poll' = IF reinstall # NoToken
                        THEN [poll EXCEPT ![w].step = "commanded", ![w].limit = reinstall]
                        ELSE [poll EXCEPT ![w].step = "answered", ![w].batch = Batch(w, poll[w].limit)]
  <2>1. CASE reinstall # NoToken
    BY <1>1, <1>3, <2>1, CommandKeeps
  <2>2. CASE reinstall = NoToken
    BY <1>1, <1>3, <2>2, ClaimKeeps
  <2>3. QED
    BY <2>1, <2>2
<1>4. QED
  BY <1>2, <1>3 DEF HandlePoll

\* All of a response is within the limit and for this browser, so all of it starts.
LEMMA AllTaken ==
  ASSUME IInv, NEW w \in Browsers
  PROVE  LET batch == poll[w].batch
             mine == {i \in batch : bid[i] \in {NoBrowser, w}}
         IN /\ mine = batch /\ Oldest(poll[w].limit, mine) = batch
            /\ batch \in SUBSET Instructions /\ IsFiniteSet(batch)
            /\ Cardinality(batch) \in 0 .. poll[w].limit
<1> DEFINE batch == poll[w].batch
<1>1. \A i \in batch : /\ bid[i] \in {NoBrowser, w}
                       /\ Cardinality({j \in batch : j < i}) < poll[w].limit
  BY DEF IInv, BatchesOK
<1>2. {i \in batch : bid[i] \in {NoBrowser, w}} = batch
  BY <1>1
<1>3. Oldest(poll[w].limit, batch) = batch
  BY <1>1 DEF Oldest
<1>4. batch \in SUBSET Instructions /\ poll[w].limit \in Nat
  BY PollFacts DEF Polls
<1>5. batch \in SUBSET Nat /\ IsFiniteSet(batch)
  <2> HIDE DEF batch
  <2>1. QED
    BY <1>4, StackAssumption, FS_Subset
<1>6. Cardinality(batch) \in 0 .. poll[w].limit
  <2> HIDE DEF batch
  <2>1. QED
    BY <1>3, <1>4, <1>5, OldestBounded
<1>7. QED
  BY <1>2, <1>3, <1>4, <1>5, <1>6

LEMMA TakeWorkKeeps ==
  ASSUME IInv, NEW w \in Browsers, TakeWork(w)
  PROVE  IInv'
<1> DEFINE B == poll[w].batch
           started == [NoTask EXCEPT !.step = "running", !.counted = TRUE]
<1>1. /\ B \in SUBSET Instructions /\ IsFiniteSet(B) /\ Cardinality(B) \in 0 .. poll[w].limit
      /\ {i \in B : bid[i] \in {NoBrowser, w}} = B /\ Oldest(poll[w].limit, B) = B
  BY AllTaken
<1>2. /\ poll[w].step = "answered"
      /\ task' = [task EXCEPT ![w] = [i \in Instructions |->
                    IF i \in B THEN started ELSE task[w][i]]]
      /\ active' = [active EXCEPT ![w] = active[w] + Cardinality(B)]
      /\ runs' = [i \in Instructions |-> IF i \in B THEN Append(runs[i], w) ELSE runs[i]]
      /\ poll' = [poll EXCEPT ![w] = NoPoll]
      /\ UNCHANGED <<server, stray, scheduled, stored, reloads, faults>>
  <2>1. LET taken == Oldest(poll[w].limit, {i \in B : bid[i] \in {NoBrowser, w}})
        IN /\ taken = B
           /\ \A i \in Instructions : i \notin taken =>
                i \notin {j \in B : bid[j] \in {NoBrowser, w}}
    BY <1>1
  <2> HIDE DEF B
  <2>2. QED
    BY <1>1, <2>1 DEF TakeWork, B
<1> HIDE DEF B
<1>3. /\ rows' = rows /\ reinstall' = reinstall /\ issued' = issued /\ stray' = stray
      /\ scheduled' = scheduled /\ stored' = stored /\ reloads' = reloads /\ faults' = faults
      /\ status' = status /\ bid' = bid /\ outcome' = outcome
      /\ RunsOK /\ BatchesOK /\ TasksOK /\ StraysOK /\ CountsOK /\ TokensOK /\ ReloadsOK
      /\ NoLostWork /\ QuietOK /\ poll \in [Browsers -> Polls] /\ active \in [Browsers -> Nat]
      /\ task \in [Browsers -> [Instructions -> Tasks]] /\ runs \in [Instructions -> Seq(Browsers)]
  BY <1>2 DEF IInv, Types, server, rows
<1>4. /\ poll'[w] = NoPoll /\ NoPoll.step = "idle" /\ NoPoll.batch = {} /\ NoPoll \in Polls
      /\ active'[w] = active[w] + Cardinality(B)
      /\ \A i \in B : task'[w][i] = started
      /\ \A i \in Instructions \ B : task'[w][i] = task[w][i]
      /\ \A v \in Browsers \ {w} : /\ poll'[v] = poll[v] /\ active'[v] = active[v]
                                   /\ task'[v] = task[v]
  BY <1>1, <1>2, <1>3, PollFacts
<1>5. \A i \in B : /\ runs[i] = <<>> /\ Claimed(i) /\ bid[i] \in {NoBrowser, w}
                   /\ outcome[i] \notin Bodies /\ runs'[i] = <<w>>
                   /\ \A v \in Browsers : task[v][i] = NoTask
                   /\ \A v \in Browsers \ {w} : i \notin poll[v].batch
  <2> SUFFICES ASSUME NEW i \in B
               PROVE  /\ runs[i] = <<>> /\ Claimed(i) /\ bid[i] \in {NoBrowser, w}
                      /\ outcome[i] \notin Bodies /\ runs'[i] = <<w>>
                      /\ \A v \in Browsers : task[v][i] = NoTask
                      /\ \A v \in Browsers \ {w} : i \notin poll[v].batch
    OBVIOUS
  <2>1. /\ runs[i] = <<>> /\ Claimed(i) /\ bid[i] \in {NoBrowser, w} /\ i \in Instructions
        /\ \A v \in Browsers \ {w} : i \notin poll[v].batch
    BY <1>1, <1>3 DEF BatchesOK, B
  <2>2. outcome[i] \notin Bodies
    <3>1. \A v \in Browsers : runs[i] # <<v>>
      BY <2>1
    <3>2. QED
      BY <1>3, <2>1, <3>1 DEF RunsOK
  <2>3. \A v \in Browsers : task[v][i] = NoTask
    <3>1. \A v \in Browsers : runs[i] # <<v>>
      BY <2>1
    <3>2. QED
      BY <1>3, <2>1, <3>1 DEF TasksOK
  <2>4. runs'[i] = Append(runs[i], w)
    BY <1>2, <2>1
  <2>5. runs'[i] = <<w>>
    BY <2>1, <2>4
  <2>6. QED
    BY <2>1, <2>2, <2>3, <2>5
<1>6. \A i \in Instructions \ B : runs'[i] = runs[i]
  BY <1>2
<1>7. /\ started \in Tasks /\ started.step = "running" /\ started.counted
  BY DEF NoTask, Tasks
<1> HIDE DEF started
<1>8. Types'
  <2>1. task' \in [Browsers -> [Instructions -> Tasks]]
    BY <1>2, <1>3, <1>7
  <2>2. active' \in [Browsers -> Nat]
    BY <1>1, <1>2, <1>3, PollFacts
  <2>3. poll' \in [Browsers -> Polls]
    BY <1>2, <1>3, <1>4
  <2>4. runs' \in [Instructions -> Seq(Browsers)]
    <3>1. <<w>> \in Seq(Browsers)
      OBVIOUS
    <3>2. \A i \in Instructions : runs'[i] \in Seq(Browsers)
      BY <1>3, <1>5, <1>6, <3>1
    <3>3. runs' = [i \in Instructions |-> runs'[i]]
      BY <1>2
    <3>4. QED
      BY <3>2, <3>3
  <2>5. QED
    BY <1>3, <2>1, <2>2, <2>3, <2>4 DEF IInv, Types
<1>9. RunsOK'
  <2> SUFFICES ASSUME NEW i \in Instructions
               PROVE  \/ runs'[i] = <<>> /\ outcome[i] \notin Bodies
                      \/ \E v \in Browsers :
                           /\ runs'[i] = <<v>> /\ Claimed(i) /\ bid[i] \in {NoBrowser, v}
                           /\ outcome[i] \in Bodies => bid[i] = v
    BY <1>3 DEF RunsOK, Claimed
  <2>1. CASE i \in B
    BY <1>5, <2>1
  <2>2. CASE i \notin B
    BY <1>3, <1>6, <2>2 DEF RunsOK
  <2>3. QED
    BY <2>1, <2>2
<1>10. BatchesOK'
  <2> SUFFICES ASSUME NEW v \in Browsers, NEW i \in poll'[v].batch
               PROVE  /\ poll'[v].step = "answered"
                      /\ runs'[i] = <<>> /\ Claimed(i) /\ bid[i] \in {NoBrowser, v}
                      /\ \A u \in Browsers \ {v} : i \notin poll'[u].batch
                      /\ Cardinality({j \in poll'[v].batch : j < i}) < poll'[v].limit
    BY <1>3 DEF BatchesOK, Claimed
  <2>1. v # w /\ poll'[v] = poll[v] /\ i \in poll[v].batch /\ i \in Instructions
    BY <1>3, <1>4 DEF Polls
  <2>2. /\ poll[v].step = "answered"
        /\ runs[i] = <<>> /\ Claimed(i) /\ bid[i] \in {NoBrowser, v}
        /\ \A u \in Browsers \ {v} : i \notin poll[u].batch
        /\ Cardinality({j \in poll[v].batch : j < i}) < poll[v].limit
    BY <1>3, <2>1 DEF BatchesOK
  <2>3. i \notin B
    BY <2>1, <2>2 DEF B
  <2>4. \A u \in Browsers \ {v} : i \notin poll'[u].batch
    BY <1>4, <2>2
  <2>5. QED
    BY <1>6, <2>1, <2>2, <2>3, <2>4
<1>11. TasksOK'
  <2> SUFFICES ASSUME NEW v \in Browsers, NEW i \in Instructions, task'[v][i] # NoTask
               PROVE  /\ task'[v][i].step # "none" /\ task'[v][i].counted /\ runs'[i] = <<v>>
                      /\ task'[v][i].step # "running" => task'[v][i].body \in Bodies
                      /\ poll'[v].step \in {"commanded", "reinstalling"} => status[i] \in Terminal
    BY <1>3 DEF TasksOK
  <2>1. CASE v = w /\ i \in B
    BY <1>4, <1>5, <1>7, <2>1
  <2>2. CASE ~ (v = w /\ i \in B)
    <3>1. task'[v][i] = task[v][i]
      BY <1>4, <2>2
    <3>2. i \notin B
      BY <1>5, <3>1
    <3>3. runs'[i] = runs[i]
      BY <1>6, <3>2
    <3>4. poll'[v].step \in {"commanded", "reinstalling"} => poll'[v] = poll[v]
      BY <1>4
    <3>5. QED
      BY <1>3, <3>1, <3>3, <3>4 DEF TasksOK
  <2>3. QED
    BY <2>1, <2>2
<1>12. StraysOK'
  <2>1. \A m \in stray : m.kind = "result" => m.arg \notin B
    <3> SUFFICES ASSUME NEW m \in stray, m.kind = "result", m.arg \in B
                 PROVE  FALSE
      OBVIOUS
    <3>1. runs[m.arg] = <<m.from>>
      BY <1>3 DEF StraysOK
    <3>2. runs[m.arg] = <<>>
      BY <1>5
    <3>3. <<m.from>> # <<>>
      OBVIOUS
    <3>4. QED
      BY <3>1, <3>2, <3>3
  <2>2. QED
    BY <1>3, <1>6, <2>1 DEF StraysOK
<1>13. CountsOK'
  <2>1. Counted(w)' = Counted(w) \cup B /\ Counted(w) \cap B = {}
    <3>1. \A i \in B : ~ task[w][i].counted
      BY <1>5 DEF NoTask
    <3>2. QED
      BY <1>1, <1>4, <1>7, <3>1 DEF Counted
  <2>2. Cardinality(Counted(w)') = Cardinality(Counted(w)) + Cardinality(B)
    <3>1. Cardinality(Counted(w) \cap B) = 0
      BY <2>1, FS_EmptySet
    <3>2. Cardinality(Counted(w) \cup B) = Cardinality(Counted(w)) + Cardinality(B) - 0
      BY <1>1, <3>1, TaskFacts, FS_Union
    <3>3. QED
      BY <1>1, <2>1, <3>2, TaskFacts, FS_CardinalityType
  <2>3. active'[w] = Cardinality(Counted(w)') /\ active'[w] <= MaxConcurrent
    <3>1. active[w] + poll[w].limit <= MaxConcurrent
      BY <1>2, <1>3 DEF CountsOK
    <3>2. QED
      BY <1>1, <1>4, <2>2, <3>1, TaskFacts, PollFacts, StackAssumption
  <2>4. ASSUME NEW v \in Browsers, v # w
        PROVE  /\ active'[v] = Cardinality(Counted(v)') /\ active'[v] <= MaxConcurrent
               /\ poll'[v].step \in {"asking", "answered"} =>
                    active'[v] + poll'[v].limit <= MaxConcurrent
    <3>1. active'[v] = active[v] /\ task'[v] = task[v] /\ poll'[v] = poll[v]
      BY <1>4, <2>4
    <3>2. Counted(v)' = Counted(v)
      BY <3>1 DEF Counted
    <3>3. QED
      BY <1>3, <3>1, <3>2 DEF CountsOK, Counted
  <2>5. QED
    BY <1>4, <2>3, <2>4 DEF CountsOK, Counted
<1>14. TokensOK'
  <2>1. \A v \in Browsers : poll'[v] = poll[v] \/ (v = w /\ poll'[v].step = "idle" /\ ~scheduled[v])
    BY <1>2, <1>4, PollFacts
  <2>2. QED
    BY <1>3, <2>1 DEF TokensOK
<1>15. ReloadsOK' /\ QuietOK'
  BY <1>3 DEF ReloadsOK, QuietOK
<1>16. NoLostWork'
  <2> SUFFICES ASSUME faults = 0, NEW j \in Instructions, status[j] = "processing"
               PROVE  Reporting(j)'
    BY <1>3 DEF NoLostWork
  <2>1. CASE j \in B
    BY <1>4, <1>7, <2>1 DEF Reporting
  <2>2. CASE j \notin B
    <3>1. PICK v \in Browsers : j \in poll[v].batch \/ task[v][j].step \in {"running", "posting"}
      BY <1>3 DEF NoLostWork, Reporting
    <3>2. v = w => j \notin poll[v].batch
      BY <2>2 DEF B
    <3>3. j \in poll'[v].batch \/ task'[v][j].step \in {"running", "posting"}
      BY <1>4, <2>2, <3>1, <3>2
    <3>4. QED
      BY <3>3 DEF Reporting
  <2>3. QED
    BY <2>1, <2>2
<1>17. QED
  BY <1>8, <1>9, <1>10, <1>11, <1>12, <1>13, <1>14, <1>15, <1>16 DEF IInv

LEMMA InitKeeps ==
  ASSUME Init
  PROVE  IInv
<1> USE StackAssumption
<1>1. /\ NoPoll \in Polls /\ NoPoll.step = "idle" /\ NoPoll.batch = {}
      /\ NoTask \in Tasks /\ NoTask.counted = FALSE
  BY DEF NoPoll, Polls, NoTask, Tasks
<1>2. Types
  <2>1. poll \in [Browsers -> Polls] /\ task \in [Browsers -> [Instructions -> Tasks]]
    BY <1>1 DEF Init
  <2>2. runs \in [Instructions -> Seq(Browsers)] /\ reloads \in [Browsers -> Seq(Nat)]
    BY DEF Init
  <2>3. QED
    BY <2>1, <2>2 DEF Init, Types, NoToken
<1>3. RunsOK /\ BatchesOK /\ TasksOK /\ StraysOK
  BY <1>1 DEF Init, RunsOK, BatchesOK, TasksOK, StraysOK, Bodies
<1>4. CountsOK
  <2>1. \A w \in Browsers : {i \in Instructions : task[w][i].counted} = {}
    BY <1>1 DEF Init
  <2>2. \A w \in Browsers : Cardinality({i \in Instructions : task[w][i].counted}) = 0
    BY <2>1, FS_EmptySet
  <2>3. \A w \in Browsers : active[w] = 0 /\ poll[w].step = "idle"
    BY <1>1 DEF Init
  <2>4. 0 <= MaxConcurrent
    OBVIOUS
  <2>5. QED
    BY <2>2, <2>3, <2>4 DEF CountsOK
<1>5. TokensOK /\ ReloadsOK /\ QuietOK
  <2>1. \A w \in Browsers : /\ poll[w].step = "idle" /\ stored[w] = 0 /\ scheduled[w] = FALSE
                            /\ Len(reloads[w]) = 0
    BY <1>1 DEF Init, NoToken
  <2>2. TokensOK
    BY <2>1 DEF Init, TokensOK
  <2>3. ReloadsOK
    BY <2>1 DEF ReloadsOK
  <2>4. QED
    BY <2>2, <2>3 DEF Init, QuietOK
<1>6. NoLostWork
  BY DEF Init, NoLostWork
<1>7. QED
  BY <1>2, <1>3, <1>4, <1>5, <1>6 DEF IInv

LEMMA StutterKeeps ==
  ASSUME IInv, UNCHANGED vars
  PROVE  IInv'
<1>1. /\ status' = status /\ bid' = bid /\ outcome' = outcome /\ reinstall' = reinstall
      /\ issued' = issued /\ stray' = stray /\ faults' = faults
      /\ UNCHANGED <<worker, runs, reloads>>
  BY DEF vars, worker
<1>2. RowTypes' /\ RowsAdvance
  BY <1>1, RowsStay, TypesOfRows DEF rows
<1>3. QuietOK'
  BY <1>1 DEF IInv, QuietOK
<1>4. QED
  BY <1>1, <1>2, <1>3, TypesOfRows, ServerStepKeeps

\* The inductive invariant of server and browsers: who has been handed what, who ran
\* it, which requests are still on their way, and where each reinstall token is.
THEOREM StackInvariant == Spec => []IInv
<1>1. Init => IInv
  BY InitKeeps
<1>2. ASSUME IInv, [Next]_vars
      PROVE  IInv'
  <2>1. CASE Client
    BY <1>2, <2>1, CreateKeeps, RequestReinstallKeeps DEF Client
  <2>2. ASSUME NEW w \in Browsers, PollStep(w) \/ Crash(w) \/ PollFails(w)
        PROVE  IInv'
    <3>1. CASE PollStep(w)
      BY <1>2, <3>1, HandlePollKeeps, StartPollKeeps, AcknowledgedKeeps, AskForWorkKeeps,
         TakeWorkKeeps, StoreCommandKeeps, ScheduleReinstallKeeps, ReloadKeeps DEF PollStep
    <3>2. CASE Crash(w)
      BY <1>2, <3>2, CrashKeeps
    <3>3. CASE PollFails(w)
      BY <1>2, <3>3, PollFailsKeeps
    <3>4. QED
      BY <2>2, <3>1, <3>2, <3>3
  <2>3. ASSUME NEW w \in Browsers, NEW i \in Instructions, TaskStep(w, i) \/ ResultFails(w, i)
        PROVE  IInv'
    BY <1>2, <2>3, HandleResultKeeps, FinishActionKeeps, ResultAnsweredKeeps, ResultFailsKeeps
       DEF TaskStep
  <2>4. ASSUME NEW m \in stray, HandleStray(m) \/ LoseStray(m)
        PROVE  IInv'
    BY <1>2, <2>4, HandleStrayKeeps, LoseStrayKeeps
  <2>5. CASE UNCHANGED vars
    BY <1>2, <2>5, StutterKeeps
  <2>6. QED
    BY <1>2, <2>1, <2>2, <2>3, <2>4, <2>5 DEF Next
<1>3. QED
  BY <1>1, <1>2, PTL DEF Spec

\* Rows, tokens, counters and what is stored always have their types; no browser
\* holds a token that was never issued, and no counter drops below zero.
THEOREM StackTypes == Spec => []TypeOK
<1>1. IInv => TypeOK
  <2> SUFFICES ASSUME IInv
               PROVE  TypeOK
    OBVIOUS
  <2>1. \A w \in Browsers : active[w] \in Nat /\ stored[w] \in 0 .. issued
    BY PollFacts, TypesOfRows
  <2>2. reinstall \in 0 .. MaxUpsets
    BY TypesOfRows, StackAssumption DEF NoToken
  <2>3. QED
    BY <2>1, <2>2 DEF IInv, Types, TypeOK, Bodies
<1>2. QED
  BY <1>1, StackInvariant, PTL

\* Whatever is lost, repeated, late or restarted, and however many browsers poll, an
\* instruction's action runs at most once.
THEOREM ActionsRunAtMostOnce == Spec => []RanAtMostOnce
<1>1. IInv => RanAtMostOnce
  <2> SUFFICES ASSUME IInv, NEW i \in Instructions
               PROVE  Len(runs[i]) <= 1
    BY DEF RanAtMostOnce
  <2>1. runs[i] = <<>> \/ \E w \in Browsers : runs[i] = <<w>>
    BY DEF IInv, RunsOK
  <2>2. Len(<<>>) = 0
    OBVIOUS
  <2>3. \A w \in Browsers : Len(<<w>>) = 1
    OBVIOUS
  <2>4. CASE runs[i] = <<>>
    BY <2>2, <2>4
  <2>5. ASSUME NEW w \in Browsers, runs[i] = <<w>>
        PROVE  Len(runs[i]) <= 1
    BY <2>3, <2>5
  <2>6. QED
    BY <2>1, <2>4, <2>5
<1>2. QED
  BY <1>1, StackInvariant, PTL

\* The outcome that a row shows is that of the one browser that ran it, and the row
\* names this browser, also when the report came late or twice.
THEOREM ResultsNameTheirRunner == Spec => []ResultNamesRunner
<1>1. IInv => ResultNamesRunner
  <2> SUFFICES ASSUME IInv, NEW i \in Instructions, outcome[i] \in Bodies
               PROVE  runs[i] = <<bid[i]>>
    BY DEF ResultNamesRunner, Bodies
  <2>1. QED
    BY DEF IInv, RunsOK
<1>2. QED
  BY <1>1, StackInvariant, PTL

\* A worker's counter is the number of its actions in progress, and never exceeds the
\* limit, although the limit is read before a response is awaited.
THEOREM WorkersKeepTheirLimit == Spec => []ConcurrencyBound
<1>1. IInv => ConcurrencyBound
  BY DEF IInv, CountsOK, ConcurrencyBound
<1>2. QED
  BY <1>1, StackInvariant, PTL

\* A browser reloads at most once for a token, whatever happens to its
\* acknowledgements.
THEOREM OneReloadPerToken == Spec => []ReloadsOncePerToken
<1>1. IInv => ReloadsOncePerToken
  BY DEF IInv, ReloadsOK, ReloadsOncePerToken
<1>2. QED
  BY <1>1, StackInvariant, PTL

\* As long as no message or worker is lost, what is processing is on its way to a
\* worker or being worked on; reinstalls and their reloads lose nothing.
THEOREM ReinstallsLoseNoWork == Spec => []NoLostWork
<1>1. IInv => NoLostWork
  BY DEF IInv
<1>2. QED
  BY <1>1, StackInvariant, PTL

(***************************************************************************)
(* Server and browsers together implement InstructionExecution.            *)
(***************************************************************************)

\* Handing a poll its batch is the abstract hand-out to that browser.
LEMMA BatchIsHandedOut ==
  ASSUME IInv, NEW w \in Browsers, NEW n \in Nat, ClaimBatch(w, n),
         UNCHANGED <<bid, outcome, runs>>
  PROVE  Execution!Next
<1>1. /\ Batch(w, n) \in SUBSET Instructions
      /\ \A i \in Batch(w, n) : status[i] = "pending" /\ bid[i] \in {NoBrowser, w}
  BY TypesOfRows, BatchShape
<1>2. Execution!HandOut(Batch(w, n), w)
  BY <1>1 DEF ClaimBatch, Execution!HandOut
<1>3. QED
  BY <1>1, <1>2 DEF Execution!Next

\* A report that the server takes in, on time or late, is that of the runner.
LEMMA ResultIsReported ==
  ASSUME IInv, NEW w \in Browsers, NEW i \in Instructions, NEW body \in Bodies,
         runs[i] = <<w>>, StoreResult(w, i, body), UNCHANGED runs
  PROVE  Execution!Next \/ UNCHANGED Execution!executionVars
<1>1. CASE status[i] # "processing"
  BY <1>1 DEF StoreResult, rows, Execution!executionVars
<1>2. CASE status[i] = "processing"
  <2>1. bid[i] \in {NoBrowser, w}
    BY DEF IInv, RunsOK
  <2>2. /\ status' = [status EXCEPT ![i] = IF body = "error" THEN "failed" ELSE "completed"]
        /\ outcome' = [outcome EXCEPT ![i] = body]
        /\ bid' = [bid EXCEPT ![i] = IF bid[i] = NoBrowser THEN w ELSE bid[i]]
    BY <1>2 DEF StoreResult
  <2>3. bid' = [bid EXCEPT ![i] = w]
    BY <2>1, <2>2
  <2>4. Execution!Report(i, w, body)
    BY <1>2, <2>1, <2>2, <2>3 DEF Execution!Report
  <2>5. QED
    BY <2>4 DEF Execution!Next, Bodies
<1>3. QED
  BY <1>1, <1>2

\* Both reinstall handlers interrupt what is processing, or nothing.
LEMMA FailureInterrupts ==
  ASSUME FailProcessing, UNCHANGED runs
  PROVE  Execution!Next
BY DEF FailProcessing, Execution!Interrupt, Execution!Next

LEMMA AcknowledgementInterrupts ==
  ASSUME NEW t, Acknowledge(t), UNCHANGED runs
  PROVE  Execution!Next \/ UNCHANGED Execution!executionVars
<1>1. CASE reinstall = t
  BY <1>1, FailureInterrupts DEF Acknowledge
<1>2. CASE reinstall # t
  BY <1>2 DEF Acknowledge, rows, Execution!executionVars
<1>3. QED
  BY <1>1, <1>2

\* A worker begins what it was handed, in one step and for the first time.
LEMMA WorkIsBegun ==
  ASSUME IInv, NEW w \in Browsers, TakeWork(w)
  PROVE  Execution!Next
<1> DEFINE B == poll[w].batch
<1>1. /\ B \in SUBSET Instructions
      /\ {i \in B : bid[i] \in {NoBrowser, w}} = B /\ Oldest(poll[w].limit, B) = B
  BY AllTaken
<1>2. /\ runs' = [i \in Instructions |-> IF i \in B THEN Append(runs[i], w) ELSE runs[i]]
      /\ UNCHANGED server
  <2>1. Oldest(poll[w].limit, {i \in B : bid[i] \in {NoBrowser, w}}) = B
    BY <1>1
  <2> HIDE DEF B
  <2>2. QED
    BY <2>1 DEF TakeWork, B
<1>3. \A i \in B : runs[i] = <<>> /\ Claimed(i) /\ bid[i] \in {NoBrowser, w}
  BY DEF IInv, BatchesOK
<1> HIDE DEF B
<1>4. runs' = [i \in Instructions |-> IF i \in B THEN <<w>> ELSE runs[i]]
  <2>1. \A i \in B : Append(runs[i], w) = <<w>>
    <3>1. Append(<<>>, w) = <<w>>
      OBVIOUS
    <3>2. QED
      BY <1>3, <3>1
  <2>2. QED
    BY <1>2, <2>1
<1>5. Execution!Begin(B, w)
  BY <1>2, <1>3, <1>4 DEF server, Claimed, Terminal, Execution!Begin
<1>6. QED
  BY <1>1, <1>5 DEF Execution!Next

\* What the rest of the system does is not visible in rows and runs.
LEMMA HandlersImplement ==
  ASSUME IInv, NEW w \in Browsers, HandlePoll(w)
  PROVE  Execution!Next \/ UNCHANGED Execution!executionVars
<1>1. UNCHANGED runs /\ poll[w].limit \in Nat
  BY PollFacts DEF HandlePoll
<1>2. CASE Acknowledge(stored[w])
  BY <1>1, <1>2, AcknowledgementInterrupts
<1>3. CASE ClaimBatch(w, poll[w].limit) /\ UNCHANGED <<bid, outcome>>
  BY <1>1, <1>3, BatchIsHandedOut
<1>4. QED
  BY <1>2, <1>3 DEF HandlePoll

LEMMA StraysImplement ==
  ASSUME IInv, NEW m \in stray, HandleStray(m)
  PROVE  Execution!Next \/ UNCHANGED Execution!executionVars
<1>1. UNCHANGED runs /\ m \in Requests /\ m.from \in Browsers /\ m.arg \in Nat
  BY TypesOfRows DEF HandleStray, Requests
<1>2. \/ /\ m.kind = "result" /\ m.arg \in Instructions /\ m.body \in Bodies
         /\ runs[m.arg] = <<m.from>>
      \/ m.kind # "result"
  BY DEF IInv, StraysOK
<1>3. CASE m.kind = "poll" /\ ClaimBatch(m.from, m.arg) /\ UNCHANGED <<bid, outcome>>
  BY <1>1, <1>3, BatchIsHandedOut
<1>4. CASE Acknowledge(m.arg)
  BY <1>1, <1>4, AcknowledgementInterrupts
<1>5. CASE m.kind = "result" /\ StoreResult(m.from, m.arg, m.body)
  BY <1>1, <1>2, <1>5, ResultIsReported
<1>6. QED
  BY <1>3, <1>4, <1>5 DEF HandleStray

LEMMA ExecutionStep ==
  ASSUME IInv, [Next]_vars
  PROVE  Execution!Next \/ UNCHANGED Execution!executionVars
<1>1. ASSUME NEW i \in Instructions, NEW b \in Browsers \cup {NoBrowser},
             CreateInstruction(i, b)
      PROVE  Execution!Next
  BY <1>1 DEF CreateInstruction, Execution!Submit, Execution!Next
<1>2. CASE RequestReinstall
  BY <1>2, FailureInterrupts DEF RequestReinstall
<1>3. ASSUME NEW w \in Browsers, PollStep(w) \/ Crash(w) \/ PollFails(w)
      PROVE  Execution!Next \/ UNCHANGED Execution!executionVars
  <2>1. CASE HandlePoll(w)
    BY <2>1, HandlersImplement
  <2>2. CASE TakeWork(w)
    BY <2>2, WorkIsBegun
  <2>3. ASSUME StartPoll(w) \/ Acknowledged(w) \/ AskForWork(w) \/ StoreCommand(w)
               \/ ScheduleReinstall(w) \/ PollFails(w)
        PROVE  UNCHANGED <<server, runs>>
    BY <2>3 DEF StartPoll, Acknowledged, AskForWork, StoreCommand, ScheduleReinstall, PollFails
  <2>4. ASSUME Reload(w) \/ Crash(w)
        PROVE  UNCHANGED <<server, runs>>
    BY <2>4 DEF Reload, Crash, Restart
  <2>5. QED
    BY <1>3, <2>1, <2>2, <2>3, <2>4 DEF PollStep, server, Execution!executionVars
<1>4. ASSUME NEW w \in Browsers, NEW i \in Instructions, TaskStep(w, i) \/ ResultFails(w, i)
      PROVE  Execution!Next \/ UNCHANGED Execution!executionVars
  <2>1. CASE HandleResult(w, i)
    <3>1. /\ task[w][i].body \in Bodies /\ runs[i] = <<w>>
          /\ StoreResult(w, i, task[w][i].body) /\ UNCHANGED runs
      BY <2>1, TaskFacts DEF HandleResult
    <3>2. QED
      BY <3>1, ResultIsReported
  <2>2. ASSUME \/ \E body \in Bodies : FinishAction(w, i, body)
               \/ ResultAnswered(w, i) \/ ResultFails(w, i)
        PROVE  UNCHANGED <<server, runs>>
    BY <2>2 DEF FinishAction, ResultAnswered, ResultFails
  <2>3. QED
    BY <1>4, <2>1, <2>2 DEF TaskStep, Bodies, server, Execution!executionVars
<1>5. ASSUME NEW m \in stray, HandleStray(m) \/ LoseStray(m)
      PROVE  Execution!Next \/ UNCHANGED Execution!executionVars
  BY <1>5, StraysImplement DEF LoseStray, server, Execution!executionVars
<1>6. CASE UNCHANGED vars
  BY <1>6 DEF vars, Execution!executionVars
<1>7. QED
  BY <1>1, <1>2, <1>3, <1>4, <1>5, <1>6 DEF Next, Client

\* Whatever is lost, late, repeated or restarted, and however many browsers there are,
\* clients see each instruction handed out to a browser it is for, begun once, and ended
\* once: by the report of the browser that ran it, or by a reinstall.
THEOREM StackImplementsExecution == Spec => ImplementsExecution
<1>1. Init => Execution!Init
  BY DEF Init, Execution!Init
<1>2. IInv /\ [Next]_vars => [Execution!Next]_(Execution!executionVars)
  BY ExecutionStep
<1>3. QED
  BY <1>1, <1>2, StackInvariant, PTL DEF Spec, ImplementsExecution, Execution!Spec
===============================================================================
