---------------------------- MODULE Startup_proofs -----------------------------
(***************************************************************************)
(* Proofs about Startup: its inductive invariant IInv, that documents are  *)
(* only created where there is none, and that no load of the settings      *)
(* writes over what a user has saved.                                      *)
(***************************************************************************)
EXTENDS Startup, TLAPS

\* The calls of ensureOffscreenDocument that may be pending.
Ensures == [recreate : BOOLEAN, step : {"contexts", "close", "create"}]

\* What is not to change while settings are loaded.
LEMMA SettingsApart ==
  /\ Current \subseteq Settings /\ Settings = Current \cup {"nothing", "old"}
  /\ "nothing" \notin Current /\ "old" \notin Current
  /\ \A v \in Settings : Normalized(v) \in Current /\ (Normalized(v) = v <=> v \in Current)
  /\ NoLoad \in Loads /\ NoLoad.pc = "free" /\ NoLoad.for = "nobody"
<1>1. "nothing" \notin Saves /\ "old" \notin Saves
  BY StartupAssumption
<1>2. QED
  BY <1>1 DEF Current, Settings, Normalized, NoLoad, Loads

(***************************************************************************)
(* The chain of ensureOffscreenDocument.                                   *)
(***************************************************************************)

\* The first call of a chain ends.
LEMMA EndShape ==
  ASSUME NEW S, NEW c \in Seq(S), c # <<>>
  PROVE  /\ RemoveAt(c, 1) \in Seq(S)
         /\ DOMAIN RemoveAt(c, 1) = 1 .. Len(c) - 1
         /\ \A i \in 1 .. Len(c) - 1 : RemoveAt(c, 1)[i] = c[i + 1] /\ i + 1 \in DOMAIN c
BY DEF RemoveAt

\* A call is appended to the chain, or is its only one.
LEMMA AppendShape ==
  ASSUME NEW S, NEW c \in Seq(S), NEW m \in S
  PROVE  /\ Append(c, m) \in Seq(S) /\ Len(c) \in Nat
         /\ DOMAIN Append(c, m) = 1 .. Len(c) + 1 /\ Len(Append(c, m)) = Len(c) + 1
         /\ \A i \in 1 .. Len(c) : Append(c, m)[i] = c[i]
         /\ Append(c, m)[Len(c) + 1] = m
         /\ <<m>> \in Seq(S) /\ DOMAIN <<m>> = {1} /\ 1 .. Len(<<m>>) = {1} /\ <<m>>[1] = m
OBVIOUS

\* A call that is appended waits; a new worker begins with one call.
LEMMA ChainGrows ==
  ASSUME chain \in Seq(Ensures), ChainOK, page = "none" => page' = "none",
         \/ chain' = Append(chain, Ensure(FALSE))
         \/ chain' = <<Ensure(TRUE)>>
         \/ chain' = chain
  PROVE  chain' \in Seq(Ensures) /\ ChainOK'
<1>1. /\ Ensure(FALSE) \in Ensures /\ Ensure(TRUE) \in Ensures
      /\ Ensure(FALSE).step = "contexts" /\ Ensure(TRUE).step = "contexts"
  BY DEF Ensure, Ensures
<1>2. /\ DOMAIN chain = 1 .. Len(chain) /\ Len(chain) \in Nat
  OBVIOUS
<1>3. CASE chain' = Append(chain, Ensure(FALSE))
  <2>1. /\ chain' \in Seq(Ensures) /\ DOMAIN chain' = 1 .. Len(chain) + 1
        /\ Len(chain') = Len(chain) + 1
        /\ \A i \in 1 .. Len(chain) : chain'[i] = chain[i]
        /\ chain'[Len(chain) + 1] = Ensure(FALSE)
    <3> DEFINE m == Ensure(FALSE)
    <3>1. m \in Ensures /\ chain' = Append(chain, m)
      BY <1>1, <1>3
    <3> HIDE DEF m
    <3>2. /\ Append(chain, m) \in Seq(Ensures)
          /\ DOMAIN Append(chain, m) = 1 .. Len(chain) + 1 /\ Len(Append(chain, m)) = Len(chain) + 1
          /\ \A i \in 1 .. Len(chain) : Append(chain, m)[i] = chain[i]
          /\ Append(chain, m)[Len(chain) + 1] = m
      BY <3>1, AppendShape
    <3>3. QED
      BY <3>1, <3>2 DEF m
  <2>2. \A i \in 1 .. Len(chain) + 1 : i \in 1 .. Len(chain) \/ i = Len(chain) + 1
    BY <1>2
  <2>3. QED
    BY <1>1, <1>2, <2>1, <2>2 DEF ChainOK, OneOffscreenDocument
<1>4. CASE chain' = <<Ensure(TRUE)>>
  <2>1. /\ chain' \in Seq(Ensures) /\ DOMAIN chain' = {1} /\ 1 .. Len(chain') = {1}
        /\ chain'[1] = Ensure(TRUE)
    BY <1>1, <1>4, AppendShape
  <2>2. QED
    BY <1>1, <2>1 DEF ChainOK, OneOffscreenDocument
<1>5. CASE chain' = chain
  BY <1>5 DEF ChainOK, OneOffscreenDocument
<1>6. QED
  BY <1>3, <1>4, <1>5

\* Only the first call of the chain proceeds, and none but it ends.
LEMMA DocumentStepIInv ==
  ASSUME IInv, DocumentStep
  PROVE  IInv'
<1>1. PICK i \in 1 .. MaxChain : GetContexts(i) \/ CloseDocument(i) \/ CreateDocument(i)
  BY DEF DocumentStep
<1>2. /\ i = 1 /\ chain # <<>> /\ chain \in Seq(Ensures) /\ ChainOK
      /\ 1 \in DOMAIN chain /\ chain[1] \in Ensures
      /\ DOMAIN chain = 1 .. Len(chain) /\ Len(chain) \in Nat
  <2>1. i = 1 /\ chain # <<>> /\ chain \in Seq(Ensures) /\ ChainOK
    BY <1>1 DEF GetContexts, CloseDocument, CreateDocument, Turn, IInv, TypeOK, Ensures
  <2>2. QED
    BY <2>1
<1>3. ASSUME NEW step \in {"close", "create"}, chain' = [chain EXCEPT ![1].step = step],
             step = "create" => page' = "none"
      PROVE  chain' \in Seq(Ensures) /\ ChainOK'
  <2>1. [chain[1] EXCEPT !.step = step] \in Ensures /\ [chain[1] EXCEPT !.step = step].step = step
    BY <1>2 DEF Ensures
  <2>2. /\ chain' \in Seq(Ensures) /\ DOMAIN chain' = DOMAIN chain /\ Len(chain') = Len(chain)
        /\ chain'[1].step = step /\ \A j \in DOMAIN chain : j # 1 => chain'[j] = chain[j]
    BY <1>2, <1>3, <2>1
  <2>3. QED
    BY <1>2, <1>3, <2>2 DEF ChainOK, OneOffscreenDocument
<1>4. ASSUME chain' = RemoveAt(chain, 1)
      PROVE  chain' \in Seq(Ensures) /\ ChainOK'
  <2>1. /\ chain' \in Seq(Ensures) /\ DOMAIN chain' = 1 .. Len(chain) - 1
        /\ \A j \in 1 .. Len(chain) - 1 : chain'[j] = chain[j + 1] /\ j + 1 \in DOMAIN chain
    BY <1>2, <1>4, EndShape
  <2>2. \A j \in 1 .. Len(chain) - 1 : chain'[j].step = "contexts"
    BY <1>2, <2>1 DEF ChainOK
  <2>3. DOMAIN chain' = 1 .. Len(chain')
    BY <2>1
  <2>4. QED
    BY <2>1, <2>2, <2>3 DEF ChainOK, OneOffscreenDocument
<1>5. CASE GetContexts(i)
  <2>1. /\ UNCHANGED <<worker, promise, load, page, timer, interval, popup, stored, bounded>>
        /\ \/ chain' = [chain EXCEPT ![1].step = "close"]
           \/ page = "none" /\ chain' = [chain EXCEPT ![1].step = "create"]
           \/ chain' = RemoveAt(chain, 1)
    BY <1>2, <1>5 DEF GetContexts, Proceed, End
  <2>2. chain' \in Seq(Ensures) /\ ChainOK' /\ worker = "up"
    BY <1>2, <1>3, <1>4, <2>1 DEF IInv, TypeOK
  <2>3. QED
    BY <2>1, <2>2 DEF IInv, TypeOK, Ensures, AnswersOK, SeedingOK, SeededOK, Busy, bounded
<1>6. CASE CloseDocument(i)
  <2>1. /\ UNCHANGED <<worker, promise, popup, stored, bounded>>
        /\ chain' = [chain EXCEPT ![1].step = "create"]
        /\ page' = "none" /\ timer' = FALSE /\ interval' = "default" /\ load' = Deaf("page")
    BY <1>2, <1>6 DEF CloseDocument, Proceed
  <2>2. chain' \in Seq(Ensures) /\ ChainOK' /\ worker = "up"
    BY <1>2, <1>3, <2>1 DEF IInv, TypeOK
  <2>3. /\ load' \in [Slots -> Loads]
        /\ \A s \in Slots : /\ load'[s].pc = load[s].pc /\ load'[s].first = load[s].first
                            /\ load'[s].read = load[s].read /\ load'[s].for # "page"
    BY <2>1 DEF Deaf, IInv, TypeOK, Loads
  <2>4. TypeOK'
    BY <2>1, <2>2, <2>3 DEF IInv, TypeOK, Ensures, bounded
  <2>5. AnswersOK' /\ SeedingOK' /\ SeededOK'
    BY <2>1, <2>3 DEF IInv, AnswersOK, SeedingOK, SeededOK, Busy
  <2>6. QED
    BY <2>2, <2>4, <2>5 DEF IInv
<1>7. CASE CreateDocument(i)
  <2>1. /\ UNCHANGED <<worker, promise, load, timer, interval, popup, stored, bounded>>
        /\ chain' = RemoveAt(chain, 1)
        /\ page' = IF page = "none" THEN "loading" ELSE page
    BY <1>2, <1>7 DEF CreateDocument, End
  <2>2. chain' \in Seq(Ensures) /\ ChainOK' /\ worker = "up"
    BY <1>2, <1>4, <2>1 DEF IInv, TypeOK
  <2>3. QED
    BY <2>1, <2>2 DEF IInv, TypeOK, Ensures, AnswersOK, SeedingOK, SeededOK, Busy, bounded
<1>8. QED
  BY <1>1, <1>5, <1>6, <1>7

(***************************************************************************)
(* The calls of getConfiguration.                                          *)
(***************************************************************************)

\* A call takes a free slot, or that of one that is over.  It is the first
\* exactly if none is pending and the settings were not loaded yet.
LEMMA CallKept ==
  ASSUME IInv, NEW s \in Slots, load[s].pc \in {"free", "answered", "rejected"},
         NEW client \in {"page", "poll", "popup"}, load' = [load EXCEPT ![s] = Call(client)],
         Called, stored' = stored, popup' = popup \/ popup' # "filled",
         client = "page" => page' = "open", page = "open" => page' = "open"
  PROVE  /\ load' \in [Slots -> Loads] /\ promise' \in {"null", "pending", "resolved"}
         /\ AnswersOK' /\ SeedingOK' /\ SeededOK'
<1> DEFINE call == Call(client)
<1>1. /\ load \in [Slots -> Loads] /\ promise \in {"null", "pending", "resolved"}
      /\ AnswersOK /\ SeedingOK /\ SeededOK
  BY DEF IInv, TypeOK
<1>2. /\ call \in Loads /\ call.for = client /\ call.first = (promise = "null")
      /\ call.pc = IF promise = "pending" THEN "waiting" ELSE "reading"
  BY SettingsApart DEF Call, NoLoad, Loads
<1> HIDE DEF call
<1>3. /\ load' = [load EXCEPT ![s] = call]
      /\ promise' = IF promise = "null" THEN "pending" ELSE promise
  BY DEF call, Called
<1>4. /\ load' \in [Slots -> Loads] /\ promise' \in {"null", "pending", "resolved"}
      /\ load'[s] = call /\ \A o \in Slots : o # s => load'[o] = load[o]
  BY <1>1, <1>2, <1>3
<1>5. AnswersOK'
  BY <1>1, <1>2, <1>4 DEF AnswersOK
<1>6. SeedingOK'
  <2>1. SUFFICES ASSUME stored \notin Current
                 PROVE  /\ popup' # "filled" /\ promise' # "resolved"
                        /\ \A o \in Slots :
                             /\ load'[o].pc # "answered"
                             /\ Busy(o)' => load'[o].first /\ promise' = "pending"
                                            /\ \A q \in Slots : Busy(q)' => q = o
    BY DEF SeedingOK
  <2>2. /\ popup # "filled" /\ promise # "resolved"
        /\ \A o \in Slots :
             /\ load[o].pc # "answered"
             /\ Busy(o) => load[o].first /\ promise = "pending" /\ \A q \in Slots : Busy(q) => q = o
    BY <1>1, <2>1 DEF SeedingOK
  <2>3. \A o \in Slots : o # s => (Busy(o)' <=> Busy(o))
    BY <1>4 DEF Busy
  <2>4. Busy(s)' <=> promise = "null"
    BY <1>1, <1>2, <1>4, <2>2 DEF Busy
  <2>5. ~Busy(s)
    BY DEF Busy
  <2>6. QED
    BY <1>1, <1>2, <1>3, <1>4, <2>2, <2>3, <2>4, <2>5
<1>7. SeededOK'
  BY <1>1, <1>2, <1>4 DEF SeededOK
<1>8. QED
  BY <1>4, <1>5, <1>6, <1>7

\* Calls that go on as they were, are freed or not listened to any more.
LEMMA LoadsKept ==
  ASSUME IInv, load' \in [Slots -> Loads], stored' = stored,
         \A s \in Slots :
           /\ load'[s].for \in {load[s].for, "nobody"}
           /\ \/ load'[s].pc = "free"
              \/ /\ load'[s].pc = load[s].pc /\ load'[s].first = load[s].first
                 /\ load'[s].read = load[s].read,
         promise' = promise \/ (promise' = "null" /\ \A s \in Slots : load'[s].pc = "free"),
         popup' = popup \/ popup' # "filled" \/ stored \in Current,
         page' = page \/ \A s \in Slots : load'[s].for # "page"
  PROVE  AnswersOK' /\ SeedingOK' /\ SeededOK'
<1>1. AnswersOK /\ SeedingOK /\ SeededOK
  BY DEF IInv
<1>2. AnswersOK'
  BY <1>1 DEF AnswersOK
<1>3. \A s \in Slots : Busy(s)' => Busy(s) /\ load'[s].first = load[s].first
  BY DEF Busy
<1>4. SeedingOK'
  BY <1>1, <1>3 DEF SeedingOK, Busy
<1>5. SeededOK'
  BY <1>1 DEF SeededOK
<1>6. QED
  BY <1>2, <1>4, <1>5

\* What the end of a load does to the calls.
LEMMA SettleShape ==
  ASSUME TypeOK, NEW s \in Slots, load[s].pc # "waiting", NEW pc \in {"answered", "rejected"}, NEW read \in Settings,
         Settle(s, pc, read)
  PROVE  /\ load' \in [Slots -> Loads] /\ promise' \in {"null", "pending", "resolved"}
         /\ load[s].first /\ pc = "rejected" => promise' = "null"
         /\ load'[s].pc = pc /\ load'[s].read = read /\ load'[s].for = load[s].for
         /\ \A o \in Slots : o # s =>
              /\ load'[o].for = load[o].for /\ load'[o].read = load[o].read
              /\ load'[o].pc = load[o].pc \/ load'[o].pc = "rejected"
                   \/ (pc = "answered" /\ load'[o].pc = "reading")
<1>1. load \in [Slots -> Loads] /\ promise \in {"null", "pending", "resolved"}
  BY DEF TypeOK
<1>2. /\ promise' = IF ~load[s].first THEN promise ELSE IF pc = "rejected" THEN "null" ELSE "resolved"
      /\ load' = [o \in Slots |->
           CASE o = s -> [load[s] EXCEPT !.pc = pc, !.read = read]
             [] load[o].pc = "waiting" /\ load[s].first ->
                  [load[o] EXCEPT !.pc = IF pc = "rejected" THEN "rejected" ELSE "reading"]
             [] OTHER -> load[o]]
  BY DEF Settle
<1>3. /\ load'[s] = [load[s] EXCEPT !.pc = pc, !.read = read]
      /\ \A o \in Slots : o # s =>
           load'[o] = IF load[o].pc = "waiting" /\ load[s].first
                      THEN [load[o] EXCEPT !.pc = IF pc = "rejected" THEN "rejected" ELSE "reading"]
                      ELSE load[o]
  BY <1>2
<1>4. /\ load'[s] \in Loads
      /\ load'[s].pc = pc /\ load'[s].read = read /\ load'[s].for = load[s].for
  <2>1. load[s] \in Loads
    BY <1>1
  <2>2. load'[s] = [load[s] EXCEPT !.pc = pc, !.read = read]
    BY <1>3
  <2>3. QED
    BY <2>1, <2>2 DEF Loads
<1>5. ASSUME NEW o \in Slots, o # s
      PROVE  /\ load'[o] \in Loads
             /\ load'[o].for = load[o].for /\ load'[o].read = load[o].read
             /\ load'[o].pc = load[o].pc \/ load'[o].pc = "rejected"
                  \/ (pc = "answered" /\ load'[o].pc = "reading")
  <2>1. load[o] \in Loads
    BY <1>1
  <2>2. CASE load[o].pc = "waiting" /\ load[s].first
    BY <1>3, <1>5, <2>1, <2>2 DEF Loads
  <2>3. CASE ~(load[o].pc = "waiting" /\ load[s].first)
    BY <1>3, <1>5, <2>1, <2>3
  <2>4. QED
    BY <2>2, <2>3
<1>6. load' \in [Slots -> Loads]
  <2>1. \A o \in Slots : load'[o] \in Loads
    BY <1>4, <1>5
  <2>2. DOMAIN load' = Slots /\ load' = [o \in Slots |-> load'[o]]
    BY <1>2
  <2>3. QED
    BY <2>1, <2>2
<1>7. QED
  BY <1>1, <1>2, <1>4, <1>5, <1>6

\* The load proceeds, and only that of settings that are not up to date
\* writes.
LEMMA LoadStep ==
  ASSUME IInv, NEW s \in Slots,
         \/ LoadConfiguration(s)
         \/ FailConfiguration(s)
  PROVE  IInv' /\ (stored \in Current => stored' = stored)
<1>1. /\ TypeOK /\ ChainOK /\ AnswersOK /\ SeedingOK /\ SeededOK
      /\ load \in [Slots -> Loads] /\ load[s] \in Loads /\ stored \in Settings
      /\ UNCHANGED <<worker, chain, page, timer, interval, popup, saved, reloads>>
  BY DEF IInv, TypeOK, LoadConfiguration, FailConfiguration
<1>2. ChainOK' /\ worker = "up"
  <2>1. load[s].pc # "free"
    BY DEF LoadConfiguration, FailConfiguration, ReadStored, FetchSettings, WriteBack, FetchFails
  <2>2. QED
    BY <1>1, <2>1 DEF TypeOK, ChainOK, OneOffscreenDocument
<1>3. ASSUME load' \in [Slots -> Loads], promise' \in {"null", "pending", "resolved"},
             stored' \in Settings, failures' \in 0 .. MaxFailures
      PROVE  TypeOK'
  BY <1>1, <1>2, <1>3 DEF TypeOK
<1>4. CASE ReadStored(s) /\ Normalized(stored) = stored
  <2>1. /\ Settle(s, "answered", stored) /\ UNCHANGED <<stored, failures>>
        /\ stored \in Current
    BY <1>1, <1>4, SettingsApart DEF ReadStored
  <2>2. /\ load' \in [Slots -> Loads] /\ promise' \in {"null", "pending", "resolved"}
        /\ load'[s].pc = "answered" /\ load'[s].read = stored /\ load'[s].for = load[s].for
        /\ \A o \in Slots : o # s =>
             /\ load'[o].for = load[o].for /\ load'[o].read = load[o].read
             /\ load'[o].pc = load[o].pc \/ load'[o].pc \in {"rejected", "reading"}
    BY <1>1, <1>4, <2>1, SettleShape DEF ReadStored
  <2>3. TypeOK'
    BY <1>1, <1>3, <2>1, <2>2 DEF TypeOK
  <2>4. AnswersOK'
    BY <1>1, <2>1, <2>2 DEF AnswersOK
  <2>5. SeedingOK' /\ SeededOK'
    BY <1>1, <2>1, <2>2 DEF SeedingOK, SeededOK
  <2>6. QED
    BY <1>2, <2>1, <2>3, <2>4, <2>5 DEF IInv
<1>5. CASE (ReadStored(s) /\ Normalized(stored) # stored) \/ FetchSettings(s)
  <2>1. PICK pc \in {"fetching", "writing"}, read \in Settings :
          /\ load' = [load EXCEPT ![s].pc = pc, ![s].read = read]
          /\ UNCHANGED <<promise, stored, failures>> /\ Busy(s)
    <3>1. CASE ReadStored(s) /\ Normalized(stored) # stored
      <4>1. /\ load' = [load EXCEPT ![s].pc = IF stored = "nothing" THEN "fetching" ELSE "writing",
                                    ![s].read = stored]
            /\ UNCHANGED <<promise, stored, failures>> /\ Busy(s)
        BY <3>1 DEF ReadStored, Busy
      <4>2. QED
        BY <1>1, <4>1
    <3>2. CASE FetchSettings(s)
      <4>1. /\ load' = [load EXCEPT ![s].pc = "writing"]
            /\ UNCHANGED <<promise, stored, failures>> /\ Busy(s)
        BY <3>2 DEF FetchSettings, Busy
      <4>2. load' = [load EXCEPT ![s].pc = "writing", ![s].read = load[s].read] /\ load[s].read \in Settings
        BY <1>1, <4>1 DEF Loads
      <4>3. QED
        BY <4>1, <4>2
    <3>3. QED
      BY <1>5, <3>1, <3>2
  <2>2. stored \notin Current
    BY <1>1, <1>5, SettingsApart DEF SeededOK, FetchSettings
  <2>3. /\ load' \in [Slots -> Loads]
        /\ load'[s].pc = pc /\ load'[s].first = load[s].first /\ load'[s].for = load[s].for
        /\ \A o \in Slots : o # s => load'[o] = load[o]
    BY <1>1, <2>1 DEF Loads
  <2>4. \A o \in Slots : Busy(o)' <=> Busy(o)
    BY <2>1, <2>3 DEF Busy
  <2>5. TypeOK'
    BY <1>1, <1>3, <2>1, <2>3 DEF TypeOK
  <2>6. AnswersOK'
    BY <1>1, <2>1, <2>3 DEF AnswersOK
  <2>7. SeedingOK'
    BY <1>1, <2>1, <2>2, <2>3, <2>4 DEF SeedingOK
  <2>8. SeededOK'
    BY <2>1, <2>2 DEF SeededOK
  <2>9. QED
    BY <1>2, <2>1, <2>5, <2>6, <2>7, <2>8 DEF IInv
<1>6. CASE FailConfiguration(s) \/ WriteBack(s)
  <2>1. stored \notin Current /\ Busy(s)
    BY <1>1, <1>6 DEF SeededOK, FailConfiguration, FetchFails, WriteBack, Busy
  <2>2. /\ load[s].first /\ popup # "filled"
        /\ \A o \in Slots : o # s => load[o].pc \notin {"reading", "fetching", "writing", "answered"}
    BY <1>1, <2>1 DEF SeedingOK, Busy
  <2>3. CASE WriteBack(s)
    <3>1. /\ stored' = Normalized(load[s].read) /\ stored' \in Current /\ stored' \in Settings
          /\ Settle(s, "answered", stored') /\ UNCHANGED failures
      BY <1>1, <2>3, SettingsApart DEF WriteBack, Loads
    <3>2. /\ load' \in [Slots -> Loads] /\ promise' \in {"null", "pending", "resolved"}
          /\ load'[s].pc = "answered" /\ load'[s].read = stored' /\ load'[s].for = load[s].for
          /\ \A o \in Slots : o # s =>
               /\ load'[o].for = load[o].for /\ load'[o].read = load[o].read
               /\ load'[o].pc = load[o].pc \/ load'[o].pc \in {"rejected", "reading"}
      <4> DEFINE new == stored'
      <4>1. new \in Settings /\ Settle(s, "answered", new)
        BY <3>1
      <4> HIDE DEF new
      <4>2. /\ load' \in [Slots -> Loads] /\ promise' \in {"null", "pending", "resolved"}
            /\ load'[s].pc = "answered" /\ load'[s].read = new /\ load'[s].for = load[s].for
            /\ \A o \in Slots : o # s =>
                 /\ load'[o].for = load[o].for /\ load'[o].read = load[o].read
                 /\ load'[o].pc = load[o].pc \/ load'[o].pc \in {"rejected", "reading"}
        BY <1>1, <2>3, <4>1, SettleShape DEF WriteBack
      <4>3. QED
        BY <4>2 DEF new
    <3>3. TypeOK'
      BY <1>1, <1>3, <3>1, <3>2 DEF TypeOK
    <3>4. AnswersOK'
      BY <1>1, <2>2, <3>1, <3>2 DEF AnswersOK
    <3>5. SeedingOK' /\ SeededOK'
      BY <2>2, <3>1, <3>2 DEF SeedingOK, SeededOK
    <3>6. QED
      BY <1>2, <2>1, <3>3, <3>4, <3>5 DEF IInv
  <2>4. CASE FailConfiguration(s)
    <3>1. /\ Settle(s, "rejected", load[s].read) /\ load[s].read \in Settings
          /\ UNCHANGED stored /\ failures < MaxFailures /\ failures' = failures + 1
      BY <1>1, <2>4 DEF FailConfiguration, FetchFails, Loads
    <3>2. /\ load' \in [Slots -> Loads] /\ promise' = "null"
          /\ load'[s].pc = "rejected" /\ load'[s].for = load[s].for
          /\ \A o \in Slots : o # s =>
               /\ load'[o].for = load[o].for /\ load'[o].read = load[o].read
               /\ load'[o].pc = load[o].pc \/ load'[o].pc = "rejected"
      BY <1>1, <2>2, <2>4, <3>1, SettleShape DEF FailConfiguration, FetchFails
    <3>3. failures' \in 0 .. MaxFailures
      BY <1>1, <3>1, StartupAssumption DEF TypeOK
    <3>4. TypeOK'
      BY <1>1, <1>3, <3>1, <3>2, <3>3
    <3>5. AnswersOK'
      BY <1>1, <3>2 DEF AnswersOK
    <3>6. SeedingOK' /\ SeededOK'
      BY <1>1, <2>1, <2>2, <3>1, <3>2 DEF SeedingOK, SeededOK, Busy
    <3>7. QED
      BY <1>2, <3>1, <3>4, <3>5, <3>6 DEF IInv
  <2>5. QED
    BY <1>6, <2>3, <2>4
<1>7. QED
  BY <1>4, <1>5, <1>6 DEF LoadConfiguration

(***************************************************************************)
(* The other actions.                                                      *)
(***************************************************************************)

\* A message finds the worker up, or wakes it.
LEMMA WakeShape ==
  ASSUME IInv, Wake, page = "none" => page' = "none"
  PROVE  worker' = "up" /\ chain' \in Seq(Ensures) /\ ChainOK'
<1>1. chain \in Seq(Ensures) /\ ChainOK
  BY DEF IInv, TypeOK, Ensures
<1>2. worker' = "up" /\ (chain' = <<Ensure(TRUE)>> \/ chain' = chain)
  BY DEF Wake
<1>3. QED
  BY <1>1, <1>2, ChainGrows

\* A client asks for the configuration.
LEMMA SendStep ==
  ASSUME IInv, NEW client \in {"page", "popup"}, SendGetConfiguration(client),
         UNCHANGED <<interval, stored, bounded>>,
         popup' = popup \/ popup' = "loading",
         client = "page" => page' = "open",
         page' = page \/ (page = "loading" /\ page' = "open"),
         timer' \in BOOLEAN, timer' => timer
  PROVE  IInv'
<1>1. Free # {} /\ Called /\ Wake /\ load' = [load EXCEPT ![FreeSlot] = Call(client)]
  BY DEF SendGetConfiguration
<1>2. FreeSlot \in Slots /\ load[FreeSlot].pc = "free"
  BY <1>1 DEF FreeSlot, Free
<1>3. worker' = "up" /\ chain' \in Seq(Ensures) /\ ChainOK'
  BY <1>1, WakeShape
<1>4. /\ load' \in [Slots -> Loads] /\ promise' \in {"null", "pending", "resolved"}
      /\ AnswersOK' /\ SeedingOK' /\ SeededOK'
  BY <1>1, <1>2, CallKept
<1>5. TypeOK'
  BY <1>3, <1>4 DEF IInv, TypeOK, Ensures, bounded
<1>6. QED
  BY <1>3, <1>4, <1>5 DEF IInv

\* requestInstructions goes on with its answer.
LEMMA RequestInstructionsStep ==
  ASSUME IInv, NEW s \in Slots, RequestInstructions(s)
  PROVE  IInv'
<1>1. /\ TypeOK /\ AnswersOK /\ load \in [Slots -> Loads] /\ Settled(s) /\ load[s].for = "page"
      /\ UNCHANGED <<worker, chain, page, popup, stored, bounded>>
      /\ interval' = IF load[s].pc = "answered" THEN load[s].read ELSE interval
      /\ timer' = TRUE
  BY DEF IInv, TypeOK, RequestInstructions, Scheduled
<1>2. /\ page = "open" /\ interval' \in {"default"} \cup Current /\ worker = "up"
  BY <1>1 DEF AnswersOK, TypeOK, Settled
<1>3. CASE load' = [load EXCEPT ![s] = NoLoad] /\ UNCHANGED promise
  <2>1. /\ load' \in [Slots -> Loads]
        /\ \A o \in Slots : load'[o] = load[o] \/ (load'[o].pc = "free" /\ load'[o].for = "nobody")
    BY <1>1, <1>3, SettingsApart
  <2>2. AnswersOK' /\ SeedingOK' /\ SeededOK'
    BY <1>1, <1>3, <2>1, LoadsKept
  <2>3. TypeOK' /\ ChainOK'
    BY <1>1, <1>2, <1>3, <2>1 DEF IInv, TypeOK, ChainOK, OneOffscreenDocument, bounded
  <2>4. QED
    BY <2>2, <2>3 DEF IInv
<1>4. CASE load' = [load EXCEPT ![s] = Call("poll")] /\ Called
  <2>1. /\ load' \in [Slots -> Loads] /\ promise' \in {"null", "pending", "resolved"}
        /\ AnswersOK' /\ SeedingOK' /\ SeededOK'
    BY <1>1, <1>4, CallKept DEF Settled
  <2>2. TypeOK' /\ ChainOK'
    BY <1>1, <1>2, <2>1 DEF IInv, TypeOK, ChainOK, OneOffscreenDocument, bounded
  <2>3. QED
    BY <2>1, <2>2 DEF IInv
<1>5. QED
  BY <1>3, <1>4 DEF RequestInstructions

\* A call is over, or its client is gone.
LEMMA EndStep ==
  ASSUME IInv, load' \in [Slots -> Loads],
         \A s \in Slots :
           \/ load'[s].pc = "free" /\ load'[s].for = "nobody"
           \/ /\ load'[s].for \in {load[s].for, "nobody"} /\ load'[s].pc = load[s].pc
              /\ load'[s].first = load[s].first /\ load'[s].read = load[s].read,
         popup' \in {"closed", "failed"} \/ popup' = popup
           \/ (popup' = "filled" /\ \E s \in Slots : load[s].pc = "answered"),
         UNCHANGED <<worker, chain, promise, page, timer, interval, stored, bounded>>
  PROVE  IInv'
<1>1. \A s \in Slots : /\ load'[s].for \in {load[s].for, "nobody"}
                       /\ \/ load'[s].pc = "free"
                          \/ /\ load'[s].pc = load[s].pc /\ load'[s].first = load[s].first
                             /\ load'[s].read = load[s].read
  OBVIOUS
<1>2. popup' = popup \/ popup' # "filled" \/ stored \in Current
  BY DEF IInv, SeedingOK
<1>3. AnswersOK' /\ SeedingOK' /\ SeededOK'
  BY <1>1, <1>2, LoadsKept
<1>4. TypeOK'
  BY <1>1 DEF IInv, TypeOK, bounded
<1>5. ChainOK'
  BY DEF IInv, ChainOK, OneOffscreenDocument
<1>6. QED
  BY <1>3, <1>4, <1>5 DEF IInv

\* Calls of clients that are gone.
LEMMA DeafShape ==
  ASSUME TypeOK, NEW client
  PROVE  /\ Deaf(client) \in [Slots -> Loads]
         /\ \A s \in Slots :
              /\ Deaf(client)[s].for \in {load[s].for, "nobody"} /\ Deaf(client)[s].pc = load[s].pc
              /\ Deaf(client)[s].first = load[s].first /\ Deaf(client)[s].read = load[s].read
BY DEF Deaf, TypeOK, Loads

\* Only a form that is filled is submitted, and then the settings that it
\* replaces are up to date.
LEMMA SubmitStep ==
  ASSUME IInv, NEW v \in Saves, SubmitSettings(v)
  PROVE  IInv' /\ stored' \in Saves
<1>1. /\ TypeOK /\ AnswersOK /\ SeedingOK /\ SeededOK /\ popup = "filled" /\ Wake
      /\ saved' = saved \cup {v} /\ stored' = v
      /\ interval' \in {interval, v} /\ (timer' = timer \/ (timer' = TRUE /\ page = "open"))
      /\ UNCHANGED <<promise, load, page, popup, failures, reloads>>
  BY DEF IInv, SubmitSettings
<1>2. stored \in Current /\ v \in Current /\ v \in Settings
  BY <1>1 DEF SeedingOK, Current, Settings
<1>3. worker' = "up" /\ chain' \in Seq(Ensures) /\ ChainOK'
  BY <1>1, WakeShape
<1>4. TypeOK'
  <2>1. saved' \subseteq Saves /\ interval' \in {"default"} \cup Current /\ stored' \in Settings
    BY <1>1, <1>2 DEF TypeOK
  <2>2. timer' \in BOOLEAN /\ (timer' => page = "open")
    <3>1. timer \in BOOLEAN /\ (timer => page = "open")
      BY <1>1 DEF TypeOK
    <3>2. CASE timer' = timer
      BY <3>1, <3>2
    <3>3. CASE timer' = TRUE /\ page = "open"
      BY <3>3
    <3>4. QED
      BY <1>1, <3>2, <3>3
  <2>3. QED
    BY <1>1, <1>3, <2>1, <2>2 DEF TypeOK, Ensures
<1>5. AnswersOK' /\ SeedingOK' /\ SeededOK'
  BY <1>1, <1>2 DEF AnswersOK, SeedingOK, SeededOK
<1>6. QED
  BY <1>1, <1>3, <1>4, <1>5 DEF IInv

\* A new worker, with or without a new page.
LEMMA StopStep ==
  ASSUME IInv, StopWorker \/ Reload
  PROVE  IInv' /\ stored' = stored
<1>1. TypeOK /\ load \in [Slots -> Loads] /\ chain \in Seq(Ensures) /\ ChainOK /\ reloads \in 0 .. MaxReloads
  BY DEF IInv, TypeOK, Ensures
<1>2. CASE StopWorker
  <2>1. /\ chain = <<>> /\ \A s \in Slots : load[s].pc = "free"
        /\ worker' = "down" /\ promise' = "null"
        /\ UNCHANGED <<chain, load, page, timer, interval, popup, stored, bounded>>
    BY <1>2 DEF StopWorker, Free
  <2>2. AnswersOK' /\ SeedingOK' /\ SeededOK'
    BY <1>1, <2>1, LoadsKept
  <2>3. TypeOK' /\ ChainOK'
    BY <1>1, <2>1 DEF TypeOK, ChainOK, OneOffscreenDocument, bounded
  <2>4. QED
    BY <2>1, <2>2, <2>3 DEF IInv
<1>3. CASE Reload
  <2>1. /\ chain' = <<Ensure(TRUE)>> /\ promise' = "null" /\ load' = [s \in Slots |-> NoLoad]
        /\ page' = "none" /\ timer' = FALSE /\ interval' = "default" /\ popup' = "closed"
        /\ UNCHANGED <<worker, stored, saved, failures>>
        /\ reloads < MaxReloads /\ reloads' = reloads + 1 /\ worker = "up"
    BY <1>3 DEF Reload
  <2>2. load' \in [Slots -> Loads] /\ \A s \in Slots : load'[s].pc = "free" /\ load'[s].for = "nobody"
    BY <2>1, SettingsApart
  <2>3. AnswersOK' /\ SeedingOK' /\ SeededOK'
    BY <2>1, <2>2 DEF AnswersOK, SeedingOK, SeededOK, Busy, IInv
  <2>4. chain' \in Seq(Ensures) /\ ChainOK'
    BY <1>1, <2>1, ChainGrows
  <2>5. reloads' \in 0 .. MaxReloads
    BY <1>1, <2>1, StartupAssumption
  <2>6. TypeOK'
    BY <1>1, <2>1, <2>2, <2>4, <2>5 DEF TypeOK, Ensures
  <2>7. QED
    BY <2>1, <2>3, <2>4, <2>6 DEF IInv
<1>4. QED
  BY <1>2, <1>3

(***************************************************************************)
(* The invariant, and what follows from it.                                *)
(***************************************************************************)

\* A new installation, or a start of the browser.
LEMMA InitIInv == Init => IInv
<1> SUFFICES ASSUME Init PROVE IInv
  OBVIOUS
<1>1. \A s \in Slots : load[s].pc = "free" /\ load[s].for = "nobody"
  BY SettingsApart DEF Init
<1>2. chain \in Seq(Ensures) /\ ChainOK
  <2>1. Ensure(TRUE) \in Ensures /\ Ensure(TRUE).step = "contexts"
    BY DEF Ensure, Ensures
  <2>2. /\ chain \in Seq(Ensures) /\ DOMAIN chain = {1} /\ 1 .. Len(chain) = {1}
        /\ chain[1] = Ensure(TRUE)
    <3> DEFINE m == Ensure(TRUE)
    <3>1. chain = <<m>> /\ m \in Ensures
      BY <2>1 DEF Init
    <3> HIDE DEF m
    <3>2. <<>> \in Seq(Ensures)
      OBVIOUS
    <3>3. <<m>> \in Seq(Ensures) /\ DOMAIN <<m>> = {1} /\ 1 .. Len(<<m>>) = {1} /\ <<m>>[1] = m
      BY <3>1, <3>2, AppendShape
    <3>4. QED
      BY <3>1, <3>3 DEF m
  <2>3. QED
    BY <2>1, <2>2 DEF ChainOK, OneOffscreenDocument
<1>3. TypeOK
  <2>1. load \in [Slots -> Loads]
    BY SettingsApart DEF Init
  <2>2. failures \in 0 .. MaxFailures /\ reloads \in 0 .. MaxReloads
    BY StartupAssumption DEF Init
  <2>3. QED
    BY <1>1, <1>2, <2>1, <2>2 DEF Init, TypeOK, Ensures, Settings, Current
<1>4. AnswersOK /\ SeedingOK /\ SeededOK
  BY <1>1 DEF Init, AnswersOK, SeedingOK, SeededOK, Busy
<1>5. QED
  BY <1>2, <1>3, <1>4 DEF IInv

\* Every step keeps the invariant, and what a user saved.
LEMMA NextIInv ==
  IInv /\ [Next]_vars => IInv' /\ (stored \in Saves => stored' \in Saves)
<1> SUFFICES ASSUME IInv, [Next]_vars
             PROVE  IInv' /\ (stored \in Saves => stored' \in Saves)
  OBVIOUS
<1> USE DEF bounded
<1>1. TypeOK /\ load \in [Slots -> Loads] /\ chain \in Seq(Ensures) /\ ChainOK
  BY DEF IInv, TypeOK, Ensures
<1>2. CASE EnsureDocument
  <2>1. /\ chain' = Append(chain, Ensure(FALSE)) /\ worker = "up"
        /\ UNCHANGED <<worker, promise, load, page, timer, interval, popup, stored, bounded>>
    BY <1>2 DEF EnsureDocument
  <2>2. chain' \in Seq(Ensures) /\ ChainOK'
    BY <1>1, <2>1, ChainGrows
  <2>3. QED
    BY <2>1, <2>2 DEF IInv, TypeOK, Ensures, AnswersOK, SeedingOK, SeededOK, Busy
<1>3. CASE DocumentStep
  BY <1>3, DocumentStepIInv DEF DocumentStep, GetContexts, CloseDocument, CreateDocument
<1>4. CASE LoadPage
  BY <1>4, SendStep DEF LoadPage, IInv, TypeOK
<1>5. CASE FireTimer
  <2>1. page = "open" /\ timer' \in BOOLEAN
    BY <1>5 DEF FireTimer, IInv, TypeOK
  <2>2. QED
    BY <1>5, <2>1, SendStep DEF FireTimer
<1>6. CASE OpenPopup
  BY <1>6, SendStep DEF OpenPopup, IInv, TypeOK
<1>7. ASSUME NEW s \in Slots, LoadConfiguration(s) \/ FailConfiguration(s)
      PROVE  IInv' /\ (stored \in Saves => stored' \in Saves)
  BY <1>7, LoadStep DEF Current
<1>8. ASSUME NEW s \in Slots, RequestInstructions(s)
      PROVE  IInv' /\ (stored \in Saves => stored' \in Saves)
  BY <1>8, RequestInstructionsStep DEF RequestInstructions
<1>9. ASSUME NEW s \in Slots, EndCall(s) \/ FillPopup(s)
      PROVE  IInv' /\ (stored \in Saves => stored' \in Saves)
  <2>1. /\ load' = [load EXCEPT ![s] = NoLoad]
        /\ UNCHANGED <<worker, chain, promise, page, timer, interval, stored, bounded>>
        /\ popup' = popup \/ popup' = "failed" \/ (popup' = "filled" /\ load[s].pc = "answered")
    BY <1>9 DEF EndCall, FillPopup
  <2>2. /\ load' \in [Slots -> Loads]
        /\ \A o \in Slots : load'[o] = load[o] \/ (load'[o].pc = "free" /\ load'[o].for = "nobody")
    BY <1>1, <2>1, SettingsApart
  <2>3. QED
    BY <2>1, <2>2, EndStep
<1>10. CASE ClosePopup
  BY <1>1, <1>10, DeafShape, EndStep DEF ClosePopup
<1>11. ASSUME NEW v \in Saves, SubmitSettings(v)
       PROVE  IInv' /\ (stored \in Saves => stored' \in Saves)
  BY <1>11, SubmitStep
<1>12. CASE StopWorker \/ Reload
  BY <1>12, StopStep
<1>13. CASE UNCHANGED vars
  BY <1>13 DEF vars, IInv, TypeOK, ChainOK, OneOffscreenDocument, AnswersOK, SeedingOK, SeededOK, Busy
<1>14. QED
  BY <1>2, <1>3, <1>4, <1>5, <1>6, <1>7, <1>8, <1>9, <1>10, <1>11, <1>12, <1>13
     DEF Next, Serve

\* Every reachable state satisfies the invariant.
THEOREM StartupInvariant == Spec => []IInv
BY InitIInv, NextIInv, PTL DEF Spec

\* Worker, page, popup and calls have their types, and a stopped worker has
\* nothing in progress.
THEOREM StartupTypes == Spec => []TypeOK
<1>1. IInv => TypeOK
  BY DEF IInv
<1>2. QED
  BY <1>1, StartupInvariant, PTL

\* createDocument, which Chromium refuses while a document exists, is only
\* called without one, whatever events ensure the document meanwhile.
THEOREM DocumentsOneAtATime == Spec => []OneOffscreenDocument
<1>1. IInv => OneOffscreenDocument
  BY DEF IInv, ChainOK
<1>2. QED
  BY <1>1, StartupInvariant, PTL

\* What a user saved is only replaced by what a user saves, however loads,
\* failures, stops of the worker and reloads interleave with the save.
THEOREM LoadsSpareSavedSettings == Spec => SavedSettingsStay
<1>1. IInv /\ [Next]_vars => [(stored \in Saves) => (stored' \in Saves)]_vars
  BY NextIInv
<1>2. QED
  BY <1>1, StartupInvariant, PTL DEF Spec, SavedSettingsStay
===============================================================================
