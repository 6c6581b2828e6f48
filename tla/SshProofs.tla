------------------------------- MODULE SshProofs -------------------------------
(***************************************************************************)
(* What TLAPS proves about the two threads of an SSH tab, for any secrets, *)
(* profiles and servers, any number of opens, reconnects and failures: an  *)
(* aborted wait for an answer is woken, an answer reaches the question it  *)
(* was given to, what was typed stays in its own session, with nothing     *)
(* queued the tab shows what its worker does, and to its tab the           *)
(* connection is a Transport.                                              *)
(***************************************************************************)
EXTENDS SshSession, SequenceTheorems, TLAPS

-----------------------------------------------------------------------------
(* The two queues.                                                         *)

Elems(s) == {s[i] : i \in DOMAIN s}
IsQueue(s) == s \in Seq(Elems(s))

LEMMA QueueOfElems ==
    ASSUME NEW S, NEW s \in Seq(S)
    PROVE  IsQueue(s)
<1>1. s \in [1..Len(s) -> S] /\ Len(s) \in Nat
  BY LenProperties
<1>2. s \in [1..Len(s) -> Elems(s)]
  BY <1>1 DEF Elems
<1>3. s \in UNION {[1..n -> Elems(s)] : n \in Nat}
  BY <1>1, <1>2
<1> QED
  BY <1>3, SeqDef DEF IsQueue

LEMMA QueueEmpty == IsQueue(<<>>)
  BY DEF IsQueue, Elems

\* Appending one message.
LEMMA QueueAppend ==
    ASSUME NEW s, IsQueue(s), NEW x
    PROVE  /\ s \o <<x>> = Append(s, x)
           /\ IsQueue(Append(s, x))
           /\ Len(Append(s, x)) = Len(s) + 1
           /\ Len(s) \in Nat
           /\ \A i \in 1..Len(s) : Append(s, x)[i] = s[i]
           /\ Append(s, x)[Len(s) + 1] = x
<1> DEFINE S == Elems(s) \cup {x}
<1>1. s \in Seq(S)
  <2>1. s \in Seq(Elems(s)) /\ Elems(s) \subseteq S
    BY DEF IsQueue
  <2> QED
    BY <2>1, SeqMonotonic
<1>2. /\ s \o <<x>> = Append(s, x)
      /\ Append(s, x) \in Seq(S)
      /\ Len(Append(s, x)) = Len(s) + 1
      /\ Len(s) \in Nat
      /\ \A i \in 1..Len(s) : Append(s, x)[i] = s[i]
      /\ Append(s, x)[Len(s) + 1] = x
  BY <1>1
<1>3. IsQueue(Append(s, x))
  BY <1>2, QueueOfElems
<1> QED
  BY <1>2, <1>3

\* Taking the first one.
LEMMA QueueTail ==
    ASSUME NEW s, IsQueue(s), s # <<>>
    PROVE  /\ IsQueue(Tail(s))
           /\ Len(s) \in Nat \ {0}
           /\ Head(s) = s[1]
           /\ Len(Tail(s)) = Len(s) - 1
           /\ \A i \in 1..Len(Tail(s)) : i + 1 \in 1..Len(s) /\ Tail(s)[i] = s[i + 1]
<1>1. /\ Tail(s) \in Seq(Elems(s))
      /\ Len(s) \in Nat \ {0}
      /\ Head(s) = s[1]
      /\ Len(Tail(s)) = Len(s) - 1
      /\ \A i \in 1..Len(Tail(s)) : i + 1 \in 1..Len(s) /\ Tail(s)[i] = s[i + 1]
  BY DEF IsQueue
<1>2. IsQueue(Tail(s))
  BY <1>1, QueueOfElems
<1> QED
  BY <1>1, <1>2

-----------------------------------------------------------------------------
(* The invariant.                                                          *)

Waiting == {"asking", "checking", "asleep"}
Handlers == {"closing", "dropping", "givingUp", "leaving"}
Places == Blocking \cup Waiting \cup {"idle", "waiting", "live", "ended"}

Shape ==
    /\ DOMAIN w = {"gen", "at", "again", "auth", "saved", "secret", "known", "q"}
    /\ w.gen \in Nat /\ w.q \in Nat /\ w.again \in BOOLEAN /\ w.at \in Places
    /\ DOMAIN pending = {"active", "answered", "cancelled", "val", "remember", "to"}
    /\ pending.active \in BOOLEAN /\ pending.answered \in BOOLEAN
    /\ generation \in Nat /\ abortGen \in Nat
    /\ IsQueue(calls) /\ IsQueue(reports)

\* An open() that the worker has not reached is younger than the one it serves,
\* and none is queued while a dialog is open.
CallsInv ==
    /\ w.gen <= generation
    /\ \A i \in 1..Len(calls) : calls[i].fn = "open" =>
          /\ calls[i].gen \in Nat /\ w.gen < calls[i].gen /\ calls[i].gen <= generation
          /\ dialog = 0
    /\ \A i, j \in 1..Len(calls) :
          i < j /\ calls[i].fn = "open" /\ calls[j].fn = "open" => calls[i].gen < calls[j].gen

Question(i) == reports[i].what = "question" /\ reports[i].gen = w.gen

\* A question that has not reached the tab yet is the one the worker waits on,
\* it is the only one, and no other dialog is open.
ReportsInv ==
    /\ \A i \in 1..Len(reports) : reports[i].gen \in Nat /\ reports[i].gen <= w.gen
    /\ w.at \in Waiting =>
          /\ \A i \in 1..Len(reports) : Question(i) => reports[i].q = w.q /\ ~pending.answered /\ dialog = 0
          /\ \A i, j \in 1..Len(reports) : Question(i) /\ Question(j) => i = j
    /\ w.at \in Blocking /\ ~w.again => \A i \in 1..Len(reports) : ~Question(i)

\* The dialog that is open is the one of the question the worker waits on.
DialogInv ==
    /\ pending.active <=> w.at \in Waiting
    /\ w.at \in Waiting => ~w.again
    /\ w.at \in Waiting /\ dialog # 0 => dialog = w.q /\ ~pending.answered
    /\ w.at \in Blocking /\ ~w.again => dialog = 0
    /\ AnswerReachesItsQuestion

\* Bytes are taken from a tab whose worker serves its present open().
BytesInv == outgoing \subseteq {w.gen} /\ (state = "Connected" => w.gen = generation)

\* Who waits with an aborted request is about to be woken.
AbortInv == w.at \in {"checking", "asleep"} /\ Aborted => gui \in Handlers

IInv == Shape /\ CallsInv /\ ReportsInv /\ DialogInv /\ BytesInv /\ AbortInv

LEMMA InitIInv == Init => IInv
<1> SUFFICES ASSUME Init PROVE IInv
  OBVIOUS
<1>1. Shape
  BY QueueEmpty DEF Init, Shape, Places, Waiting, Blocking
<1>2. CallsInv /\ ReportsInv /\ DialogInv /\ BytesInv /\ AbortInv
  BY DEF Init, CallsInv, ReportsInv, DialogInv, AnswerReachesItsQuestion, BytesInv, AbortInv, Waiting, Blocking, Question, T!Init
<1> QED
  BY <1>1, <1>2 DEF IInv

-----------------------------------------------------------------------------
(* The facade's steps.                                                     *)

\* What the facade does to the queue of calls, the dialog and the mark, with the
\* worker and its reports as they are.
WorkerStays == UNCHANGED <<reports, pending, outgoing, w>>

LEMMA OpenIInv ==
    ASSUME IInv, Open
    PROVE  IInv'
<1> DEFINE c == [fn |-> "open", gen |-> generation + 1, saved |-> store]
<1>1. calls' = Append(calls, c) /\ generation' = generation + 1 /\ dialog = 0 /\ dialog' = 0
      /\ state' = "Connecting" /\ WorkerStays /\ UNCHANGED <<abortGen, gui>>
  BY DEF Open, WorkerStays
<1>2. c.fn = "open" /\ c.gen = generation + 1
  OBVIOUS
<1> HIDE DEF c
<1>3. IsQueue(calls)
  BY DEF IInv, Shape
<1>4. Shape'
  BY <1>1, <1>3, QueueAppend DEF IInv, Shape, WorkerStays, Places, Blocking, Waiting
<1>5. CallsInv'
  BY <1>1, <1>2, <1>3, QueueAppend DEF IInv, Shape, CallsInv, WorkerStays
<1>6. ReportsInv' /\ DialogInv' /\ BytesInv' /\ AbortInv'
  BY <1>1 DEF IInv, ReportsInv, DialogInv, BytesInv, AbortInv, WorkerStays, Question, AnswerReachesItsQuestion, Aborted
<1> QED
  BY <1>4, <1>5, <1>6 DEF IInv

\* Reports that have been taken, or that nobody will take any more.
Taken(k) ==
    /\ IsQueue(reports')
    /\ \A i \in 1..Len(reports') : i + k \in 1..Len(reports) /\ reports'[i] = reports[i + k]

LEMMA TakenByHead ==
    ASSUME IInv, reports # <<>>, reports' = Tail(reports)
    PROVE  Taken(1) /\ Head(reports) = reports[1] /\ 1 \in 1..Len(reports)
  BY QueueTail DEF IInv, Shape, Taken

LEMMA NothingTaken ==
    ASSUME IInv, reports' = reports
    PROVE  Taken(0)
<1>1. Len(reports) \in Nat
  BY DEF IInv, Shape, IsQueue
<1> QED
  BY <1>1 DEF Taken, IInv, Shape

LEMMA AllTaken ==
    ASSUME reports' = <<>>
    PROVE  Taken(0)
<1>1. Len(reports') = 0
  OBVIOUS
<1> QED
  BY <1>1, QueueEmpty DEF Taken

LEMMA TakenReportsInv ==
    ASSUME IInv, NEW k \in {0, 1}, Taken(k), dialog' \in {dialog, 0},
           UNCHANGED pending, w'.gen = w.gen, w'.q = w.q, w'.again = w.again,
           w'.at \in Waiting => w.at \in Waiting, w'.at \in Blocking => w.at \in Blocking
    PROVE  ReportsInv'
<1>1. \A i \in 1..Len(reports') : i + k \in 1..Len(reports) /\ reports'[i] = reports[i + k]
  BY DEF Taken
<1>2. \A i \in 1..Len(reports') : reports'[i].gen \in Nat /\ reports'[i].gen <= w'.gen
  BY <1>1 DEF IInv, ReportsInv
<1>3. \A i \in 1..Len(reports') : Question(i)' => Question(i + k)
  BY <1>1 DEF Question
<1>4. ASSUME w'.at \in Waiting, NEW i \in 1..Len(reports'), Question(i)'
      PROVE  reports'[i].q = w'.q /\ ~pending'.answered /\ dialog' = 0
  BY <1>1, <1>3, <1>4 DEF IInv, ReportsInv
<1>5. ASSUME w'.at \in Waiting, NEW i \in 1..Len(reports'), NEW j \in 1..Len(reports'), Question(i)', Question(j)'
      PROVE  i = j
  <2>1. i + k = j + k
    BY <1>1, <1>3, <1>5 DEF IInv, ReportsInv
  <2>2. i \in Int /\ j \in Int
    BY DEF Taken
  <2> QED
    BY <2>1, <2>2
<1>6. ASSUME w'.at \in Blocking, ~w'.again, NEW i \in 1..Len(reports')
      PROVE  ~Question(i)'
  BY <1>1, <1>3, <1>6 DEF IInv, ReportsInv
<1> QED
  BY <1>2, <1>4, <1>5, <1>6 DEF ReportsInv

\* The mark of an abort.
LEMMA BeginAbortIInv ==
    ASSUME IInv, NEW handler \in Handlers, BeginAbort(handler),
           UNCHANGED <<generation, dialog, calls, pending, outgoing, w>>,
           state' # "Connected" \/ state' = state,
           NEW k \in {0, 1}, Taken(k)
    PROVE  IInv'
<1>1. abortGen' \in Nat /\ gui' \in Handlers
  BY DEF BeginAbort, IInv, Shape
<1>2. Shape'
  BY <1>1 DEF IInv, Shape, Taken
<1>3. ReportsInv'
  BY TakenReportsInv
<1> QED
  BY <1>1, <1>2, <1>3 DEF IInv, CallsInv, DialogInv, AnswerReachesItsQuestion, BytesInv, AbortInv

\* What an append to the calls that is no open() leaves.
LEMMA AppendedCallsInv ==
    ASSUME IInv, NEW c, c.fn # "open", calls' = Append(calls, c), generation' \in {generation, generation + 1},
           w'.gen = w.gen, dialog' \in {dialog, 0}
    PROVE  CallsInv' /\ IsQueue(calls')
<1>1. IsQueue(calls)
  BY DEF IInv, Shape
<1>2. \A i \in 1..Len(calls') : \/ i \in 1..Len(calls) /\ calls'[i] = calls[i]
                                \/ i = Len(calls) + 1 /\ calls'[i] = c
  BY <1>1, QueueAppend
<1>3. w'.gen <= generation' /\ generation \in Nat
  BY DEF IInv, Shape, CallsInv
<1>4. ASSUME NEW i \in 1..Len(calls'), calls'[i].fn = "open"
      PROVE  /\ calls'[i].gen \in Nat /\ w'.gen < calls'[i].gen /\ calls'[i].gen <= generation'
             /\ dialog' = 0
  BY <1>2, <1>3, <1>4 DEF IInv, CallsInv
<1>5. ASSUME NEW i \in 1..Len(calls'), NEW j \in 1..Len(calls'), i < j, calls'[i].fn = "open", calls'[j].fn = "open"
      PROVE  calls'[i].gen < calls'[j].gen
  BY <1>2, <1>5 DEF IInv, CallsInv
<1>6. IsQueue(calls')
  BY <1>1, QueueAppend
<1> QED
  BY <1>3, <1>4, <1>5, <1>6 DEF CallsInv

\* One call more, and a second one.
LEMMA AppendedTwiceCallsInv ==
    ASSUME IInv, NEW c, NEW d, c.fn # "open", d.fn # "open",
           calls' = Append(Append(calls, c), d), generation' \in {generation, generation + 1},
           w'.gen = w.gen, dialog' \in {dialog, 0}
    PROVE  CallsInv' /\ IsQueue(calls')
<1>1. IsQueue(calls)
  BY DEF IInv, Shape
<1>2. IsQueue(Append(calls, c)) /\ Len(Append(calls, c)) = Len(calls) + 1 /\ Len(calls) \in Nat
  BY <1>1, QueueAppend
<1>3. IsQueue(calls') /\ Len(calls') = Len(calls) + 2
  BY <1>2, QueueAppend
<1>4. \A i \in 1..Len(calls') :
         \/ i \in 1..Len(calls) /\ calls'[i] = calls[i]
         \/ calls'[i].fn # "open"
  <2> TAKE i \in 1..Len(calls')
  <2>1. CASE i \in 1..Len(calls)
    BY <2>1, <1>1, <1>2, QueueAppend
  <2>2. CASE i = Len(calls) + 1
    <3>1. i \in 1..Len(Append(calls, c)) /\ Append(calls, c)[i] = c
      BY <2>2, <1>1, <1>2, QueueAppend
    <3>2. calls'[i] = Append(calls, c)[i]
      BY <3>1, <1>2, QueueAppend
    <3> QED
      BY <3>1, <3>2
  <2>3. CASE i = Len(calls) + 2
    BY <2>3, <1>2, QueueAppend
  <2> QED
    BY <1>2, <1>3, <2>1, <2>2, <2>3
<1>5. w'.gen <= generation' /\ generation \in Nat
  BY DEF IInv, Shape, CallsInv
<1> QED
  BY <1>3, <1>4, <1>5 DEF IInv, CallsInv

LEMMA EndAbortIInv ==
    ASSUME IInv, EndAbort
    PROVE  IInv'
<1> DEFINE c == [fn |-> "close", gen |-> generation]
           d == [fn |-> "quit", gen |-> 0]
<1>1. w'.gen = w.gen /\ w'.q = w.q /\ w'.again = w.again /\ DOMAIN w' = DOMAIN w /\ w'.at \notin {"checking", "asleep"}
      /\ w'.at \in Places /\ (w'.at \in Waiting <=> w.at \in Waiting) /\ (w'.at \in Blocking <=> w.at \in Blocking)
  BY DEF EndAbort, IInv, Shape, Places, Waiting, Blocking
<1>2. generation' = generation + 1 /\ state' = "Disconnected" /\ dialog' \in {dialog, 0}
      /\ UNCHANGED <<abortGen, pending, outgoing>>
  BY DEF EndAbort
<1>3. calls' = Append(calls, c) \/ calls' = Append(Append(calls, c), d)
  <2>1. IsQueue(calls) /\ IsQueue(Append(calls, c))
    BY QueueAppend DEF IInv, Shape
  <2>2. calls \o <<c>> = Append(calls, c) /\ Append(calls, c) \o <<d>> = Append(Append(calls, c), d)
    BY <2>1, QueueAppend
  <2>3. Append(calls, c) \o <<>> = Append(calls, c)
    BY <2>1, ConcatEmptySeq DEF IsQueue
  <2> QED
    BY <2>2, <2>3 DEF EndAbort
<1>4. c.fn # "open" /\ d.fn # "open"
  OBVIOUS
<1> HIDE DEF c, d
<1>5. CallsInv' /\ IsQueue(calls')
  BY <1>1, <1>2, <1>3, <1>4, AppendedCallsInv, AppendedTwiceCallsInv
<1>6. Taken(0)
  BY NothingTaken, AllTaken DEF EndAbort
<1>7. ReportsInv'
  BY <1>1, <1>2, <1>6, TakenReportsInv
<1>8. Shape'
  BY <1>1, <1>2, <1>5, <1>6 DEF IInv, Shape, Taken
<1>9. DialogInv' /\ BytesInv' /\ AbortInv'
  BY <1>1, <1>2 DEF IInv, DialogInv, AnswerReachesItsQuestion, BytesInv, AbortInv
<1> QED
  BY <1>5, <1>7, <1>8, <1>9 DEF IInv

\* The owner's other steps.
LEMMA UserIInv ==
    ASSUME IInv, User
    PROVE  IInv'
<1>1. CASE Open
  BY <1>1, OpenIInv
<1>2. CASE Close
  <2>1. Taken(0) /\ BeginAbort("closing")
    BY <1>2, NothingTaken DEF Close
  <2> QED
    BY <1>2, <2>1, BeginAbortIInv DEF Close, Handlers
<1>3. CASE SetAutoReconnect
  <2>1. Taken(0)
    BY <1>3, NothingTaken DEF SetAutoReconnect
  <2>2. CASE BeginAbort("givingUp") /\ state' = "Disconnected"
    BY <1>3, <2>1, <2>2, BeginAbortIInv DEF SetAutoReconnect, Handlers
  <2>3. CASE UNCHANGED <<state, busy, gui, abortGen>>
    BY <1>3, <2>3 DEF SetAutoReconnect, IInv, Shape, CallsInv, ReportsInv, Question, DialogInv,
                      AnswerReachesItsQuestion, BytesInv, AbortInv, Aborted
  <2> QED
    BY <1>3, <2>2, <2>3 DEF SetAutoReconnect
<1>4. CASE Write
  <2>1. BytesInv'
    BY <1>4 DEF Write, IInv, BytesInv, ui
  <2> QED
    BY <1>4, <2>1 DEF Write, ui, IInv, Shape, CallsInv, ReportsInv, Question, DialogInv, AnswerReachesItsQuestion, AbortInv, Aborted
<1>5. CASE Destroy
  <2>1. CASE BeginAbort("leaving") /\ UNCHANGED <<dialog, calls, reports>>
    <3>1. Taken(0)
      BY <2>1, NothingTaken
    <3> QED
      BY <1>5, <2>1, <3>1, BeginAbortIInv DEF Destroy, Handlers
  <2>2. CASE /\ gui' = "joining" /\ dialog' = 0 /\ reports' = <<>>
             /\ calls' = Append(calls, [fn |-> "quit", gen |-> 0])
             /\ UNCHANGED <<busy, abortGen>>
    <3> DEFINE d == [fn |-> "quit", gen |-> 0]
    <3>1. d.fn # "open"
      OBVIOUS
    <3> HIDE DEF d
    <3>2. calls' = Append(calls, d) /\ dialog' = 0 /\ UNCHANGED <<generation, pending, outgoing, w, state, abortGen>>
      BY <1>5, <2>2 DEF Destroy, d
    <3>3. CallsInv' /\ IsQueue(calls')
      BY <3>1, <3>2, AppendedCallsInv
    <3>4. Taken(0)
      BY <2>2, AllTaken
    <3>5. ReportsInv'
      BY <3>2, <3>4, TakenReportsInv
    <3>6. AbortInv'
      BY <1>5, <3>2 DEF Destroy, IInv, AbortInv, Aborted, Handlers
    <3>7. Shape' /\ DialogInv' /\ BytesInv'
      BY <3>2, <3>3, <3>4 DEF IInv, Shape, Taken, DialogInv, AnswerReachesItsQuestion, BytesInv
    <3> QED
      BY <3>3, <3>5, <3>6, <3>7 DEF IInv
  <2> QED
    BY <1>5, <2>1, <2>2 DEF Destroy
<1>6. CASE AnswerDialog
  <2>1. PICK val, remember, cancel : GiveAnswer(val, remember, cancel)
    BY <1>6 DEF AnswerDialog
  <2>2. dialog # 0 /\ dialog' = 0 /\ w.at # "checking" /\ gui = "idle"
        /\ UNCHANGED <<state, generation, gui, calls, reports, abortGen, outgoing>>
    BY <2>1 DEF GiveAnswer
  <2>3. w'.gen = w.gen /\ w'.q = w.q /\ w'.again = w.again /\ DOMAIN w' = DOMAIN w /\ w'.at \in Places
        /\ (w'.at \in Waiting <=> w.at \in Waiting) /\ (w'.at \in Blocking <=> w.at \in Blocking)
        /\ (w'.at = "asleep" => w.at = "asleep") /\ w'.at # "checking"
    BY <2>1, <2>2 DEF GiveAnswer, IInv, Shape, Places, Waiting, Blocking
  <2>4. /\ DOMAIN pending' = DOMAIN pending /\ pending'.active = pending.active /\ pending'.answered \in BOOLEAN
        /\ pending.active \/ pending' = pending
        /\ (pending'.to = pending.to /\ pending'.answered = pending.answered) \/ pending'.to = dialog
    BY <2>1 DEF GiveAnswer, IInv, Shape
  <2>5. Shape' /\ CallsInv'
    BY <2>2, <2>3, <2>4 DEF IInv, Shape, CallsInv
  <2>6. ReportsInv'
    BY <2>2, <2>3, <2>4 DEF IInv, ReportsInv, Question
  <2>7. DialogInv'
    BY <2>2, <2>3, <2>4 DEF IInv, DialogInv, AnswerReachesItsQuestion
  <2>8. BytesInv' /\ AbortInv'
    BY <2>2, <2>3 DEF IInv, BytesInv, AbortInv, Aborted
  <2> QED
    BY <2>5, <2>6, <2>7, <2>8 DEF IInv
<1> QED
  BY <1>1, <1>2, <1>3, <1>4, <1>5, <1>6 DEF User

\* What was said in another session reaches nobody, and in this one the worker
\* serves the tab's present open().
LEMMA ReportIInv ==
    ASSUME IInv, OnReport
    PROVE  IInv'
<1>1. reports # <<>> /\ reports' = Tail(reports) /\ UNCHANGED <<pending, outgoing, w>>
  BY DEF OnReport, OnConnected, OnDisconnected, OnLinkDropped, OnQuestion, OnStoreSecret, OnSecretRejected, Relay
<1>2. Taken(1) /\ Head(reports) = reports[1] /\ 1 \in 1..Len(reports)
  BY <1>1, TakenByHead
<1>3. Head(reports).gen = generation => w.gen = generation
  BY <1>2 DEF IInv, Shape, CallsInv, ReportsInv
<1>4. ASSUME dialog' = dialog PROVE ReportsInv'
  BY <1>1, <1>2, <1>4, TakenReportsInv
<1>5. ASSUME UNCHANGED <<dialog, gui, generation, calls, abortGen>>, state' # "Connected" \/ state' = state \/ w.gen = generation
      PROVE  IInv'
  BY <1>1, <1>2, <1>4, <1>5 DEF IInv, Shape, Taken, CallsInv, DialogInv, AnswerReachesItsQuestion, BytesInv, AbortInv, Aborted
<1>6. CASE OnConnected
  BY <1>3, <1>5, <1>6 DEF OnConnected, Relay, ui
<1>7. CASE OnDisconnected \/ OnStoreSecret \/ OnSecretRejected
  BY <1>5, <1>7 DEF OnDisconnected, OnStoreSecret, OnSecretRejected, Relay, ui
<1>8. CASE OnLinkDropped
  <2>1. CASE Head(reports).gen # generation
    BY <1>5, <1>8, <2>1 DEF OnLinkDropped, Relay, ui
  <2>2. CASE Head(reports).gen = generation /\ ~auto
    BY <1>1, <1>2, <1>8, <2>2, BeginAbortIInv DEF OnLinkDropped, Relay, Handlers
  <2>3. CASE Head(reports).gen = generation /\ auto
    <3> DEFINE c == [fn |-> "reconnect", gen |-> generation]
    <3>1. c.fn # "open"
      OBVIOUS
    <3> HIDE DEF c
    <3>2. calls' = Append(calls, c) /\ state' = "Reconnecting" /\ UNCHANGED <<dialog, gui, generation, abortGen>>
      BY <1>8, <2>3 DEF OnLinkDropped, Relay, c
    <3>3. CallsInv' /\ IsQueue(calls')
      BY <1>1, <3>1, <3>2, AppendedCallsInv
    <3> QED
      BY <1>1, <1>2, <1>4, <3>2, <3>3 DEF IInv, Shape, Taken, DialogInv, AnswerReachesItsQuestion, BytesInv, AbortInv, Aborted
  <2> QED
    BY <2>1, <2>2, <2>3
<1>9. CASE OnQuestion
  <2>1. CASE Head(reports).gen # generation
    BY <1>5, <1>9, <2>1 DEF OnQuestion, Relay, ui
  <2>2. CASE Head(reports).gen = generation
    <3>1. dialog' = reports[1].q /\ UNCHANGED <<state, gui, generation, calls, abortGen>>
      BY <1>2, <1>9, <2>2 DEF OnQuestion, Relay
    <3>2. Question(1)
      BY <1>2, <1>3, <1>9, <2>2 DEF OnQuestion, Relay, Question
    <3>3. w.at \in Waiting => dialog' = w.q /\ ~pending.answered
      BY <1>2, <3>1, <3>2 DEF IInv, ReportsInv
    <3>4. ~(w.at \in Blocking /\ ~w.again)
      BY <1>2, <3>2 DEF IInv, ReportsInv
    <3>5. CallsInv'
      BY <1>1, <1>3, <2>2, <3>1 DEF IInv, Shape, CallsInv
    <3>6. \A i \in 1..Len(reports') : i \in Int /\ i >= 1 /\ i + 1 \in 1..Len(reports) /\ reports'[i] = reports[i + 1]
      BY <1>2 DEF Taken
    <3>7. w.at \in Waiting => \A i \in 1..Len(reports') : ~Question(i)'
      <4> SUFFICES ASSUME w.at \in Waiting, NEW i \in 1..Len(reports'), Question(i)' PROVE FALSE
        OBVIOUS
      <4>1. Question(i + 1)
        BY <1>1, <3>6 DEF Question
      <4>2. i + 1 = 1
        BY <1>2, <3>2, <3>6, <4>1 DEF IInv, ReportsInv
      <4> QED
        BY <3>6, <4>2
    <3>8. ReportsInv'
      BY <1>1, <3>4, <3>6, <3>7 DEF IInv, ReportsInv
    <3>9. Shape' /\ DialogInv' /\ BytesInv' /\ AbortInv'
      BY <1>1, <1>2, <3>1, <3>3, <3>4 DEF IInv, Shape, Taken, DialogInv, AnswerReachesItsQuestion, BytesInv, AbortInv, Aborted
    <3> QED
      BY <3>5, <3>8, <3>9 DEF IInv
  <2> QED
    BY <2>1, <2>2
<1> QED
  BY <1>6, <1>7, <1>8, <1>9 DEF OnReport

-----------------------------------------------------------------------------
(* The worker's steps.                                                     *)

\* It says nothing, or one thing that is no question.
Says ==
    \/ Taken(0)
    \/ \E r : r.what # "question" /\ r.gen = w.gen /\ reports' = Append(reports, r)

LEMMA EmitSays ==
    ASSUME IInv, NEW r, r.what # "question", r.gen = w.gen, Emit(<<r>>)
    PROVE  Says
<1>1. reports' = <<>> \/ reports' = Append(reports, r)
  BY QueueAppend DEF Emit, IInv, Shape
<1> QED
  BY <1>1, AllTaken DEF Says

LEMMA SilentSays ==
    ASSUME IInv, UNCHANGED reports
    PROVE  Says
  BY NothingTaken DEF Says

\* The worker's record after a step within the request it serves.
SameRequest ==
    /\ DOMAIN w' = DOMAIN w /\ w'.gen = w.gen /\ w'.q = w.q

\* It goes on with the connect, or is over with it.
GoesOn == SameRequest /\ w'.at \in Blocking /\ w'.again = w.again
Ended == SameRequest /\ w'.at \in {"idle", "waiting", "live", "ended"} /\ w'.again \in BOOLEAN

NoQuestion == dialog = 0 /\ \A i \in 1..Len(reports) : ~Question(i)

LEMMA SaysReportsInv ==
    ASSUME IInv, Says, w'.gen = w.gen, w'.at \notin Waiting,
           w'.at \in Blocking /\ ~w'.again => NoQuestion
    PROVE  ReportsInv' /\ IsQueue(reports')
<1>1. CASE Taken(0)
  <2>1. \A i \in 1..Len(reports') : i \in 1..Len(reports) /\ reports'[i] = reports[i]
    BY <1>1 DEF Taken
  <2> QED
    BY <1>1, <2>1 DEF Taken, IInv, ReportsInv, NoQuestion, Question
<1>2. CASE \E r : r.what # "question" /\ r.gen = w.gen /\ reports' = Append(reports, r)
  <2>1. PICK r : r.what # "question" /\ r.gen = w.gen /\ reports' = Append(reports, r)
    BY <1>2
  <2>2. IsQueue(reports') /\ \A i \in 1..Len(reports') : 
         (i \in 1..Len(reports) /\ reports'[i] = reports[i]) \/ (reports'[i] = r)
    BY <2>1, QueueAppend DEF IInv, Shape
  <2>3. w.gen \in Nat
    BY DEF IInv, Shape
  <2> QED
    BY <2>1, <2>2, <2>3 DEF IInv, ReportsInv, NoQuestion, Question
<1> QED
  BY <1>1, <1>2 DEF Says

\* A step of the worker that asks nothing.
LEMMA WorkerIInv ==
    ASSUME IInv, Says, GoesOn \/ Ended, w'.at \in Blocking /\ ~w'.again => NoQuestion,
           DOMAIN pending' = DOMAIN pending, pending'.active = FALSE, pending'.answered \in BOOLEAN,
           calls' = calls \/ (calls # <<>> /\ calls' = Tail(calls)),
           UNCHANGED <<state, generation, gui, dialog, abortGen>>, outgoing' \subseteq outgoing
    PROVE  IInv'
<1>1. SameRequest /\ w'.at \in Places \ Waiting /\ w'.again \in BOOLEAN
  BY DEF GoesOn, Ended, Places, Waiting, Blocking, IInv, Shape
<1>2. ReportsInv' /\ IsQueue(reports')
  BY <1>1, SaysReportsInv DEF SameRequest
<1>3. CallsInv' /\ IsQueue(calls')
  <2>1. CASE calls' = calls
    BY <1>1, <2>1 DEF IInv, Shape, CallsInv, SameRequest
  <2>2. CASE calls # <<>> /\ calls' = Tail(calls)
    <3>1. IsQueue(calls') /\ \A i \in 1..Len(calls') : i \in Int /\ i + 1 \in 1..Len(calls) /\ calls'[i] = calls[i + 1]
      BY <2>2, QueueTail DEF IInv, Shape
    <3>2. \A i \in 1..Len(calls') : calls'[i].fn = "open" =>
             /\ calls'[i].gen \in Nat /\ w'.gen < calls'[i].gen /\ calls'[i].gen <= generation'
             /\ dialog' = 0
      BY <1>1, <3>1 DEF IInv, CallsInv, SameRequest
    <3>3. ASSUME NEW i \in 1..Len(calls'), NEW j \in 1..Len(calls'), i < j, calls'[i].fn = "open", calls'[j].fn = "open"
          PROVE  calls'[i].gen < calls'[j].gen
      <4>1. i + 1 < j + 1
        BY <3>1, <3>3
      <4> QED
        BY <3>1, <3>3, <4>1 DEF IInv, CallsInv
    <3> QED
      BY <1>1, <3>1, <3>2, <3>3 DEF IInv, CallsInv, SameRequest
  <2> QED
    BY <2>1, <2>2
<1>4. Shape'
  BY <1>1, <1>2, <1>3 DEF IInv, Shape, SameRequest
<1>5. DialogInv' /\ BytesInv' /\ AbortInv'
  BY <1>1 DEF IInv, DialogInv, NoQuestion, AnswerReachesItsQuestion, BytesInv, AbortInv, SameRequest, Waiting
<1> QED
  BY <1>2, <1>3, <1>4, <1>5 DEF IInv

\* In a connect that may ask, no question is under way.
LEMMA BlockingAsksNothing ==
    ASSUME IInv, w.at \in Blocking
    PROVE  ~w.again => NoQuestion
  BY DEF IInv, ReportsInv, DialogInv, NoQuestion

LEMMA EndConnectEnds ==
    ASSUME IInv, NEW step, EndConnect(step)
    PROVE  Says /\ Ended
<1>1. Ended
  BY DEF EndConnect, Ended, SameRequest, Quiet, IInv, Shape
<1>2. Says
  <2> DEFINE r == Report("disconnected")
  <2>1. r.what # "question" /\ r.gen = w.gen
    BY DEF Report
  <2>2. UNCHANGED reports \/ Emit(<<r>>)
    BY DEF EndConnect
  <2> HIDE DEF r
  <2> QED
    BY <2>1, <2>2, EmitSays, SilentSays
<1> QED
  BY <1>1, <1>2

LEMMA TestGoesOn ==
    ASSUME IInv, NEW a, Test(a)
    PROVE  Says /\ GoesOn
<1>0. DOMAIN w = {"gen", "at", "again", "auth", "saved", "secret", "known", "q"}
  BY DEF IInv, Shape
<1>1. CASE Accepted(a)
  <2>1. GoesOn
    BY <1>0, <1>1 DEF Accepted, GoesOn, SameRequest, Blocking
  <2>2. Says
    <3> DEFINE kind == KindOf(Method)
               kept == IF Method = "interactive" /\ a.keep # NoSecret THEN a.keep ELSE a.val
               r == [what |-> "store", gen |-> w.gen, kind |-> kind, keys |-> RememberKeys, val |-> kept]
    <3>1. r.what # "question" /\ r.gen = w.gen
      OBVIOUS
    <3>2. UNCHANGED reports \/ Emit(<<r>>)
      BY <1>1 DEF Accepted
    <3> HIDE DEF r
    <3> QED
      BY <3>1, <3>2, EmitSays, SilentSays
  <2> QED
    BY <2>1, <2>2
<1>2. CASE Denied /\ UNCHANGED reports
  BY <1>0, <1>2, SilentSays DEF Denied, GoesOn, SameRequest, Blocking
<1>3. CASE Rejected(a)
  <2>1. GoesOn
    BY <1>0, <1>3 DEF Rejected, GoesOn, SameRequest, Blocking
  <2>2. Says
    <3> DEFINE r == [what |-> "rejected", gen |-> w.gen, kind |-> KindOf(Method), key |-> a.from]
    <3>1. r.what # "question" /\ r.gen = w.gen
      OBVIOUS
    <3>2. UNCHANGED reports \/ Emit(<<r>>)
      BY <1>3 DEF Rejected
    <3> HIDE DEF r
    <3> QED
      BY <3>1, <3>2, EmitSays, SilentSays
  <2> QED
    BY <2>1, <2>2
<1> QED
  BY <1>1, <1>2, <1>3 DEF Test

\* A question is asked: its report is the only one.
LEMMA AskIInv ==
    ASSUME IInv, NEW kind, Ask(kind), w.at \in Blocking, ~w.again,
           UNCHANGED <<calls, state, generation, gui, dialog, abortGen, outgoing>>
    PROVE  IInv'
<1> DEFINE r == [what |-> "question", gen |-> w.gen, q |-> w.q + 1, kind |-> kind]
<1>1. r.gen = w.gen /\ r.q = w.q + 1
  OBVIOUS
<1>2. NoQuestion
  BY BlockingAsksNothing
<1>3. DOMAIN w' = DOMAIN w /\ w'.gen = w.gen /\ w'.q = w.q + 1 /\ w'.again = w.again /\ w'.at = "asking"
  BY DEF Ask, IInv, Shape
<1>4. pending' = [active |-> TRUE, answered |-> FALSE, cancelled |-> FALSE,
                  val |-> NoSecret, remember |-> FALSE, to |-> 0]
  BY DEF Ask
<1>5. reports' = <<>> \/ reports' = Append(reports, r)
  BY QueueAppend DEF Ask, Emit, IInv, Shape
<1> HIDE DEF r
<1>6. IsQueue(reports') /\ Len(reports) \in Nat
  BY <1>5, QueueEmpty, QueueAppend DEF IInv, Shape
<1>7. \A i \in 1..Len(reports') : 
         (i \in 1..Len(reports) /\ reports'[i] = reports[i]) \/ (i = Len(reports) + 1 /\ reports'[i] = r)
  <2>1. CASE reports' = <<>>
    BY <2>1
  <2>2. CASE reports' = Append(reports, r)
    BY <2>2, QueueAppend DEF IInv, Shape
  <2> QED
    BY <1>5, <2>1, <2>2
<1>8. \A i \in 1..Len(reports') : Question(i)' => i = Len(reports) + 1 /\ reports'[i] = r
  BY <1>2, <1>3, <1>7 DEF NoQuestion, Question
<1>9. ReportsInv'
  BY <1>1, <1>2, <1>3, <1>4, <1>7, <1>8 DEF IInv, Shape, ReportsInv, NoQuestion, Blocking
<1>10. Shape' /\ CallsInv'
  BY <1>3, <1>4, <1>6 DEF IInv, Shape, CallsInv, Places, Waiting
<1>11. DialogInv' /\ BytesInv' /\ AbortInv'
  BY <1>2, <1>3, <1>4 DEF IInv, DialogInv, NoQuestion, AnswerReachesItsQuestion, BytesInv, AbortInv, Waiting, Blocking
<1> QED
  BY <1>9, <1>10, <1>11 DEF IInv

\* The calls it serves.
LEMMA CallsServed ==
    ASSUME IInv, RunOpen \/ RunClose \/ RunBeginReconnect \/ RunQuit
    PROVE  IInv'
<1>0. InLoop /\ calls # <<>> /\ calls' = Tail(calls) /\ ~pending.active /\ DOMAIN w = {"gen", "at", "again", "auth", "saved", "secret", "known", "q"}
      /\ UNCHANGED <<state, generation, gui, dialog, abortGen, pending>> /\ outgoing' \subseteq outgoing
  BY DEF RunOpen, RunClose, RunBeginReconnect, RunQuit, Call, InLoop, ui, IInv, Shape, DialogInv, Waiting
<1>1. CASE RunOpen
  <2> DEFINE c == calls[1]
  <2>1. /\ IsQueue(calls') /\ Head(calls) = c /\ 1 \in 1..Len(calls)
        /\ \A i \in 1..Len(calls') : i \in Int /\ i >= 1 /\ i + 1 \in 1..Len(calls) /\ calls'[i] = calls[i + 1]
    BY <1>0, QueueTail DEF IInv, Shape
  <2>2. c.gen \in Nat /\ w.gen < c.gen /\ c.gen <= generation /\ dialog = 0
    BY <1>1, <2>1 DEF RunOpen, Call, IInv, CallsInv
  <2>3. DOMAIN w' = DOMAIN w /\ w'.gen = c.gen /\ w'.again = FALSE /\ w'.q = 0 /\ w'.at \in {"idle", "connect"}
    BY <1>0, <1>1, <2>1 DEF RunOpen, Quiet
  <2>4. reports' = reports \/ reports' = <<>> \/ \E r : r.what # "question" /\ r.gen = c.gen /\ reports' = Append(reports, r)
    <3> DEFINE r == [what |-> "disconnected", gen |-> c.gen]
    <3>1. r.what # "question" /\ r.gen = c.gen
      OBVIOUS
    <3>2. UNCHANGED reports \/ Emit(<<r>>)
      BY <1>1, <2>1 DEF RunOpen
    <3> HIDE DEF r
    <3> QED
      BY <3>1, <3>2, QueueAppend DEF Emit, IInv, Shape
  <2>5. IsQueue(reports') /\ \A i \in 1..Len(reports') : 
         (i \in 1..Len(reports) /\ reports'[i] = reports[i]) \/ (reports'[i].what # "question" /\ reports'[i].gen = c.gen)
    <3>1. CASE reports' = reports \/ reports' = <<>>
      BY <3>1, QueueEmpty DEF IInv, Shape
    <3>2. CASE \E r : r.what # "question" /\ r.gen = c.gen /\ reports' = Append(reports, r)
      BY <3>2, QueueAppend DEF IInv, Shape
    <3> QED
      BY <2>4, <3>1, <3>2
  <2>6. \A i \in 1..Len(reports') : ~Question(i)'
    BY <2>2, <2>3, <2>5 DEF Question, IInv, Shape, ReportsInv
  <2>7. \A i \in 1..Len(reports') : reports'[i].gen \in Nat /\ reports'[i].gen <= w'.gen
    BY <2>2, <2>3, <2>5 DEF IInv, Shape, ReportsInv
  <2>8. ReportsInv'
    BY <2>6, <2>7 DEF ReportsInv
  <2>9. \A i \in 1..Len(calls') : calls'[i].fn = "open" =>
             calls'[i].gen \in Nat /\ w'.gen < calls'[i].gen /\ calls'[i].gen <= generation
    <3> SUFFICES ASSUME NEW i \in 1..Len(calls'), calls'[i].fn = "open"
                 PROVE  calls'[i].gen \in Nat /\ w'.gen < calls'[i].gen /\ calls'[i].gen <= generation
      OBVIOUS
    <3>1. i + 1 \in 1..Len(calls) /\ 1 < i + 1 /\ calls'[i] = calls[i + 1]
      BY <2>1
    <3>2. calls[1].fn = "open"
      BY <1>1, <2>1 DEF RunOpen, Call
    <3>3. calls[1].gen < calls[i + 1].gen /\ calls[i + 1].gen \in Nat /\ calls[i + 1].gen <= generation
      BY <2>1, <3>1, <3>2 DEF IInv, CallsInv
    <3> QED
      BY <2>3, <3>1, <3>3
  <2>10. ASSUME NEW i \in 1..Len(calls'), NEW j \in 1..Len(calls'), i < j, calls'[i].fn = "open", calls'[j].fn = "open"
         PROVE  calls'[i].gen < calls'[j].gen
    <3>1. i + 1 < j + 1
      BY <2>1, <2>10
    <3> QED
      BY <2>1, <2>10, <3>1 DEF IInv, CallsInv
  <2>11. CallsInv'
    BY <1>0, <2>2, <2>3, <2>9, <2>10 DEF CallsInv
  <2>12. Shape'
    <3>1. w'.gen \in Nat /\ w'.q \in Nat
      BY <2>2, <2>3
    <3>5. w'.again \in BOOLEAN
      BY <2>3, Zenon
    <3>6. w'.at \in Places
      BY <2>3 DEF Places, Blocking
    <3>2. DOMAIN w' = {"gen", "at", "again", "auth", "saved", "secret", "known", "q"}
      BY <1>0, <2>3
    <3>3. pending' = pending /\ generation' = generation /\ abortGen' = abortGen
      BY <1>0
    <3>4. IsQueue(calls') /\ IsQueue(reports')
      BY <2>1, <2>5
    <3> QED
      BY <3>1, <3>2, <3>3, <3>4, <3>5, <3>6 DEF IInv, Shape
  <2>13. outgoing' = {} /\ state # "Connected"
    BY <1>1, <2>2 DEF RunOpen, IInv, Shape, BytesInv
  <2>14. DialogInv' /\ BytesInv' /\ AbortInv'
    BY <1>0, <2>2, <2>3, <2>13 DEF IInv, DialogInv, AnswerReachesItsQuestion, BytesInv, AbortInv, Waiting, Blocking
  <2> QED
    BY <2>8, <2>11, <2>12, <2>14 DEF IInv
<1>2. CASE RunClose
  <2> DEFINE r == Report("disconnected")
  <2>1. r.what # "question" /\ r.gen = w.gen
    BY DEF Report
  <2>2. UNCHANGED reports \/ Emit(<<r>>)
    BY <1>2 DEF RunClose
  <2> HIDE DEF r
  <2>3. Says
    BY <2>1, <2>2, EmitSays, SilentSays
  <2>4. Ended
    BY <1>0, <1>2 DEF RunClose, Ended, SameRequest, Quiet, InLoop, IInv, Shape
  <2> QED
    BY <1>0, <2>3, <2>4, WorkerIInv DEF Ended, Blocking, IInv, Shape
<1>3. CASE RunBeginReconnect \/ RunQuit
  <2>1. Says
    BY <1>3, SilentSays DEF RunBeginReconnect, RunQuit
  <2>2. Ended
    BY <1>0, <1>3 DEF RunBeginReconnect, RunQuit, Ended, SameRequest, Quiet, InLoop, IInv, Shape
  <2> QED
    BY <1>0, <2>1, <2>2, WorkerIInv DEF Ended, Blocking, IInv, Shape
<1> QED
  BY <1>1, <1>2, <1>3

\* The steps of a connect that neither end it nor ask.
LEMMA ConnectIInv ==
    ASSUME IInv, Says, GoesOn \/ Ended, w.at \in Blocking, UNCHANGED pending,
           UNCHANGED <<calls, state, generation, gui, dialog, abortGen, outgoing>>
    PROVE  IInv'
<1>1. ~w.again => NoQuestion
  BY BlockingAsksNothing
<1>2. pending.active = FALSE
  BY DEF IInv, Shape, DialogInv, Blocking, Waiting
<1>3. w'.at \in Blocking /\ ~w'.again => NoQuestion
  BY <1>1 DEF GoesOn, Ended, Blocking
<1> QED
  BY <1>2, <1>3, WorkerIInv DEF IInv, Shape

LEMMA BlockingIInv ==
    ASSUME IInv, \/ ConnectTcp \/ VerifyHostKey \/ NextMethod \/ NextSecret \/ TestAnswer \/ OpenShell
                 \/ (\E at \in Blocking : Fails(at)) \/ Refused("shell")
    PROVE  IInv'
<1>0. w.at \in Blocking /\ UNCHANGED <<calls, state, generation, gui, dialog, abortGen, outgoing>>
      /\ DOMAIN w = {"gen", "at", "again", "auth", "saved", "secret", "known", "q"}
  BY DEF ConnectTcp, VerifyHostKey, NextMethod, NextSecret, TestAnswer, OpenShell, Fails, Refused, WorkerKeeps, ui, Blocking, IInv, Shape
<1>1. ASSUME NEW step, EndConnect(step), UNCHANGED pending
      PROVE  IInv'
  BY <1>0, <1>1, EndConnectEnds, ConnectIInv
<1>2. ASSUME UNCHANGED <<reports, pending>>, GoesOn
      PROVE  IInv'
  BY <1>0, <1>2, SilentSays, ConnectIInv
<1>3. ASSUME NEW a, Test(a), UNCHANGED pending
      PROVE  IInv'
  BY <1>0, <1>3, TestGoesOn, ConnectIInv
<1>4. ASSUME NEW kind, Ask(kind), ~w.again
      PROVE  IInv'
  BY <1>0, <1>4, AskIInv
<1>5. CASE ConnectTcp
  <2>1. CASE EndConnect("Aborted")
    BY <1>1, <1>5, <2>1 DEF ConnectTcp
  <2>2. CASE w' = [w EXCEPT !.at = "hostkey"] /\ UNCHANGED reports
    <3>1. GoesOn
      BY <1>0, <2>2 DEF GoesOn, SameRequest, Blocking
    <3> QED
      BY <1>2, <1>5, <2>2, <3>1 DEF ConnectTcp
  <2> QED
    BY <1>5, <2>1, <2>2 DEF ConnectTcp
<1>6. CASE VerifyHostKey
  <2>1. CASE w' = [w EXCEPT !.at = "method", !.auth.plan = Plan(world)] /\ UNCHANGED <<reports, pending>>
    <3>1. GoesOn
      BY <1>0, <2>1 DEF GoesOn, SameRequest, Blocking
    <3> QED
      BY <1>2, <2>1, <3>1
  <2>2. CASE EndConnect("NeedsInteraction") /\ UNCHANGED pending
    BY <1>1, <2>2
  <2>3. CASE ~w.again /\ Ask("hostkey")
    BY <1>4, <2>3
  <2> QED
    BY <1>0, <1>6, <2>1, <2>2, <2>3 DEF VerifyHostKey, IInv, Shape
<1>7. CASE NextMethod
  <2>1. CASE EndConnect("Aborted") \/ EndConnect("Failed")
    BY <1>1, <1>7, <2>1 DEF NextMethod
  <2>2. CASE UNCHANGED reports /\ \E taken \in BOOLEAN :
                w' = IF taken THEN [w EXCEPT !.at = "shell", !.auth = NothingTried]
                     ELSE [w EXCEPT !.auth.plan = Tail(@)]
    <3>1. GoesOn
      BY <1>0, <2>2 DEF GoesOn, SameRequest, Blocking
    <3> QED
      BY <1>2, <1>7, <2>2, <3>1 DEF NextMethod
  <2>3. CASE UNCHANGED reports /\ w' = [w EXCEPT !.at = "try", !.auth = [NothingTried EXCEPT
                                !.plan = auth.plan, !.cands = Candidates(KindOf(Method))]]
    <3>1. GoesOn
      BY <1>0, <2>3 DEF GoesOn, SameRequest, Blocking
    <3> QED
      BY <1>2, <1>7, <2>3, <3>1 DEF NextMethod
  <2> QED
    BY <1>7, <2>1, <2>2, <2>3 DEF NextMethod
<1>8. CASE NextSecret
  <2>1. CASE UNCHANGED pending /\ \E a : Test(a)
    BY <1>3, <2>1
  <2>2. CASE Denied /\ UNCHANGED <<reports, pending>>
    <3>1. GoesOn
      BY <1>0, <2>2 DEF Denied, GoesOn, SameRequest, Blocking
    <3> QED
      BY <1>2, <2>2, <3>1
  <2>3. CASE EndConnect("NeedsInteraction") /\ UNCHANGED pending
    BY <1>1, <2>3
  <2>4. CASE ~w.again /\ Ask(Method)
    BY <1>4, <2>4
  <2> QED
    <3> DEFINE a == [auth EXCEPT !.cands = Tail(@), !.from = Head(auth.cands).from, !.val = Head(auth.cands).val]
    <3>1. \/ Test(a) /\ UNCHANGED pending
          \/ Denied /\ UNCHANGED <<reports, pending>>
          \/ w.again /\ EndConnect("NeedsInteraction") /\ UNCHANGED pending
          \/ ~w.again /\ Ask(Method)
      BY <1>8, Zenon DEF NextSecret
    <3> HIDE DEF a
    <3> QED
      BY <3>1, <2>1, <2>2, <2>3, <2>4
<1>9. CASE TestAnswer
  BY <1>3, <1>9 DEF TestAnswer
<1>10. CASE OpenShell
  <2>1. CASE EndConnect("Aborted")
    BY <1>1, <1>10, <2>1 DEF OpenShell
  <2>2. CASE w' = [w EXCEPT !.at = "live", !.again = FALSE] /\ Emit(<<Report("connected")>>)
    <3> DEFINE r == Report("connected")
    <3>1. r.what # "question" /\ r.gen = w.gen
      BY DEF Report
    <3>2. Emit(<<r>>)
      BY <2>2
    <3> HIDE DEF r
    <3>3. Says
      BY <3>1, <3>2, EmitSays
    <3>4. Ended
      BY <1>0, <2>2 DEF Ended, SameRequest
    <3> QED
      BY <1>0, <1>10, <3>3, <3>4, ConnectIInv DEF OpenShell
  <2> QED
    BY <1>10, <2>1, <2>2 DEF OpenShell
<1>11. CASE (\E at \in Blocking : Fails(at)) \/ Refused("shell")
  BY <1>1, <1>11 DEF Fails, Refused
<1> QED
  BY <1>5, <1>6, <1>7, <1>8, <1>9, <1>10, <1>11

\* The wait for an answer ends: an answer that was given goes on with the connect.
LEMMA EndWaitIInv ==
    ASSUME IInv, EndWait, w.at \in Waiting
    PROVE  IInv'
<1>0. /\ UNCHANGED <<calls, state, generation, gui, dialog, abortGen, outgoing>>
      /\ DOMAIN w = {"gen", "at", "again", "auth", "saved", "secret", "known", "q"}
      /\ DOMAIN pending' = DOMAIN pending /\ pending'.active = FALSE /\ pending'.answered = pending.answered
      /\ pending.answered \in BOOLEAN /\ w.again = FALSE
  BY DEF EndWait, ui, IInv, Shape, DialogInv
<1>1. ASSUME NEW step, EndConnect(step)
      PROVE  IInv'
  <2>1. Says /\ Ended
    BY <1>1, EndConnectEnds
  <2> QED
    BY <1>0, <2>1, WorkerIInv DEF Ended, Blocking
<1>2. ASSUME pending.answered, UNCHANGED reports, GoesOn
      PROVE  IInv'
  <2>1. NoQuestion
    BY <1>2 DEF IInv, ReportsInv, DialogInv, NoQuestion
  <2> QED
    BY <1>0, <1>2, <2>1, SilentSays, WorkerIInv
<1>3. CASE pending.answered /\ UseAnswer
  <2>1. CASE \E step : EndConnect(step)
    BY <1>1, <2>1
  <2>2. CASE w' = [w EXCEPT !.at = "method", !.known = TRUE, !.auth.plan = Plan(world)] /\ UNCHANGED reports
    <3>1. GoesOn
      BY <1>0, <2>2 DEF GoesOn, SameRequest, Blocking
    <3> QED
      BY <1>2, <1>3, <2>2, <3>1
  <2>3. CASE UNCHANGED reports /\ w' = [w EXCEPT !.at = "test", !.auth.from = "asked", !.auth.val = pending.val,
                              !.auth.keep = IF pending.remember /\ pending.val # NoSecret THEN pending.val
                                            ELSE IF Method = "interactive" THEN @ ELSE NoSecret]
    <3>1. GoesOn
      BY <1>0, <2>3 DEF GoesOn, SameRequest, Blocking
    <3> QED
      BY <1>2, <1>3, <2>3, <3>1
  <2> QED
    BY <1>3, <2>1, <2>2, <2>3 DEF UseAnswer
<1> QED
  BY <1>1, <1>3 DEF EndWait

LEMMA NextIInv ==
    ASSUME IInv, [Next]_vars
    PROVE  IInv'
<1>1. CASE User
  BY <1>1, UserIInv
<1>2. CASE EndAbort
  BY <1>2, EndAbortIInv
<1>3. CASE Joined
  BY <1>3 DEF Joined, IInv, Shape, CallsInv, ReportsInv, Question, DialogInv, AnswerReachesItsQuestion, BytesInv, AbortInv, Aborted, Handlers
<1>4. CASE OnReport
  BY <1>4, ReportIInv
<1>5. CASE RunOpen \/ RunClose \/ RunBeginReconnect \/ RunQuit
  BY <1>5, CallsServed
<1>6. CASE \/ ConnectTcp \/ VerifyHostKey \/ NextMethod \/ NextSecret \/ TestAnswer \/ OpenShell
           \/ (\E at \in Blocking : Fails(at)) \/ Refused("shell")
  BY <1>6, BlockingIInv
<1>7. CASE ReconnectTimer \/ SessionEnds
  <2>0. /\ UNCHANGED <<calls, state, generation, gui, dialog, abortGen, pending, outgoing>>
        /\ DOMAIN w = {"gen", "at", "again", "auth", "saved", "secret", "known", "q"}
        /\ pending.active = FALSE
    BY <1>7 DEF ReconnectTimer, SessionEnds, ui, IInv, Shape, DialogInv, Waiting
  <2>1. Says
    <3>1. CASE ReconnectTimer
      BY <3>1, SilentSays DEF ReconnectTimer
    <3>2. CASE SessionEnds
      <4>1. PICK what \in {"disconnected", "dropped"} : Emit(<<Report(what)>>)
        BY <3>2 DEF SessionEnds
      <4> DEFINE r == Report(what)
      <4>2. r.what # "question" /\ r.gen = w.gen
        BY DEF Report
      <4>3. Emit(<<r>>)
        BY <4>1
      <4> HIDE DEF r
      <4> QED
        BY <4>2, <4>3, EmitSays
    <3> QED
      BY <1>7, <3>1, <3>2
  <2>2. SameRequest /\ ((w'.at = "idle" /\ w'.again = w.again) \/ (w'.at = "connect" /\ w'.again = TRUE))
    BY <1>7, <2>0 DEF ReconnectTimer, SessionEnds, SameRequest
  <2>3. CASE w'.at = "idle" /\ w'.again = w.again
    BY <2>0, <2>1, <2>2, <2>3, WorkerIInv DEF Ended, Blocking, IInv, Shape
  <2>4. CASE w'.at = "connect" /\ w'.again = TRUE
    <3>1. Shape' /\ ReportsInv' /\ CallsInv' /\ DialogInv' /\ BytesInv' /\ AbortInv'
      BY <2>0, <2>1, <2>2, <2>4, SaysReportsInv
         DEF SameRequest, IInv, Shape, CallsInv, DialogInv, AnswerReachesItsQuestion, BytesInv, AbortInv, Blocking, Waiting, Places
    <3> QED
      BY <3>1 DEF IInv
  <2> QED
    BY <2>2, <2>3, <2>4
<1>8. CASE CheckAnswer
  <2>1. CASE EndWait
    BY <1>8, <2>1, EndWaitIInv DEF CheckAnswer, Waiting
  <2>2. CASE /\ ~(pending.answered \/ pending.cancelled \/ Aborted)
             /\ w' = [w EXCEPT !.at = "checking"] /\ WorkerKeeps /\ UNCHANGED <<reports, pending>>
    <3>1. /\ DOMAIN w' = DOMAIN w /\ w'.gen = w.gen /\ w'.q = w.q /\ w'.again = w.again /\ w'.at = "checking"
          /\ w.at = "asking" /\ ~Aborted'
          /\ UNCHANGED <<calls, reports, state, generation, gui, dialog, abortGen, pending, outgoing>>
      BY <1>8, <2>2 DEF CheckAnswer, WorkerKeeps, ui, IInv, Shape, Aborted
    <3>2. ReportsInv'
      BY <3>1 DEF IInv, ReportsInv, Question, Waiting, Blocking
    <3> QED
      BY <3>1, <3>2 DEF IInv, Shape, CallsInv, DialogInv, AnswerReachesItsQuestion, BytesInv, AbortInv, Waiting, Blocking, Places
  <2> QED
    BY <1>8, <2>1, <2>2 DEF CheckAnswer
<1>9. CASE FallAsleep
  <2>1. /\ DOMAIN w' = DOMAIN w /\ w'.gen = w.gen /\ w'.q = w.q /\ w'.again = w.again /\ w'.at = "asleep"
        /\ w.at = "checking"
        /\ UNCHANGED <<calls, reports, state, generation, gui, dialog, abortGen, pending, outgoing>>
    BY <1>9 DEF FallAsleep, WorkerKeeps, ui, IInv, Shape
  <2>2. ReportsInv'
    BY <2>1 DEF IInv, ReportsInv, Question, Waiting, Blocking
  <2> QED
    BY <2>1, <2>2 DEF IInv, Shape, CallsInv, DialogInv, AnswerReachesItsQuestion, BytesInv, AbortInv, Aborted, Waiting, Blocking, Places
<1>10. CASE AnswerTimeout
  BY <1>10, EndWaitIInv DEF AnswerTimeout, Waiting
<1>11. CASE Pump
  BY <1>11 DEF Pump, ui, IInv, Shape, CallsInv, ReportsInv, Question, DialogInv, AnswerReachesItsQuestion, BytesInv, AbortInv, Aborted
<1>12. CASE ServerChanges
  <2>1. /\ DOMAIN w' = DOMAIN w /\ w'.gen = w.gen /\ w'.q = w.q /\ w'.again = w.again /\ w'.at = w.at
        /\ UNCHANGED <<calls, reports, state, generation, gui, dialog, abortGen, pending, outgoing>>
    BY <1>12 DEF ServerChanges, ui, IInv, Shape
  <2> QED
    BY <2>1 DEF IInv, Shape, CallsInv, ReportsInv, Question, DialogInv, AnswerReachesItsQuestion, BytesInv, AbortInv, Aborted
<1>13. CASE UNCHANGED vars
  BY <1>13 DEF vars, ui, IInv, Shape, CallsInv, ReportsInv, Question, DialogInv, AnswerReachesItsQuestion, BytesInv, AbortInv, Aborted
<1> QED
  BY <1>1, <1>2, <1>3, <1>4, <1>5, <1>6, <1>7, <1>8, <1>9, <1>10, <1>11, <1>12, <1>13 DEF Next, Worker, Environment

-----------------------------------------------------------------------------
(* The theorems.                                                           *)

\* The inductive invariant of the two threads.
THEOREM Invariance == Spec => []IInv
  BY InitIInv, NextIInv, PTL DEF Spec

\* requestAbort() is never lost on a worker that is about to wait for an answer,
\* or does: whoever aborts wakes it (waitForAnswer(), abortWorker()).
THEOREM AbortAlwaysWakes == Spec => []AbortWakesTheWait
<1>1. IInv => AbortWakesTheWait
  BY DEF IInv, AbortInv, AbortWakesTheWait, Handlers
<1> QED
  BY <1>1, Invariance, PTL

\* An answer given to a dialog is used for that dialog's question, though
\* questions carry no number (SshConnection::answerPrompt(), answerHostKey()).
THEOREM AnswersReachTheirQuestions == Spec => []AnswerReachesItsQuestion
<1>1. IInv => AnswerReachesItsQuestion
  BY DEF IInv, DialogInv
<1> QED
  BY <1>1, Invariance, PTL

\* What was typed in one session is never sent to the shell of a later open().
THEOREM BytesStay == Spec => []BytesStayInTheirOpen
<1>1. IInv => BytesStayInTheirOpen
  BY DEF IInv, BytesInv, BytesStayInTheirOpen
<1> QED
  BY <1>1, Invariance, PTL

-----------------------------------------------------------------------------
(* To its tab an SSH connection is a Transport: the order of the worker's *)
(* reports, for any number of opens, drops and reconnects.                 *)

Gone == {"joining", "joined"}
Telling == {"connected", "disconnected", "dropped"}

\* A report that will change the state of the tab.
Tells(i) == reports[i].what \in Telling /\ reports[i].gen = generation

\* The tab is connected when it has heard the first n reports.
ConnectedAfter(n) ==
    \/ \E j \in 1..n : Tells(j) /\ reports[j].what = "connected" /\ \A k \in j + 1..n : ~Tells(k)
    \/ state = "Connected" /\ \A k \in 1..n : ~Tells(k)

\* A drop is only ever heard by a connected tab, a live session by one that is
\* connected at the end, and who gives up after a drop still says so.
TellInv ==
    /\ \A i \in 1..Len(reports) : Tells(i) /\ reports[i].what = "dropped" => ConnectedAfter(i - 1)
    /\ w.at = "live" /\ w.gen = generation /\ gui \notin Gone => ConnectedAfter(Len(reports))
    /\ state = "Connected" => link = "up"
    /\ gui = "dropping" => state = "Connected" /\ ~auto
    /\ gui \in Gone => reports = <<>>

LEMMA InitTellInv == Init => TellInv
  BY DEF Init, TellInv, T!Init, Gone

\* A tab whose open() has no report yet.
LEMMA FreshTellInv ==
    ASSUME IInv, generation' = generation + 1, state' # "Connected", gui' # "dropping",
           w'.gen = w.gen, reports' = reports \/ reports' = <<>>, gui' \in Gone => reports' = <<>>
    PROVE  TellInv'
<1>1. w.gen \in Nat /\ w.gen < generation' /\ generation \in Nat
  BY DEF IInv, Shape, CallsInv
<1>2. \A i \in 1..Len(reports') : reports'[i].gen \in Nat /\ reports'[i].gen <= w.gen
  <2>1. CASE reports' = reports
    BY <2>1 DEF IInv, ReportsInv
  <2>2. CASE reports' = <<>>
    BY <2>2
  <2> QED
    BY <2>1, <2>2
<1>3. \A i \in 1..Len(reports') : ~Tells(i)'
  BY <1>1, <1>2 DEF Tells
<1> QED
  BY <1>1, <1>3 DEF TellInv

\* A report is heard.
LEMMA HeardTellInv ==
    ASSUME IInv, TellInv, reports # <<>>, reports' = Tail(reports), gui = "idle",
           UNCHANGED <<generation, w>>, gui' \notin Gone,
           Tells(1) => (reports[1].what = "connected" <=> state' = "Connected") \/ gui' = "dropping",
           ~Tells(1) => state' = state,
           state' = "Connected" => link' = "up",
           gui' = "dropping" => state' = state /\ state' = "Connected" /\ ~auto' /\ Tells(1) /\ reports[1].what = "dropped"
    PROVE  TellInv'
<1>1. /\ Len(reports) \in Nat \ {0} /\ Len(reports') = Len(reports) - 1
      /\ \A i \in 1..Len(reports') : i \in Int /\ i >= 1 /\ i + 1 \in 1..Len(reports) /\ reports'[i] = reports[i + 1]
  BY QueueTail DEF IInv, Shape
<1>2. \A i \in 1..Len(reports') : Tells(i)' <=> Tells(i + 1)
  BY <1>1 DEF Tells
<1>3. ASSUME NEW n \in 1..Len(reports), ConnectedAfter(n)
      PROVE  ConnectedAfter(n - 1)'
  <2>1. CASE state = "Connected" /\ \A k \in 1..n : ~Tells(k)
    <3>1. ~Tells(1)
      BY <1>1, <2>1
    <3>2. state' = "Connected"
      BY <2>1, <3>1
    <3>3. \A k \in 1..n - 1 : ~Tells(k)'
      <4> TAKE k \in 1..n - 1
      <4>1. k \in 1..Len(reports') /\ k + 1 \in 1..n
        BY <1>1
      <4> QED
        BY <1>2, <2>1, <4>1
    <3> QED
      BY <3>2, <3>3 DEF ConnectedAfter
  <2>2. CASE \E j \in 1..n : Tells(j) /\ reports[j].what = "connected" /\ \A k \in j + 1..n : ~Tells(k)
    <3>1. PICK j \in 1..n : Tells(j) /\ reports[j].what = "connected" /\ \A k \in j + 1..n : ~Tells(k)
      BY <2>2
    <3>2. \A k \in j..n - 1 : ~Tells(k)'
      <4> TAKE k \in j..n - 1
      <4>1. k \in 1..Len(reports') /\ k + 1 \in j + 1..n
        BY <1>1, <3>1
      <4> QED
        BY <1>2, <3>1, <4>1
    <3>3. CASE j = 1
      <4>1. state' = "Connected"
        BY <3>1, <3>3
      <4> QED
        BY <3>2, <3>3, <4>1 DEF ConnectedAfter
    <3>4. CASE j # 1
      <4>1. j - 1 \in 1..n - 1 /\ j - 1 \in 1..Len(reports') /\ (j - 1) + 1 = j
        BY <1>1, <3>4
      <4>2. Tells(j - 1)' /\ reports'[j - 1].what = "connected"
        BY <1>1, <1>2, <3>1, <4>1
      <4> QED
        BY <3>2, <4>1, <4>2 DEF ConnectedAfter
    <3> QED
      BY <3>3, <3>4
  <2> QED
    BY <1>3, <2>1, <2>2 DEF ConnectedAfter
<1>4. ASSUME NEW i \in 1..Len(reports'), Tells(i)', reports'[i].what = "dropped"
      PROVE  ConnectedAfter(i - 1)'
  <2>1. i + 1 \in 1..Len(reports) /\ Tells(i + 1) /\ reports[i + 1].what = "dropped" /\ (i + 1) - 1 = i /\ i \in 1..Len(reports)
    BY <1>1, <1>2, <1>4
  <2>2. ConnectedAfter(i)
    BY <2>1 DEF TellInv
  <2> QED
    BY <1>3, <2>1, <2>2
<1>5. ASSUME w'.at = "live", w'.gen = generation', gui' \notin Gone
      PROVE  ConnectedAfter(Len(reports))'
  <2>1. PICK n \in Nat : n = Len(reports)
    BY <1>1
  <2>2. ConnectedAfter(n) /\ n \in 1..Len(reports)
    BY <1>1, <1>5, <2>1 DEF TellInv, Gone
  <2>3. ConnectedAfter(n - 1)'
    BY <1>3, <2>2
  <2>4. PICK m \in Int : m = n - 1
    OBVIOUS
  <2>5. ConnectedAfter(m)' /\ m = Len(reports')
    BY <1>1, <2>1, <2>3, <2>4
  <2> QED
    BY <2>5 DEF ConnectedAfter
<1> QED
  BY <1>4, <1>5 DEF TellInv

\* The reports stay as they are.
LEMMA KeepTellInv ==
    ASSUME IInv, TellInv, UNCHANGED <<reports, generation>>, w'.gen = w.gen, w'.at = "live" => w.at = "live",
           UNCHANGED <<state, link>> \/ (state # "Connected" /\ state' # "Connected"),
           gui' = "dropping" => gui = "dropping" /\ UNCHANGED <<state, auto>>, gui' \in Gone <=> gui \in Gone
    PROVE  TellInv'
<1>1. \A i \in 1..Len(reports) : Tells(i)' <=> Tells(i)
  BY DEF Tells
<1>2. Len(reports) \in Nat
  BY DEF IInv, Shape, IsQueue
<1>3. ASSUME NEW n \in 0..Len(reports), ConnectedAfter(n)
      PROVE  ConnectedAfter(n)'
  <2>1. \A k \in 1..n : k \in 1..Len(reports)
    BY <1>2
  <2>2. \A j \in 1..n : \A k \in j + 1..n : k \in 1..Len(reports)
    BY <1>2
  <2> QED
    BY <1>1, <1>3, <2>1, <2>2 DEF ConnectedAfter
<1>4. ASSUME NEW i \in 1..Len(reports'), Tells(i)', reports'[i].what = "dropped"
      PROVE  ConnectedAfter(i - 1)'
  <2>1. ConnectedAfter(i - 1) /\ i - 1 \in 0..Len(reports)
    BY <1>1, <1>2, <1>4 DEF TellInv
  <2> QED
    BY <1>3, <2>1
<1>5. ASSUME w'.at = "live", w'.gen = generation', gui' \notin Gone
      PROVE  ConnectedAfter(Len(reports))'
  <2>1. PICK n \in Nat : n = Len(reports)
    BY <1>2
  <2>2. ConnectedAfter(n)' /\ n = Len(reports')
    BY <1>3, <1>5, <2>1 DEF TellInv
  <2> QED
    BY <2>2 DEF ConnectedAfter
<1> QED
  BY <1>4, <1>5 DEF TellInv

LEMMA GoneTellInv ==
    ASSUME TellInv, gui' \in Gone, reports' = <<>>, state' = "Connected" => state = "Connected" /\ link' = link
    PROVE  TellInv'
  BY DEF TellInv, Gone

\* One report more: a drop follows what leaves the tab connected, and a session
\* that comes up says so.
LEMMA EmitTellInv ==
    ASSUME IInv, TellInv, NEW r, Emit(<<r>>), UNCHANGED <<state, auto, link, generation, gui>>,
           r.what = "dropped" => w.at = "live" /\ r.gen = w.gen,
           w'.at = "live" => r.what = "connected" /\ r.gen = w'.gen
    PROVE  TellInv'
<1>1. CASE gui \in Gone
  <2>1. reports' = <<>>
    BY <1>1 DEF Emit, Gone
  <2> QED
    BY <1>1, <2>1, GoneTellInv
<1>2. CASE gui \notin Gone
  <2>1. /\ reports' = Append(reports, r) /\ Len(reports) \in Nat /\ Len(reports') = Len(reports) + 1
        /\ (\A i \in 1..Len(reports) : reports'[i] = reports[i]) /\ reports'[Len(reports) + 1] = r
    BY <1>2, QueueAppend DEF Emit, Gone, IInv, Shape
  <2>2. \A i \in 1..Len(reports) : Tells(i)' <=> Tells(i)
    BY <2>1 DEF Tells
  <2>3. ASSUME NEW n \in 0..Len(reports), ConnectedAfter(n)
        PROVE  ConnectedAfter(n)'
    <3>1. \A k \in 1..n : k \in 1..Len(reports)
      BY <2>1
    <3>2. \A j \in 1..n : \A k \in j + 1..n : k \in 1..Len(reports)
      BY <2>1
    <3> QED
      BY <2>1, <2>2, <2>3, <3>1, <3>2 DEF ConnectedAfter
  <2>4. ASSUME NEW i \in 1..Len(reports'), Tells(i)', reports'[i].what = "dropped"
        PROVE  ConnectedAfter(i - 1)'
    <3>1. CASE i \in 1..Len(reports)
      <4>1. ConnectedAfter(i - 1) /\ i - 1 \in 0..Len(reports)
        BY <2>1, <2>2, <2>4, <3>1 DEF TellInv
      <4> QED
        BY <2>3, <4>1
    <3>2. CASE i = Len(reports) + 1
      <4>1. w.at = "live" /\ w.gen = generation
        BY <2>1, <2>4, <3>2 DEF Tells
      <4>2. ConnectedAfter(Len(reports))
        BY <1>2, <4>1 DEF TellInv
      <4>3. ConnectedAfter(i - 1) /\ i - 1 \in 0..Len(reports)
        BY <2>1, <3>2, <4>2
      <4> QED
        BY <2>3, <4>3
    <3> QED
      BY <2>1, <3>1, <3>2
  <2>5. ASSUME w'.at = "live", w'.gen = generation'
        PROVE  ConnectedAfter(Len(reports))'
    <3>1. PICK n \in Nat : n = Len(reports')
      BY <2>1
    <3>2. Tells(n)' /\ reports'[n].what = "connected" /\ n \in 1..n
      BY <2>1, <2>5, <3>1 DEF Tells, Telling
    <3>3. \A k \in n + 1..n : FALSE
      OBVIOUS
    <3> QED
      BY <3>1, <3>2, <3>3 DEF ConnectedAfter
  <2> QED
    BY <1>2, <2>4, <2>5 DEF TellInv
<1> QED
  BY <1>1, <1>2

\* What the owner does, and the two ends of an abort.
LEMMA FacadeTellInv ==
    ASSUME IInv, TellInv, User \/ EndAbort \/ Joined
    PROVE  TellInv'
<1>1. CASE Open
  BY <1>1, FreshTellInv DEF Open, Gone
<1>2. CASE EndAbort
  <2>1. w'.gen = w.gen
    BY <1>2 DEF EndAbort, IInv, Shape
  <2> QED
    BY <1>2, <2>1, FreshTellInv DEF EndAbort, Gone
<1>3. CASE Joined
  BY <1>3, KeepTellInv DEF Joined, Gone
<1>4. CASE Close
  BY <1>4, KeepTellInv DEF Close, BeginAbort, Gone
<1>5. CASE SetAutoReconnect
  BY <1>5, KeepTellInv DEF SetAutoReconnect, BeginAbort, Gone
<1>6. CASE Write
  BY <1>6, KeepTellInv DEF Write, ui
<1>7. CASE Destroy
  <2>1. CASE BeginAbort("leaving") /\ UNCHANGED <<dialog, calls, reports>>
    BY <1>7, <2>1, KeepTellInv DEF Destroy, BeginAbort, Gone
  <2>2. CASE gui' = "joining" /\ reports' = <<>>
    BY <1>7, <2>2, GoneTellInv DEF Destroy, Gone
  <2> QED
    BY <1>7, <2>1, <2>2 DEF Destroy
<1>8. CASE AnswerDialog
  <2>1. PICK val, remember, cancel : GiveAnswer(val, remember, cancel)
    BY <1>8 DEF AnswerDialog
  <2>2. w'.gen = w.gen /\ (w'.at = "live" => w.at = "live")
    BY <2>1 DEF GiveAnswer, IInv, Shape
  <2> QED
    BY <2>1, <2>2, KeepTellInv DEF GiveAnswer, Gone
<1> QED
  BY <1>1, <1>2, <1>3, <1>4, <1>5, <1>6, <1>7, <1>8 DEF User

LEMMA ReportTellInv ==
    ASSUME IInv, TellInv, OnReport
    PROVE  TellInv'
<1>1. reports # <<>> /\ reports' = Tail(reports) /\ gui = "idle" /\ UNCHANGED <<w, generation>>
  BY DEF OnReport, OnConnected, OnDisconnected, OnLinkDropped, OnQuestion, OnStoreSecret, OnSecretRejected, Relay, ui
<1>2. Head(reports) = reports[1] /\ 1 \in 1..Len(reports)
  BY <1>1, TakenByHead
<1>3. ASSUME UNCHANGED <<state, link, gui>>, ~Tells(1)
      PROVE  TellInv'
  BY <1>1, <1>3, HeardTellInv DEF Gone, TellInv
<1>4. CASE reports[1].gen # generation
  BY <1>2, <1>3, <1>4 DEF OnReport, OnConnected, OnDisconnected, OnLinkDropped, OnQuestion, OnStoreSecret, OnSecretRejected, Relay, ui, Tells
<1>5. CASE reports[1].gen = generation /\ OnConnected
  BY <1>1, <1>2, <1>5, HeardTellInv DEF OnConnected, Relay, Tells, Telling, Gone
<1>6. CASE reports[1].gen = generation /\ OnDisconnected
  BY <1>1, <1>2, <1>6, HeardTellInv DEF OnDisconnected, Relay, Tells, Telling, Gone
<1>7. CASE reports[1].gen = generation /\ OnLinkDropped
  <2>1. Tells(1) /\ reports[1].what = "dropped"
    BY <1>2, <1>7 DEF OnLinkDropped, Relay, Tells, Telling
  <2>2. state = "Connected"
    <3>1. ConnectedAfter(0)
      BY <1>2, <2>1 DEF TellInv
    <3> QED
      BY <3>1 DEF ConnectedAfter
  <2>3. CASE auto
    BY <1>1, <1>2, <1>7, <2>1, <2>3, HeardTellInv DEF OnLinkDropped, Relay, Gone
  <2>4. CASE ~auto
    <3>1. gui' = "dropping" /\ UNCHANGED <<state, auto, link>>
      BY <1>2, <1>7, <2>4 DEF OnLinkDropped, Relay, BeginAbort
    <3>2. link = "up"
      BY <2>2 DEF TellInv
    <3> QED
      BY <1>1, <2>1, <2>2, <2>4, <3>1, <3>2, HeardTellInv DEF Gone
  <2> QED
    BY <2>3, <2>4
<1>8. CASE reports[1].gen = generation /\ (OnQuestion \/ OnStoreSecret \/ OnSecretRejected)
  BY <1>2, <1>3, <1>8 DEF OnQuestion, OnStoreSecret, OnSecretRejected, Relay, Tells, Telling, ui
<1> QED
  BY <1>4, <1>5, <1>6, <1>7, <1>8 DEF OnReport

\* A connect that ends is over, and so is a session.
LEMMA EndConnectTellInv ==
    ASSUME IInv, TellInv, NEW step, EndConnect(step), UNCHANGED <<state, auto, link, generation, gui>>
    PROVE  TellInv'
<1>1. w'.gen = w.gen /\ w'.at # "live"
  BY DEF EndConnect, Quiet, IInv, Shape
<1>2. CASE UNCHANGED reports
  BY <1>1, <1>2, KeepTellInv
<1>3. CASE Emit(<<Report("disconnected")>>)
  <2> DEFINE r == Report("disconnected")
  <2>1. r.what # "dropped" /\ Emit(<<r>>)
    BY <1>3 DEF Report
  <2> HIDE DEF r
  <2> QED
    BY <1>1, <2>1, EmitTellInv
<1> QED
  BY <1>2, <1>3 DEF EndConnect

\* One that goes on has not said that it is connected.
LEMMA GoesOnTellInv ==
    ASSUME IInv, TellInv, GoesOn, UNCHANGED <<state, auto, link, generation, gui, reports>>
    PROVE  TellInv'
  BY KeepTellInv DEF GoesOn, SameRequest, Blocking

LEMMA TestTellInv ==
    ASSUME IInv, TellInv, NEW a, Test(a), UNCHANGED <<state, auto, link, generation, gui>>
    PROVE  TellInv'
<1>1. GoesOn
  BY TestGoesOn
<1>2. CASE UNCHANGED reports
  BY <1>1, <1>2, GoesOnTellInv
<1>3. ASSUME NEW r, Emit(<<r>>), r.what # "dropped"
      PROVE  TellInv'
  BY <1>1, <1>3, EmitTellInv DEF GoesOn, Blocking
<1>4. CASE Accepted(a) /\ ~UNCHANGED reports
  <2> DEFINE kind == KindOf(Method)
             kept == IF Method = "interactive" /\ a.keep # NoSecret THEN a.keep ELSE a.val
             r == [what |-> "store", gen |-> w.gen, kind |-> kind, keys |-> RememberKeys, val |-> kept]
  <2>1. r.what # "dropped"
    OBVIOUS
  <2>2. Emit(<<r>>)
    BY <1>4 DEF Accepted
  <2> HIDE DEF r
  <2> QED
    BY <1>3, <2>1, <2>2
<1>5. CASE Rejected(a) /\ ~UNCHANGED reports
  <2> DEFINE r == [what |-> "rejected", gen |-> w.gen, kind |-> KindOf(Method), key |-> a.from]
  <2>1. r.what # "dropped"
    OBVIOUS
  <2>2. Emit(<<r>>)
    BY <1>5 DEF Rejected
  <2> HIDE DEF r
  <2> QED
    BY <1>3, <2>1, <2>2
<1> QED
  BY <1>2, <1>4, <1>5 DEF Test

LEMMA AskTellInv ==
    ASSUME IInv, TellInv, NEW kind, Ask(kind), UNCHANGED <<state, auto, link, generation, gui>>
    PROVE  TellInv'
<1> DEFINE r == [what |-> "question", gen |-> w.gen, q |-> w.q + 1, kind |-> kind]
<1>1. r.what # "dropped"
  OBVIOUS
<1>2. Emit(<<r>>)
  BY DEF Ask
<1>3. w'.at = "asking"
  BY DEF Ask, IInv, Shape
<1> HIDE DEF r
<1> QED
  BY <1>1, <1>2, <1>3, EmitTellInv

LEMMA WaitTellInv ==
    ASSUME IInv, TellInv, EndWait
    PROVE  TellInv'
<1>0. UNCHANGED <<state, auto, link, generation, gui>>
      /\ DOMAIN w = {"gen", "at", "again", "auth", "saved", "secret", "known", "q"}
  BY DEF EndWait, ui, IInv, Shape
<1>1. CASE \E step : EndConnect(step)
  BY <1>0, <1>1, EndConnectTellInv
<1>2. CASE w' = [w EXCEPT !.at = "method", !.known = TRUE, !.auth.plan = Plan(world)] /\ UNCHANGED reports
  <2>1. GoesOn
    BY <1>0, <1>2 DEF GoesOn, SameRequest, Blocking
  <2> QED
    BY <1>0, <1>2, <2>1, GoesOnTellInv
<1>3. CASE UNCHANGED reports /\ w' = [w EXCEPT !.at = "test", !.auth.from = "asked", !.auth.val = pending.val,
                              !.auth.keep = IF pending.remember /\ pending.val # NoSecret THEN pending.val
                                            ELSE IF Method = "interactive" THEN @ ELSE NoSecret]
  <2>1. GoesOn
    BY <1>0, <1>3 DEF GoesOn, SameRequest, Blocking
  <2> QED
    BY <1>0, <1>3, <2>1, GoesOnTellInv
<1> QED
  BY <1>1, <1>2, <1>3 DEF EndWait, UseAnswer

LEMMA WorkerTellInv ==
    ASSUME IInv, TellInv, Worker \/ AnswerTimeout \/ Environment
    PROVE  TellInv'
<1>0. UNCHANGED <<state, auto, link, generation, gui>>
      /\ DOMAIN w = {"gen", "at", "again", "auth", "saved", "secret", "known", "q"}
  BY DEF Worker, AnswerTimeout, Environment, RunOpen, RunClose, RunBeginReconnect, RunQuit, ReconnectTimer, ConnectTcp,
         VerifyHostKey, NextMethod, NextSecret, TestAnswer, OpenShell, CheckAnswer, FallAsleep, Pump, EndWait,
         WorkerKeeps, ServerChanges, SessionEnds, Fails, Refused, ui, IInv, Shape
<1>1. CASE RunOpen
  <2>1. w'.at # "live"
    BY <1>0, <1>1 DEF RunOpen, Quiet
  <2> DEFINE r == [what |-> "disconnected", gen |-> Head(calls).gen]
  <2>2. r.what # "dropped"
    OBVIOUS
  <2>3. UNCHANGED reports \/ Emit(<<r>>)
    BY <1>1 DEF RunOpen
  <2> HIDE DEF r
  <2>4. CASE Emit(<<r>>)
    BY <1>0, <2>1, <2>2, <2>4, EmitTellInv
  <2>5. CASE UNCHANGED reports
    <3>1. ASSUME NEW i \in 1..Len(reports'), Tells(i)', reports'[i].what = "dropped"
          PROVE  ConnectedAfter(i - 1)'
      <4>1. Tells(i) /\ reports[i].what = "dropped" /\ i \in 1..Len(reports)
        BY <1>0, <2>5, <3>1 DEF Tells
      <4>2. ConnectedAfter(i - 1)
        BY <4>1 DEF TellInv
      <4> QED
        BY <1>0, <2>5, <4>2 DEF ConnectedAfter, Tells
    <3> QED
      BY <1>0, <2>1, <2>5, <3>1 DEF TellInv
  <2> QED
    BY <2>3, <2>4, <2>5
<1>2. CASE RunClose
  <2>1. CASE UNCHANGED <<w, reports>>
    BY <1>0, <2>1, KeepTellInv
  <2>2. CASE w' = [Quiet(w) EXCEPT !.at = "idle"] /\ Emit(<<Report("disconnected")>>)
    <3> DEFINE r == Report("disconnected")
    <3>1. r.what # "dropped" /\ Emit(<<r>>) /\ w'.at # "live"
      BY <1>0, <2>2 DEF Report, Quiet
    <3> HIDE DEF r
    <3> QED
      BY <1>0, <3>1, EmitTellInv
  <2> QED
    BY <1>2, <2>1, <2>2 DEF RunClose
<1>3. CASE RunBeginReconnect \/ RunQuit \/ ReconnectTimer \/ Pump \/ FallAsleep
  <2>1. w'.gen = w.gen /\ (w'.at = "live" => w.at = "live") /\ UNCHANGED reports
    BY <1>0, <1>3 DEF RunBeginReconnect, RunQuit, ReconnectTimer, Pump, FallAsleep, Quiet
  <2> QED
    BY <1>0, <2>1, KeepTellInv
<1>4. ASSUME NEW step, EndConnect(step)
      PROVE  TellInv'
  BY <1>0, <1>4, EndConnectTellInv
<1>5. ASSUME GoesOn, UNCHANGED reports
      PROVE  TellInv'
  BY <1>0, <1>5, GoesOnTellInv
<1>6. CASE ConnectTcp
  <2>1. CASE w' = [w EXCEPT !.at = "hostkey"] /\ UNCHANGED reports
    <3>1. GoesOn
      BY <1>0, <2>1 DEF GoesOn, SameRequest, Blocking
    <3> QED
      BY <1>5, <2>1, <3>1
  <2> QED
    BY <1>4, <1>6, <2>1 DEF ConnectTcp
<1>7. CASE VerifyHostKey
  <2>1. CASE w' = [w EXCEPT !.at = "method", !.auth.plan = Plan(world)] /\ UNCHANGED <<reports, pending>>
    <3>1. GoesOn
      BY <1>0, <2>1 DEF GoesOn, SameRequest, Blocking
    <3> QED
      BY <1>5, <2>1, <3>1
  <2>2. CASE Ask("hostkey")
    BY <1>0, <2>2, AskTellInv
  <2> QED
    BY <1>4, <1>7, <2>1, <2>2 DEF VerifyHostKey
<1>8. CASE NextMethod
  <2>1. CASE UNCHANGED reports /\ \E taken \in BOOLEAN :
                w' = IF taken THEN [w EXCEPT !.at = "shell", !.auth = NothingTried]
                     ELSE [w EXCEPT !.auth.plan = Tail(@)]
    <3>1. GoesOn
      BY <1>0, <1>8, <2>1 DEF NextMethod, GoesOn, SameRequest, Blocking
    <3> QED
      BY <1>5, <2>1, <3>1
  <2>2. CASE UNCHANGED reports /\ w' = [w EXCEPT !.at = "try", !.auth = [NothingTried EXCEPT
                                !.plan = auth.plan, !.cands = Candidates(KindOf(Method))]]
    <3>1. GoesOn
      BY <1>0, <2>2 DEF GoesOn, SameRequest, Blocking
    <3> QED
      BY <1>5, <2>2, <3>1
  <2> QED
    BY <1>4, <1>8, <2>1, <2>2 DEF NextMethod
<1>9. CASE NextSecret
  <2> DEFINE a == [auth EXCEPT !.cands = Tail(@), !.from = Head(auth.cands).from, !.val = Head(auth.cands).val]
  <2>1. \/ Test(a)
        \/ Denied /\ UNCHANGED reports
        \/ EndConnect("NeedsInteraction")
        \/ Ask(Method)
    BY <1>9, Zenon DEF NextSecret
  <2> HIDE DEF a
  <2>2. CASE Denied /\ UNCHANGED reports
    <3>1. GoesOn
      BY <1>0, <2>2 DEF Denied, GoesOn, SameRequest, Blocking
    <3> QED
      BY <1>5, <2>2, <3>1
  <2> QED
    BY <1>0, <1>4, <2>1, <2>2, TestTellInv, AskTellInv
<1>10. CASE TestAnswer
  BY <1>0, <1>10, TestTellInv DEF TestAnswer
<1>11. CASE OpenShell
  <2>1. CASE w' = [w EXCEPT !.at = "live", !.again = FALSE] /\ Emit(<<Report("connected")>>)
    <3> DEFINE r == Report("connected")
    <3>1. r.what = "connected" /\ r.gen = w'.gen /\ Emit(<<r>>)
      BY <1>0, <2>1 DEF Report
    <3> HIDE DEF r
    <3> QED
      BY <1>0, <3>1, EmitTellInv
  <2> QED
    BY <1>4, <1>11, <2>1 DEF OpenShell
<1>12. CASE CheckAnswer \/ AnswerTimeout
  <2>1. CASE EndWait
    BY <2>1, WaitTellInv
  <2>2. CASE w' = [w EXCEPT !.at = "checking"] /\ UNCHANGED reports
    <3>1. w'.gen = w.gen /\ w'.at # "live"
      BY <1>0, <2>2
    <3> QED
      BY <1>0, <2>2, <3>1, KeepTellInv
  <2> QED
    BY <1>12, <2>1, <2>2 DEF CheckAnswer, AnswerTimeout
<1>13. CASE ServerChanges
  <2>1. w'.gen = w.gen /\ w'.at = w.at /\ UNCHANGED reports
    BY <1>0, <1>13 DEF ServerChanges
  <2> QED
    BY <1>0, <2>1, KeepTellInv
<1>14. CASE SessionEnds
  <2>1. PICK what \in {"disconnected", "dropped"} : Emit(<<Report(what)>>)
    BY <1>14 DEF SessionEnds
  <2> DEFINE r == Report(what)
  <2>2. r.gen = w.gen /\ Emit(<<r>>) /\ w.at = "live" /\ w'.at # "live"
    BY <1>0, <1>14, <2>1 DEF Report, SessionEnds
  <2> HIDE DEF r
  <2> QED
    BY <1>0, <2>2, EmitTellInv
<1>15. CASE (\E at \in Blocking : Fails(at)) \/ Refused("shell")
  BY <1>4, <1>15 DEF Fails, Refused
<1> QED
  BY <1>1, <1>2, <1>3, <1>6, <1>7, <1>8, <1>9, <1>10, <1>11, <1>12, <1>13, <1>14, <1>15 DEF Worker, Environment

LEMMA NextTellInv ==
    ASSUME IInv, TellInv, [Next]_vars
    PROVE  TellInv'
<1>1. CASE UNCHANGED vars
  BY <1>1, KeepTellInv DEF vars, ui
<1> QED
  BY <1>1, FacadeTellInv, ReportTellInv, WorkerTellInv DEF Next

\* The states a tab can be in.
StateTyped == state \in {"Disconnected", "Connecting", "Connected", "Reconnecting"}

LEMMA NextStateTyped ==
    ASSUME StateTyped, [Next]_vars
    PROVE  StateTyped'
<1>1. CASE UNCHANGED vars \/ Worker \/ AnswerTimeout \/ Environment \/ Joined \/ EndAbort
  BY <1>1 DEF StateTyped, vars, Worker, AnswerTimeout, Environment, RunOpen, RunClose, RunBeginReconnect, RunQuit, ReconnectTimer,
         ConnectTcp, VerifyHostKey, NextMethod, NextSecret, TestAnswer, OpenShell, CheckAnswer, FallAsleep, Pump, EndWait,
         WorkerKeeps, ServerChanges, SessionEnds, Fails, Refused, ui, Joined, EndAbort
<1>2. CASE User
  BY <1>2 DEF StateTyped, User, Open, Close, SetAutoReconnect, Write, Destroy, AnswerDialog, GiveAnswer, BeginAbort, ui
<1>3. CASE OnReport
  BY <1>3 DEF StateTyped, OnReport, OnConnected, OnDisconnected, OnLinkDropped, OnQuestion, OnStoreSecret, OnSecretRejected, Relay, ui
<1> QED
  BY <1>1, <1>2, <1>3 DEF Next

\* Every step of the two threads is a step of a Transport, or none.
LEMMA StepIsTransport ==
    ASSUME IInv, TellInv, StateTyped, [Next]_vars
    PROVE  [T!Next]_(T!vars)
<1> USE DEF T!vars
<1>1. CASE UNCHANGED vars \/ Worker \/ AnswerTimeout \/ Environment
  BY <1>1 DEF vars, Worker, AnswerTimeout, Environment, RunOpen, RunClose, RunBeginReconnect, RunQuit, ReconnectTimer, ConnectTcp,
         VerifyHostKey, NextMethod, NextSecret, TestAnswer, OpenShell, CheckAnswer, FallAsleep, Pump, EndWait,
         WorkerKeeps, ServerChanges, SessionEnds, Fails, Refused, ui
<1>2. CASE Open
  BY <1>2 DEF Open, T!Next, T!Open
<1>3. CASE Close \/ Write \/ Destroy \/ Joined
  BY <1>3 DEF Close, Write, Destroy, Joined, ui
<1>4. CASE AnswerDialog
  BY <1>4 DEF AnswerDialog, GiveAnswer
<1>5. CASE SetAutoReconnect
  <2>1. T!SetAutoReconnect(auto')
    BY <1>5 DEF SetAutoReconnect, T!SetAutoReconnect
  <2>2. auto' \in BOOLEAN
    BY <1>5, Zenon DEF SetAutoReconnect
  <2> QED
    BY <2>1, <2>2 DEF T!Next
<1>6. CASE EndAbort
  <2>1. CASE gui = "dropping"
    BY <1>6, <2>1 DEF EndAbort, TellInv, T!Next, T!Drop
  <2>2. CASE gui # "dropping"
    BY <1>6, <2>2 DEF EndAbort, T!Next, T!Close
  <2> QED
    BY <2>1, <2>2
<1>7. CASE OnReport
  <2>1. CASE Head(reports).gen # generation
    BY <1>7, <2>1 DEF OnReport, OnConnected, OnDisconnected, OnLinkDropped, OnQuestion, OnStoreSecret, OnSecretRejected, Relay, ui
  <2>2. CASE Head(reports).gen = generation /\ OnConnected
    <3>1. state' = "Connected" /\ link' = "up" /\ auto' = auto
      BY <2>2 DEF OnConnected, Relay
    <3>2. state \in {"Disconnected", "Connecting", "Connected", "Reconnecting"}
      BY DEF StateTyped
    <3> QED
      BY <3>1, <3>2 DEF TellInv, T!Next, T!Open, T!Restore
  <2>3. CASE Head(reports).gen = generation /\ OnDisconnected
    BY <2>3 DEF OnDisconnected, Relay, T!Next, T!Close
  <2>4. CASE Head(reports).gen = generation /\ OnLinkDropped
    <3>1. reports[1].what = "dropped" /\ reports[1].gen = generation /\ 1 \in 1..Len(reports)
      BY <2>4, QueueTail DEF OnLinkDropped, Relay, IInv, Shape
    <3>2. ConnectedAfter(0)
      BY <3>1 DEF TellInv, Tells, Telling
    <3>3. state = "Connected"
      BY <3>2 DEF ConnectedAfter
    <3> QED
      BY <2>4, <3>3 DEF OnLinkDropped, Relay, T!Next, T!Drop
  <2>5. CASE OnQuestion \/ OnStoreSecret \/ OnSecretRejected
    BY <2>5 DEF OnQuestion, OnStoreSecret, OnSecretRejected, Relay, ui
  <2> QED
    BY <1>7, <2>1, <2>2, <2>3, <2>4, <2>5 DEF OnReport
<1> QED
  BY <1>1, <1>2, <1>3, <1>4, <1>5, <1>6, <1>7 DEF Next, User

\* The two threads of an SSH tab implement Transport.
THEOREM SshIsTransport == Spec => IsTransport
<1>1. Init => T!Init
  BY DEF Init
<1>2. Init => StateTyped
  BY DEF Init, T!Init, StateTyped
<1>3. Spec => [](IInv /\ TellInv /\ StateTyped)
  BY <1>2, InitIInv, NextIInv, InitTellInv, NextTellInv, NextStateTyped, PTL DEF Spec
<1> QED
  BY <1>1, <1>3, StepIsTransport, PTL DEF Spec, IsTransport, T!Spec

-----------------------------------------------------------------------------
(* What the tab shows when nothing is queued: in which phase the present  *)
(* open() is, between the two queues, and what has become of the earlier.  *)

Connects == Blocking \cup Waiting \cup {"waiting"}

\* Of an earlier open(): whatever may still be served of it has been aborted, and
\* the worker that still works for it has been told to close.
PastInv ==
    /\ gui \in Handlers => ~busy /\ abortGen = generation
    /\ gui \notin Handlers => abortGen < generation \/ abortGen = 0
    /\ w.at = "ended" => gui \in Gone
    /\ state # "Disconnected" => generation # 0
    /\ \A i \in 1..Len(calls) :
          /\ calls[i].gen \in Nat /\ (calls[i].fn = "reconnect" => calls[i].gen # 0)
          /\ calls[i].fn \in {"open", "reconnect"} =>
                calls[i].gen <= generation /\ (calls[i].gen < generation => calls[i].gen <= abortGen)
          /\ calls[i].fn = "close" => calls[i].gen < generation
          /\ calls[i].fn = "quit" => gui \in Gone
    /\ w.gen < generation =>
          \/ w.at \in {"idle", "ended"}
          \/ \E i \in 1..Len(calls) : calls[i].fn = "close" /\ calls[i].gen = w.gen

\* A call of the present open().
Calls(i, fn) == calls[i].fn = fn /\ calls[i].gen = generation
NotCalled(fn) == \A i \in 1..Len(calls) : ~Calls(i, fn)
Silent == \A i \in 1..Len(reports) : ~Tells(i)

\* The phases of the present open().
IsClosed == state = "Disconnected" /\ Silent /\ NotCalled("open") /\ NotCalled("reconnect") /\ (w.gen = generation => w.at = "idle")
IsAsked == state = "Connecting" /\ w.gen < generation /\ NotCalled("reconnect") /\ ~NotCalled("open")
IsServed ==
    /\ w.gen = generation /\ Silent /\ NotCalled("reconnect")
    /\ \/ state \in {"Connecting", "Reconnecting"} /\ w.at \in Connects
       \/ state = "Connected" /\ w.at = "live"
IsRecalled ==
    /\ w.gen = generation /\ Silent /\ state = "Reconnecting" /\ w.at = "idle"
    /\ \E i \in 1..Len(calls) : Calls(i, "reconnect") /\ \A j \in 1..Len(calls) : Calls(j, "reconnect") => j = i
IsToldOf ==
    /\ w.gen = generation /\ NotCalled("reconnect") /\ state # "Disconnected"
    /\ \E i \in 1..Len(reports) :
          /\ Tells(i) /\ w.at = IF reports[i].what = "connected" THEN "live" ELSE "idle"
          /\ \A j \in 1..Len(reports) : Tells(j) /\ j # i => j < i /\ reports[j].what = "connected"

Phases == IsClosed \/ IsAsked \/ IsServed \/ IsRecalled \/ IsToldOf
PresentInv == gui = "idle" => (busy <=> state # "Disconnected") /\ Phases

StoryInv == PastInv /\ PresentInv

LEMMA InitStoryInv == Init => StoryInv
<1> SUFFICES ASSUME Init PROVE StoryInv
  OBVIOUS
<1>1. Len(calls) = 0 /\ Len(reports) = 0 /\ w.gen = 0 /\ w.at = "idle"
  BY DEF Init
<1>2. PastInv
  BY <1>1 DEF Init, T!Init, PastInv, Handlers
<1>3. IsClosed
  BY <1>1 DEF Init, T!Init, IsClosed, Silent, NotCalled
<1> QED
  BY <1>2, <1>3 DEF StoryInv, PresentInv, Phases, Init, T!Init

\* With both queues empty only three phases are left.
LEMMA StoryIsQuiet ==
    ASSUME IInv, StoryInv
    PROVE  QuietAgrees
<1> SUFFICES ASSUME gui = "idle", calls = <<>>, reports = <<>>
             PROVE  /\ busy <=> state # "Disconnected"
                    /\ state = "Disconnected" <=> w.at = "idle"
                    /\ state = "Connected" <=> w.at = "live"
                    /\ state # "Disconnected" => w.gen = generation /\ ~Aborted
  BY DEF QuietAgrees
<1>1. Len(calls) = 0 /\ Len(reports) = 0
  OBVIOUS
<1>2. IsClosed \/ IsServed
  BY <1>1 DEF StoryInv, PresentInv, Phases, IsAsked, IsRecalled, IsToldOf, NotCalled
<1>3. w.gen = generation => ~Aborted
  BY DEF StoryInv, PastInv, Handlers, Aborted, IInv, Shape
<1>4. w.gen < generation => w.at = "idle"
  BY <1>1 DEF StoryInv, PastInv, Gone
<1>5. w.gen <= generation /\ w.gen \in Nat /\ generation \in Nat
  BY DEF IInv, Shape, CallsInv
<1>6. CASE IsClosed
  BY <1>3, <1>4, <1>5, <1>6 DEF IsClosed, StoryInv, PresentInv
<1>7. CASE IsServed
  BY <1>3, <1>7 DEF IsServed, StoryInv, PresentInv, Connects, Blocking, Waiting
<1> QED
  BY <1>2, <1>6, <1>7

\* What the worker does between two calls: it goes on with a connect, it ends one, it comes
\* up, or its session is over.
Speaks(r) == r.gen = w.gen /\ Emit(<<r>>)
PlainSays == UNCHANGED reports \/ \E r : r.what \notin Telling /\ Emit(<<r>>)
KeepsOn == w.at \in Connects /\ w'.at \in Connects /\ PlainSays
GivesUp == w.at \in Connects /\ w'.at = "idle" /\ \E r : r.what = "disconnected" /\ Speaks(r)
ComesUp == w.at \in Connects /\ w'.at = "live" /\ \E r : r.what = "connected" /\ Speaks(r)
IsOver == w.at = "live" /\ w'.at = "idle" /\ \E r : r.what \in {"disconnected", "dropped"} /\ Speaks(r)

LEMMA EndConnectKinds ==
    ASSUME IInv, NEW step, EndConnect(step), w.at \in Connects
    PROVE  w'.gen = w.gen /\ (KeepsOn \/ GivesUp)
<1>1. CASE w' = [Quiet(w) EXCEPT !.at = "waiting"] /\ UNCHANGED reports
  BY <1>1 DEF Quiet, IInv, Shape, KeepsOn, PlainSays, Connects
<1>2. CASE w' = [Quiet(w) EXCEPT !.at = "idle"] /\ Emit(<<Report("disconnected")>>)
  <2> DEFINE r == Report("disconnected")
  <2>1. r.what = "disconnected" /\ Speaks(r)
    BY <1>2 DEF Report, Speaks
  <2>2. w'.gen = w.gen /\ w'.at = "idle"
    BY <1>2 DEF Quiet, IInv, Shape
  <2> HIDE DEF r
  <2> QED
    BY <2>1, <2>2 DEF GivesUp
<1> QED
  BY <1>1, <1>2 DEF EndConnect

LEMMA GoesOnKinds ==
    ASSUME GoesOn, w.at \in Connects, UNCHANGED reports
    PROVE  w'.gen = w.gen /\ KeepsOn
  BY DEF GoesOn, SameRequest, KeepsOn, PlainSays, Connects

LEMMA TestKinds ==
    ASSUME IInv, NEW a, Test(a), w.at \in Connects
    PROVE  w'.gen = w.gen /\ KeepsOn
<1>1. GoesOn
  BY TestGoesOn
<1>2. ASSUME NEW r, Emit(<<r>>), r.what \notin Telling
      PROVE  w'.gen = w.gen /\ KeepsOn
  BY <1>1, <1>2 DEF GoesOn, SameRequest, KeepsOn, PlainSays, Connects
<1>3. CASE UNCHANGED reports
  BY <1>1, <1>3, GoesOnKinds
<1>4. CASE Accepted(a) /\ ~UNCHANGED reports
  <2> DEFINE kind == KindOf(Method)
             kept == IF Method = "interactive" /\ a.keep # NoSecret THEN a.keep ELSE a.val
             r == [what |-> "store", gen |-> w.gen, kind |-> kind, keys |-> RememberKeys, val |-> kept]
  <2>1. r.what \notin Telling
    BY DEF Telling
  <2>2. Emit(<<r>>)
    BY <1>4 DEF Accepted
  <2> HIDE DEF r
  <2> QED
    BY <1>2, <2>1, <2>2
<1>5. CASE Rejected(a) /\ ~UNCHANGED reports
  <2> DEFINE r == [what |-> "rejected", gen |-> w.gen, kind |-> KindOf(Method), key |-> a.from]
  <2>1. r.what \notin Telling
    BY DEF Telling
  <2>2. Emit(<<r>>)
    BY <1>5 DEF Rejected
  <2> HIDE DEF r
  <2> QED
    BY <1>2, <2>1, <2>2
<1> QED
  BY <1>3, <1>4, <1>5 DEF Test

LEMMA AskKinds ==
    ASSUME IInv, NEW kind, Ask(kind), w.at \in Connects
    PROVE  w'.gen = w.gen /\ KeepsOn
<1> DEFINE r == [what |-> "question", gen |-> w.gen, q |-> w.q + 1, kind |-> kind]
<1>1. r.what \notin Telling
  BY DEF Telling
<1>2. Emit(<<r>>)
  BY DEF Ask
<1>3. w'.at = "asking" /\ w'.gen = w.gen
  BY DEF Ask, IInv, Shape
<1> HIDE DEF r
<1> QED
  BY <1>1, <1>2, <1>3 DEF KeepsOn, PlainSays, Connects, Waiting

LEMMA WaitKinds ==
    ASSUME IInv, EndWait, w.at \in Connects
    PROVE  w'.gen = w.gen /\ (KeepsOn \/ GivesUp)
<1>0. DOMAIN w = {"gen", "at", "again", "auth", "saved", "secret", "known", "q"}
  BY DEF IInv, Shape
<1>1. CASE \E step : EndConnect(step)
  BY <1>1, EndConnectKinds
<1>2. CASE w' = [w EXCEPT !.at = "method", !.known = TRUE, !.auth.plan = Plan(world)] /\ UNCHANGED reports
  <2>1. GoesOn
    BY <1>0, <1>2 DEF GoesOn, SameRequest, Blocking
  <2> QED
    BY <1>2, <2>1, GoesOnKinds
<1>3. CASE UNCHANGED reports /\ w' = [w EXCEPT !.at = "test", !.auth.from = "asked", !.auth.val = pending.val,
                              !.auth.keep = IF pending.remember /\ pending.val # NoSecret THEN pending.val
                                            ELSE IF Method = "interactive" THEN @ ELSE NoSecret]
  <2>1. GoesOn
    BY <1>0, <1>3 DEF GoesOn, SameRequest, Blocking
  <2> QED
    BY <1>3, <2>1, GoesOnKinds
<1> QED
  BY <1>1, <1>2, <1>3 DEF EndWait, UseAnswer

Connecting ==
    \/ ConnectTcp \/ VerifyHostKey \/ NextMethod \/ NextSecret \/ TestAnswer \/ OpenShell
    \/ CheckAnswer \/ FallAsleep \/ AnswerTimeout \/ (\E at \in Blocking : Fails(at)) \/ Refused("shell")

LEMMA ConnectKinds ==
    ASSUME IInv, Connecting
    PROVE  w'.gen = w.gen /\ (KeepsOn \/ GivesUp \/ ComesUp)
<1>0. w.at \in Connects /\ DOMAIN w = {"gen", "at", "again", "auth", "saved", "secret", "known", "q"}
  BY DEF Connecting, ConnectTcp, VerifyHostKey, NextMethod, NextSecret, TestAnswer, OpenShell, CheckAnswer, FallAsleep,
         AnswerTimeout, Fails, Refused, Connects, Blocking, Waiting, IInv, Shape
<1>1. ASSUME NEW at, at \in Connects, w'.at = at, w'.gen = w.gen, UNCHANGED reports
      PROVE  w'.gen = w.gen /\ KeepsOn
  BY <1>0, <1>1 DEF KeepsOn, PlainSays
<1>2. CASE ConnectTcp
  <2>1. CASE w' = [w EXCEPT !.at = "hostkey"] /\ UNCHANGED reports
    BY <1>0, <1>1, <2>1 DEF Connects, Blocking
  <2> QED
    BY <1>0, <1>2, <2>1, EndConnectKinds DEF ConnectTcp
<1>3. CASE VerifyHostKey
  <2>1. CASE w' = [w EXCEPT !.at = "method", !.auth.plan = Plan(world)] /\ UNCHANGED <<reports, pending>>
    BY <1>0, <1>1, <2>1 DEF Connects, Blocking
  <2> QED
    BY <1>0, <1>3, <2>1, EndConnectKinds, AskKinds DEF VerifyHostKey
<1>4. CASE NextMethod
  <2>1. CASE UNCHANGED reports /\ \E taken \in BOOLEAN :
                w' = IF taken THEN [w EXCEPT !.at = "shell", !.auth = NothingTried]
                     ELSE [w EXCEPT !.auth.plan = Tail(@)]
    <3>1. w'.gen = w.gen /\ w'.at \in {w.at, "shell"}
      BY <1>0, <2>1
    <3> QED
      BY <1>0, <1>1, <2>1, <3>1 DEF Connects, Blocking
  <2>2. CASE UNCHANGED reports /\ w' = [w EXCEPT !.at = "try", !.auth = [NothingTried EXCEPT
                                !.plan = auth.plan, !.cands = Candidates(KindOf(Method))]]
    BY <1>0, <1>1, <2>2 DEF Connects, Blocking
  <2> QED
    BY <1>0, <1>4, <2>1, <2>2, EndConnectKinds DEF NextMethod
<1>5. CASE NextSecret
  <2> DEFINE a == [auth EXCEPT !.cands = Tail(@), !.from = Head(auth.cands).from, !.val = Head(auth.cands).val]
  <2>1. \/ Test(a)
        \/ Denied /\ UNCHANGED reports
        \/ EndConnect("NeedsInteraction")
        \/ Ask(Method)
    BY <1>5, Zenon DEF NextSecret
  <2> HIDE DEF a
  <2>2. CASE Denied /\ UNCHANGED reports
    BY <1>0, <1>1, <2>2 DEF Denied, Connects, Blocking
  <2> QED
    BY <1>0, <2>1, <2>2, TestKinds, EndConnectKinds, AskKinds
<1>6. CASE TestAnswer
  BY <1>0, <1>6, TestKinds DEF TestAnswer
<1>7. CASE OpenShell
  <2>1. CASE w' = [w EXCEPT !.at = "live", !.again = FALSE] /\ Emit(<<Report("connected")>>)
    <3> DEFINE r == Report("connected")
    <3>1. r.what = "connected" /\ Speaks(r)
      BY <2>1 DEF Report, Speaks
    <3>2. w'.gen = w.gen /\ w'.at = "live"
      BY <1>0, <2>1
    <3> HIDE DEF r
    <3> QED
      BY <1>0, <3>1, <3>2 DEF ComesUp
  <2> QED
    BY <1>0, <1>7, <2>1, EndConnectKinds DEF OpenShell
<1>8. CASE CheckAnswer \/ FallAsleep \/ AnswerTimeout
  <2>1. CASE EndWait
    BY <1>0, <2>1, WaitKinds
  <2>2. CASE UNCHANGED reports /\ \E at \in {"checking", "asleep"} : w' = [w EXCEPT !.at = at]
    BY <1>0, <1>1, <2>2 DEF Connects, Waiting
  <2> QED
    BY <1>8, <2>1, <2>2 DEF CheckAnswer, FallAsleep, AnswerTimeout
<1>9. CASE (\E at \in Blocking : Fails(at)) \/ Refused("shell")
  BY <1>0, <1>9, EndConnectKinds DEF Fails, Refused
<1> QED
  BY <1>2, <1>3, <1>4, <1>5, <1>6, <1>7, <1>8, <1>9 DEF Connecting

-----------------------------------------------------------------------------
(* Between two calls the story goes on.                                    *)

\* What the tab has of the present open(), with the queue of calls.
TabKeeps == UNCHANGED <<state, generation, gui, busy, abortGen, calls>>

LEMMA TabKeepsPastInv ==
    ASSUME PastInv, TabKeeps, w'.gen = w.gen, w'.at \in {w.at, "idle"} \/ (w.at \notin {"idle", "ended"} /\ w'.at # "ended")
    PROVE  PastInv'
  BY DEF PastInv, TabKeeps, Gone

\* What is said in this session, if the tab still listens.
LEMMA Spoken ==
    ASSUME IInv, gui = "idle", UNCHANGED generation, NEW r, Emit(<<r>>)
    PROVE  /\ Len(reports) \in Nat /\ Len(reports') = Len(reports) + 1
           /\ \A i \in 1..Len(reports) : reports'[i] = reports[i] /\ (Tells(i)' <=> Tells(i))
           /\ \A i \in 1..Len(reports') : i \in 1..Len(reports) \/ i = Len(reports) + 1
           /\ \A i : i = Len(reports) + 1 =>
                 /\ i \in 1..Len(reports') /\ reports'[i] = r
                 /\ Tells(i)' <=> (r.what \in Telling /\ r.gen = generation)
<1>1. reports' = Append(reports, r) /\ IsQueue(reports)
  BY QueueAppend DEF Emit, IInv, Shape
<1>2. /\ Len(reports) \in Nat /\ Len(reports') = Len(reports) + 1
      /\ \A i \in 1..Len(reports) : reports'[i] = reports[i]
      /\ reports'[Len(reports) + 1] = r
  BY <1>1, QueueAppend
<1>3. \A i \in 1..Len(reports) : Tells(i)' <=> Tells(i)
  BY <1>2 DEF Tells
<1>4. ASSUME NEW i, i = Len(reports) + 1
      PROVE  /\ i \in 1..Len(reports') /\ reports'[i] = r
             /\ Tells(i)' <=> (r.what \in Telling /\ r.gen = generation)
  BY <1>2, <1>4 DEF Tells
<1>5. \A i \in 1..Len(reports') : i \in 1..Len(reports) \/ i = Len(reports) + 1
  BY <1>2
<1> QED
  BY <1>2, <1>3, <1>4, <1>5

\* Nothing that concerns the tab is said.
LEMMA PlainSpoken ==
    ASSUME IInv, gui = "idle", UNCHANGED generation, PlainSays
    PROVE  /\ Len(reports) \in Nat /\ Len(reports') \in Nat
           /\ \A i \in 1..Len(reports') : Tells(i)' <=> (i \in 1..Len(reports) /\ Tells(i))
           /\ \A i \in 1..Len(reports) : i \in 1..Len(reports') /\ reports'[i] = reports[i]
<1>1. CASE UNCHANGED reports
  BY <1>1 DEF IInv, Shape, IsQueue, Tells
<1>2. CASE \E r : r.what \notin Telling /\ Emit(<<r>>)
  <2>1. PICK r : r.what \notin Telling /\ Emit(<<r>>)
    BY <1>2
  <2>2. /\ Len(reports) \in Nat /\ Len(reports') = Len(reports) + 1
        /\ \A i \in 1..Len(reports) : reports'[i] = reports[i] /\ (Tells(i)' <=> Tells(i))
        /\ \A i \in 1..Len(reports') : i \in 1..Len(reports) \/ (i = Len(reports) + 1 /\ ~Tells(i)')
    BY <2>1, Spoken
  <2>3. Len(reports) + 1 \notin 1..Len(reports)
    BY <2>2
  <2> QED
    BY <2>2, <2>3
<1> QED
  BY <1>1, <1>2 DEF PlainSays

\* The phase lasts while the worker does what it did.
LEMMA LastsPresentInv ==
    ASSUME IInv, PresentInv, TabKeeps, PlainSays, w'.gen = w.gen,
           w'.at = w.at \/ (w.at \in Connects /\ w'.at \in Connects)
    PROVE  PresentInv'
<1> SUFFICES ASSUME gui = "idle" PROVE (busy <=> state # "Disconnected") /\ Phases'
  BY DEF PresentInv, TabKeeps
<1>0. (busy <=> state # "Disconnected") /\ Phases /\ TabKeeps
  BY DEF PresentInv
<1>1. /\ Len(reports) \in Nat /\ Len(reports') \in Nat
      /\ \A i \in 1..Len(reports') : Tells(i)' <=> (i \in 1..Len(reports) /\ Tells(i))
      /\ \A i \in 1..Len(reports) : i \in 1..Len(reports') /\ reports'[i] = reports[i]
  BY PlainSpoken DEF TabKeeps
<1>2. Silent' <=> Silent
  BY <1>1 DEF Silent
<1>3. \A fn : NotCalled(fn)' <=> NotCalled(fn)
  BY <1>0 DEF NotCalled, Calls, TabKeeps
<1>4. w.at \in Connects => w.at # "idle" /\ w.at # "live"
  BY DEF Connects, Blocking, Waiting
<1>5. CASE IsClosed
  BY <1>0, <1>2, <1>3, <1>4, <1>5 DEF IsClosed, Phases, TabKeeps
<1>6. CASE IsAsked
  BY <1>0, <1>3, <1>6 DEF IsAsked, Phases, TabKeeps
<1>7. CASE IsServed
  BY <1>0, <1>2, <1>3, <1>4, <1>7 DEF IsServed, Phases, TabKeeps
<1>8. CASE IsRecalled
  BY <1>0, <1>2, <1>4, <1>8 DEF IsRecalled, Phases, TabKeeps, Calls
<1>9. CASE IsToldOf
  BY <1>0, <1>1, <1>3, <1>4, <1>9 DEF IsToldOf, Phases, TabKeeps
<1> QED
  BY <1>0, <1>5, <1>6, <1>7, <1>8, <1>9 DEF Phases

\* What changes the phase is said.
LEMMA SaidPresentInv ==
    ASSUME IInv, PresentInv, TabKeeps, w'.gen = w.gen, GivesUp \/ ComesUp \/ IsOver
    PROVE  PresentInv'
<1> SUFFICES ASSUME gui = "idle" PROVE (busy <=> state # "Disconnected") /\ Phases'
  BY DEF PresentInv, TabKeeps
<1>0. (busy <=> state # "Disconnected") /\ Phases /\ TabKeeps
  BY DEF PresentInv
<1>1. PICK r : /\ r.what \in Telling /\ r.gen = w.gen /\ Emit(<<r>>)
               /\ w'.at = IF r.what = "connected" THEN "live" ELSE "idle"
               /\ w.at \in Connects \/ (w.at = "live" /\ r.what # "connected")
  BY DEF GivesUp, ComesUp, IsOver, Speaks, Telling
<1> PICK n : n = Len(reports) + 1
  OBVIOUS
<1>2. /\ Len(reports) \in Nat /\ Len(reports') = n /\ n \in 1..n
      /\ \A i \in 1..Len(reports) : reports'[i] = reports[i] /\ (Tells(i)' <=> Tells(i))
      /\ reports'[n] = r /\ (Tells(n)' <=> w.gen = generation)
  BY <1>0, <1>1, Spoken DEF TabKeeps
<1>3. \A i \in 1..n : i \in 1..Len(reports) \/ i = n
  BY <1>2
<1>4. \A fn : NotCalled(fn)' <=> NotCalled(fn)
  BY <1>0 DEF NotCalled, Calls, TabKeeps
<1>5. w.at # "idle" /\ (w.at \in Connects => w.at # "live")
  BY <1>1 DEF Connects, Blocking, Waiting
<1>6. CASE w.gen # generation
  <2>1. Silent => Silent'
    BY <1>2, <1>3, <1>6 DEF Silent
  <2>2. IsClosed \/ IsAsked
    BY <1>0, <1>6 DEF Phases, IsServed, IsRecalled, IsToldOf
  <2>3. CASE IsClosed
    BY <1>0, <1>4, <1>6, <2>1, <2>3 DEF IsClosed, Phases, TabKeeps
  <2>4. CASE IsAsked
    BY <1>0, <1>4, <1>6, <2>4 DEF IsAsked, Phases, TabKeeps
  <2> QED
    BY <1>0, <2>2, <2>3, <2>4
<1>7. CASE w.gen = generation
  <2>1. \/ IsServed
        \/ IsToldOf
    BY <1>0, <1>5, <1>7 DEF Phases, IsClosed, IsAsked, IsRecalled, IInv, Shape
  <2>2. state # "Disconnected" /\ NotCalled("reconnect")
    BY <2>1 DEF IsServed, IsToldOf
  <2>3. \A j \in 1..Len(reports) : Tells(j) => reports[j].what = "connected"
    BY <1>5, <2>1 DEF IsServed, Silent, IsToldOf
  <2>4. /\ Tells(n)' /\ w'.at = IF reports'[n].what = "connected" THEN "live" ELSE "idle"
        /\ \A j \in 1..Len(reports') : Tells(j)' /\ j # n => j < n /\ reports'[j].what = "connected"
    <3>1. \A j \in 1..Len(reports) : j < n
      BY <1>2
    <3> QED
      BY <1>1, <1>2, <1>3, <1>7, <2>3, <3>1
  <2>5. IsToldOf'
    BY <1>0, <1>2, <1>4, <1>7, <2>2, <2>4 DEF IsToldOf, TabKeeps
  <2> QED
    BY <1>0, <2>5 DEF Phases
<1> QED
  BY <1>6, <1>7

LEMMA WorkStoryInv ==
    ASSUME IInv, StoryInv, TabKeeps, w'.gen = w.gen, KeepsOn \/ GivesUp \/ ComesUp \/ IsOver
    PROVE  StoryInv'
<1>1. PastInv'
  BY TabKeepsPastInv DEF StoryInv, KeepsOn, GivesUp, ComesUp, IsOver, Connects, Blocking, Waiting
<1>2. PresentInv'
  BY LastsPresentInv, SaidPresentInv DEF StoryInv, KeepsOn
<1> QED
  BY <1>1, <1>2 DEF StoryInv

-----------------------------------------------------------------------------
(* A call is served.                                                       *)

\* The calls move up by one.
LEMMA CallsMoveUp ==
    ASSUME IInv, calls # <<>>, calls' = Tail(calls), UNCHANGED generation
    PROVE  /\ Len(calls) \in Nat \ {0} /\ Head(calls) = calls[1] /\ 1 \in 1..Len(calls)
           /\ \A i \in 1..Len(calls') : i \in Int /\ i + 1 \in 2..Len(calls) /\ calls'[i] = calls[i + 1]
           /\ \A i \in 2..Len(calls) : i - 1 \in 1..Len(calls') /\ calls'[i - 1] = calls[i]
           /\ \A fn : NotCalled(fn) => NotCalled(fn)'
           /\ \A fn : NotCalled(fn)' /\ ~Calls(1, fn) => NotCalled(fn)
<1>1. /\ Len(calls) \in Nat \ {0} /\ Head(calls) = calls[1] /\ Len(calls') = Len(calls) - 1
      /\ \A i \in 1..Len(calls') : i + 1 \in 1..Len(calls) /\ calls'[i] = calls[i + 1]
  BY QueueTail DEF IInv, Shape
<1>2. /\ \A i \in 1..Len(calls') : i \in Int /\ i + 1 \in 2..Len(calls) /\ calls'[i] = calls[i + 1]
      /\ \A i \in 2..Len(calls) : i - 1 \in 1..Len(calls') /\ calls'[i - 1] = calls[i]
      /\ \A i \in 1..Len(calls) : i = 1 \/ i \in 2..Len(calls)
  <2>1. \A i \in 2..Len(calls) : i - 1 \in 1..Len(calls') /\ (i - 1) + 1 = i
    BY <1>1
  <2> QED
    BY <1>1, <2>1
<1>3. \A fn : \A i \in 1..Len(calls') : Calls(i, fn)' <=> Calls(i + 1, fn)
  BY <1>2 DEF Calls
<1>4. ASSUME NEW fn, NotCalled(fn)
      PROVE  NotCalled(fn)'
  BY <1>1, <1>3, <1>4 DEF NotCalled
<1>5. ASSUME NEW fn, NotCalled(fn)', ~Calls(1, fn)
      PROVE  NotCalled(fn)
  <2>1. ASSUME NEW i \in 2..Len(calls) PROVE ~Calls(i, fn)
    BY <1>2, <1>5 DEF NotCalled, Calls
  <2> QED
    BY <1>2, <1>5, <2>1 DEF NotCalled
<1> QED
  BY <1>1, <1>2, <1>4, <1>5

\* Of an earlier open() the worker has still to be told, unless it just was.
LEMMA ServedPastInv ==
    ASSUME IInv, PastInv, calls # <<>>, calls' = Tail(calls), UNCHANGED <<state, gui, busy, abortGen, generation>>,
           w'.at = "ended" => gui \in Gone,
           w'.gen < generation => \/ w'.at \in {"idle", "ended"}
                                  \/ w'.gen = w.gen /\ w'.at = w.at /\ ~(calls[1].fn = "close" /\ calls[1].gen = w.gen)
    PROVE  PastInv'
<1>1. /\ \A i \in 1..Len(calls') : i \in Int /\ i + 1 \in 2..Len(calls) /\ calls'[i] = calls[i + 1]
      /\ \A i \in 2..Len(calls) : i - 1 \in 1..Len(calls') /\ calls'[i - 1] = calls[i]
      /\ Len(calls) \in Nat \ {0}
  BY CallsMoveUp
<1>2. ASSUME NEW i \in 1..Len(calls')
      PROVE  /\ calls'[i].gen \in Nat /\ (calls'[i].fn = "reconnect" => calls'[i].gen # 0)
             /\ calls'[i].fn \in {"open", "reconnect"} =>
                   calls'[i].gen <= generation' /\ (calls'[i].gen < generation' => calls'[i].gen <= abortGen')
             /\ calls'[i].fn = "close" => calls'[i].gen < generation'
             /\ calls'[i].fn = "quit" => gui' \in Gone
  <2>1. i + 1 \in 1..Len(calls) /\ calls'[i] = calls[i + 1]
    BY <1>1
  <2> QED
    BY <2>1 DEF PastInv
<1>3. ASSUME w'.gen < generation', w'.at \notin {"idle", "ended"}
      PROVE  \E i \in 1..Len(calls') : calls'[i].fn = "close" /\ calls'[i].gen = w'.gen
  <2>1. w'.gen = w.gen /\ ~(calls[1].fn = "close" /\ calls[1].gen = w.gen) /\ w.gen < generation /\ w.at \notin {"idle", "ended"}
    BY <1>3
  <2>2. PICK i \in 1..Len(calls) : calls[i].fn = "close" /\ calls[i].gen = w.gen
    BY <2>1 DEF PastInv
  <2>3. i \in 2..Len(calls)
    BY <1>1, <2>1, <2>2
  <2> QED
    BY <1>1, <2>1, <2>2, <2>3
<1>4. /\ gui' \in Handlers => ~busy' /\ abortGen' = generation'
      /\ gui' \notin Handlers => abortGen' < generation' \/ abortGen' = 0
      /\ w'.at = "ended" => gui' \in Gone
      /\ state' # "Disconnected" => generation' # 0
  BY DEF PastInv
<1> QED
  BY <1>2, <1>3, <1>4 DEF PastInv

\* The call that is served.
LEMMA ServedCall ==
    ASSUME IInv, StoryInv, NEW fn, Call(fn)
    PROVE  /\ calls # <<>> /\ calls' = Tail(calls) /\ 1 \in 1..Len(calls) /\ Head(calls) = calls[1]
           /\ calls[1].fn = fn /\ calls[1].gen \in Nat
           /\ w.gen <= generation /\ w.gen \in Nat /\ generation \in Nat /\ abortGen \in Nat
           /\ w.at \in {"idle", "waiting", "live"}
<1>1. calls # <<>> /\ calls' = Tail(calls) /\ w.at \in {"idle", "waiting", "live"} /\ Head(calls).fn = fn
  BY DEF Call, InLoop
<1>2. Len(calls) \in Nat \ {0} /\ Head(calls) = calls[1]
  BY <1>1, QueueTail DEF IInv, Shape
<1>3. calls[1].gen \in Nat
  BY <1>2 DEF StoryInv, PastInv
<1> QED
  BY <1>1, <1>2, <1>3 DEF IInv, Shape, CallsInv

LEMMA OpenServedStoryInv ==
    ASSUME IInv, StoryInv, RunOpen
    PROVE  StoryInv'
<1> DEFINE c == calls[1]
<1>0. UNCHANGED <<state, generation, gui, busy, abortGen>> /\ DOMAIN w = {"gen", "at", "again", "auth", "saved", "secret", "known", "q"}
  BY DEF RunOpen, ui, IInv, Shape
<1>1. /\ calls # <<>> /\ calls' = Tail(calls) /\ 1 \in 1..Len(calls) /\ Head(calls) = c
      /\ c.fn = "open" /\ c.gen \in Nat
      /\ w.gen <= generation /\ w.gen \in Nat /\ generation \in Nat /\ abortGen \in Nat
  BY ServedCall DEF RunOpen
<1>2. w.gen < c.gen /\ c.gen <= generation /\ (c.gen < generation => c.gen <= abortGen)
  BY <1>1 DEF IInv, CallsInv, StoryInv, PastInv
<1>3. w'.gen = c.gen /\ w'.at = IF abortGen >= c.gen THEN "idle" ELSE "connect"
  BY <1>0, <1>1 DEF RunOpen, Quiet
<1> HIDE DEF c
<1>4. PastInv'
  <2>1. w'.at # "ended" /\ (w'.gen < generation => w'.at = "idle")
    BY <1>1, <1>2, <1>3
  <2> QED
    BY <1>0, <1>1, <2>1, ServedPastInv DEF StoryInv
<1>5. ASSUME gui = "idle" PROVE (busy <=> state # "Disconnected")' /\ Phases'
  <2>0. abortGen < generation \/ abortGen = 0
    BY <1>5 DEF StoryInv, PastInv, Handlers
  <2>1. (busy <=> state # "Disconnected") /\ Phases
    BY <1>5 DEF StoryInv, PresentInv
  <2>2. IsClosed \/ IsAsked
    BY <1>1, <1>2, <2>1 DEF Phases, IsServed, IsRecalled, IsToldOf
  <2>3. NotCalled("reconnect")'
    <3>1. NotCalled("reconnect")
      BY <2>2 DEF IsClosed, IsAsked
    <3> QED
      BY <1>0, <1>1, <3>1, CallsMoveUp
  <2>4. CASE c.gen = generation
    <3>1. ~NotCalled("open")
      BY <1>1, <2>4 DEF NotCalled, Calls, c
    <3>2. state = "Connecting"
      BY <2>2, <3>1 DEF IsClosed, IsAsked
    <3>3. UNCHANGED reports
      BY <1>1, <1>2, <2>0, <2>4 DEF RunOpen, c
    <3>4. \A i \in 1..Len(reports) : reports[i].gen \in Nat /\ reports[i].gen <= w.gen
      BY DEF IInv, ReportsInv
    <3>5. Silent'
      BY <1>0, <1>1, <1>2, <2>4, <3>3, <3>4 DEF Silent, Tells
    <3>6. w'.at \in Connects
      BY <1>1, <1>2, <1>3, <2>0, <2>4 DEF Connects, Blocking
    <3>7. IsServed'
      BY <1>0, <1>3, <2>3, <2>4, <3>2, <3>5, <3>6 DEF IsServed
    <3> QED
      BY <1>0, <2>1, <3>7 DEF Phases
  <2>5. CASE c.gen # generation
    <3>0. PlainSays \/ \E r : r.gen = c.gen /\ Emit(<<r>>)
      <4> DEFINE r == [what |-> "disconnected", gen |-> c.gen]
      <4>1. r.gen = c.gen
        OBVIOUS
      <4>2. UNCHANGED reports \/ Emit(<<r>>)
        BY <1>1 DEF RunOpen
      <4> HIDE DEF r
      <4> QED
        BY <4>1, <4>2 DEF PlainSays
    <3>1. Silent => Silent'
      <4>1. CASE PlainSays
        BY <1>0, <1>5, <4>1, PlainSpoken DEF Silent
      <4>2. CASE \E r : r.gen = c.gen /\ Emit(<<r>>)
        <5>1. PICK r : r.gen = c.gen /\ Emit(<<r>>)
          BY <4>2
        <5>2. /\ Len(reports) \in Nat /\ Len(reports') = Len(reports) + 1
              /\ \A i \in 1..Len(reports) : Tells(i)' <=> Tells(i)
              /\ \A i \in 1..Len(reports') : i \in 1..Len(reports) \/ ~Tells(i)'
          BY <1>0, <1>5, <2>5, <5>1, Spoken
        <5> QED
          BY <5>2 DEF Silent
      <4> QED
        BY <3>0, <4>1, <4>2
    <3>2. ~Calls(1, "open")
      BY <2>5 DEF Calls, c
    <3>3. NotCalled("open")' <=> NotCalled("open")
      BY <1>0, <1>1, <3>2, CallsMoveUp
    <3>4. w'.gen < generation
      BY <1>1, <1>2, <1>3, <2>5
    <3>5. IsClosed => IsClosed'
      BY <1>0, <1>3, <2>3, <2>5, <3>1, <3>3 DEF IsClosed
    <3>6. IsAsked => IsAsked'
      BY <1>0, <2>3, <3>3, <3>4 DEF IsAsked
    <3> QED
      BY <1>0, <2>1, <2>2, <3>5, <3>6 DEF Phases
  <2> QED
    BY <2>4, <2>5
<1> QED
  BY <1>0, <1>4, <1>5 DEF StoryInv, PresentInv

\* The reconnect that is called moves up, if it was not the one that is served.
LEMMA RecallMovesUp ==
    ASSUME IInv, calls # <<>>, calls' = Tail(calls), UNCHANGED generation, ~Calls(1, "reconnect"),
           \E i \in 1..Len(calls) : Calls(i, "reconnect") /\ \A j \in 1..Len(calls) : Calls(j, "reconnect") => j = i
    PROVE  (\E i \in 1..Len(calls) : Calls(i, "reconnect") /\ \A j \in 1..Len(calls) : Calls(j, "reconnect") => j = i)'
<1>1. /\ Len(calls) \in Nat \ {0}
      /\ \A i \in 1..Len(calls') : i \in Int /\ i + 1 \in 2..Len(calls) /\ calls'[i] = calls[i + 1]
      /\ \A i \in 2..Len(calls) : i - 1 \in 1..Len(calls') /\ calls'[i - 1] = calls[i]
  BY CallsMoveUp
<1>2. PICK i \in 1..Len(calls) : Calls(i, "reconnect") /\ \A j \in 1..Len(calls) : Calls(j, "reconnect") => j = i
  OBVIOUS
<1>3. i \in 2..Len(calls)
  BY <1>1, <1>2
<1>4. i - 1 \in 1..Len(calls') /\ Calls(i - 1, "reconnect")'
  BY <1>1, <1>2, <1>3 DEF Calls
<1>5. ASSUME NEW j \in 1..Len(calls'), Calls(j, "reconnect")' PROVE j = i - 1
  <2>1. j \in Int /\ j + 1 \in 1..Len(calls) /\ Calls(j + 1, "reconnect")
    BY <1>1, <1>5 DEF Calls
  <2> QED
    BY <1>2, <2>1
<1> QED
  BY <1>4, <1>5

\* A close() is of an earlier open(), and so is what it makes the worker say.
LEMMA CloseServedStoryInv ==
    ASSUME IInv, StoryInv, RunClose
    PROVE  StoryInv'
<1>0. UNCHANGED <<state, generation, gui, busy, abortGen>> /\ DOMAIN w = {"gen", "at", "again", "auth", "saved", "secret", "known", "q"}
  BY DEF RunClose, ui, IInv, Shape
<1>1. /\ calls # <<>> /\ calls' = Tail(calls) /\ 1 \in 1..Len(calls) /\ Head(calls) = calls[1]
      /\ calls[1].fn = "close" /\ w.gen \in Nat /\ generation \in Nat
      /\ w.at \in {"idle", "waiting", "live"}
  BY ServedCall DEF RunClose
<1>2. calls[1].gen < generation /\ calls[1].gen \in Nat
  BY <1>1 DEF StoryInv, PastInv
<1>3. w'.gen = w.gen /\ (w' = w \/ (w'.at = "idle" /\ w.gen < generation))
  BY <1>0, <1>1, <1>2 DEF RunClose, Quiet
<1>4. calls[1].gen = w.gen => w'.at = "idle"
  BY <1>0, <1>1 DEF RunClose, Quiet
<1>5. PastInv'
  <2>1. w'.at = "ended" => gui \in Gone
    BY <1>1, <1>3
  <2>2. w'.gen < generation => \/ w'.at \in {"idle", "ended"}
                               \/ w'.gen = w.gen /\ w'.at = w.at /\ ~(calls[1].fn = "close" /\ calls[1].gen = w.gen)
    BY <1>3, <1>4
  <2> QED
    BY <1>0, <1>1, <2>1, <2>2, ServedPastInv DEF StoryInv
<1>6. ASSUME gui = "idle" PROVE (busy <=> state # "Disconnected")' /\ Phases'
  <2>1. (busy <=> state # "Disconnected") /\ Phases
    BY <1>6 DEF StoryInv, PresentInv
  <2>2. ~Calls(1, "open") /\ ~Calls(1, "reconnect")
    BY <1>1 DEF Calls
  <2>3. (NotCalled("open")' <=> NotCalled("open")) /\ (NotCalled("reconnect") => NotCalled("reconnect")')
    BY <1>0, <1>1, <2>2, CallsMoveUp
  <2>4. CASE UNCHANGED <<w, reports>>
    <3>1. (Silent' <=> Silent) /\ \A i : Tells(i)' <=> Tells(i)
      BY <1>0, <2>4 DEF Silent, Tells
    <3>2. (IsClosed => IsClosed') /\ (IsAsked => IsAsked') /\ (IsServed => IsServed')
      BY <1>0, <2>3, <2>4, <3>1 DEF IsClosed, IsAsked, IsServed
    <3>3. IsToldOf => IsToldOf'
      BY <1>0, <2>3, <2>4, <3>1 DEF IsToldOf
    <3>4. IsRecalled => IsRecalled'
      BY <1>0, <1>1, <2>2, <2>4, <3>1, RecallMovesUp DEF IsRecalled
    <3> QED
      BY <1>0, <2>1, <3>2, <3>3, <3>4 DEF Phases
  <2>5. CASE calls[1].gen = w.gen /\ Emit(<<Report("disconnected")>>)
    <3>1. w.gen < generation /\ w'.at = "idle" /\ w'.gen = w.gen
      BY <1>2, <1>3, <1>4, <2>5
    <3>2. IsClosed \/ IsAsked
      BY <1>1, <2>1, <3>1 DEF Phases, IsServed, IsRecalled, IsToldOf
    <3>3. Silent => Silent'
      <4> DEFINE r == Report("disconnected")
      <4>1. r.gen # generation /\ Emit(<<r>>)
        BY <1>1, <2>5, <3>1 DEF Report
      <4> HIDE DEF r
      <4>2. /\ Len(reports) \in Nat /\ Len(reports') = Len(reports) + 1
            /\ \A i \in 1..Len(reports) : Tells(i)' <=> Tells(i)
            /\ \A i \in 1..Len(reports') : i \in 1..Len(reports) \/ ~Tells(i)'
        BY <1>0, <1>6, <4>1, Spoken
      <4> QED
        BY <4>2 DEF Silent
    <3>4. (IsClosed => IsClosed') /\ (IsAsked => IsAsked')
      BY <1>0, <1>1, <2>3, <3>1, <3>3 DEF IsClosed, IsAsked
    <3> QED
      BY <1>0, <2>1, <3>2, <3>4 DEF Phases
  <2> QED
    BY <1>1, <2>4, <2>5 DEF RunClose
<1> QED
  BY <1>0, <1>5, <1>6 DEF StoryInv, PresentInv

\* A reconnect of an earlier open() is none: it has been aborted.
LEMMA ReconnectServedStoryInv ==
    ASSUME IInv, StoryInv, RunBeginReconnect
    PROVE  StoryInv'
<1>0. UNCHANGED <<state, generation, gui, busy, abortGen, reports>> /\ DOMAIN w = {"gen", "at", "again", "auth", "saved", "secret", "known", "q"}
  BY DEF RunBeginReconnect, ui, IInv, Shape
<1>1. /\ calls # <<>> /\ calls' = Tail(calls) /\ 1 \in 1..Len(calls) /\ Head(calls) = calls[1]
      /\ calls[1].fn = "reconnect" /\ calls[1].gen \in Nat
      /\ w.gen <= generation /\ w.gen \in Nat /\ generation \in Nat /\ abortGen \in Nat
      /\ w.at \in {"idle", "waiting", "live"}
  BY ServedCall DEF RunBeginReconnect
<1>2. calls[1].gen # 0 /\ calls[1].gen <= generation /\ (calls[1].gen < generation => calls[1].gen <= abortGen)
  BY <1>1 DEF StoryInv, PastInv
<1>3. w'.gen = w.gen /\ (w' = w \/ (w'.at = "waiting" /\ w.gen = generation /\ Calls(1, "reconnect")))
  BY <1>0, <1>1, <1>2 DEF RunBeginReconnect, Aborted, Calls
<1>4. PastInv'
  <2>1. w'.at = "ended" => gui \in Gone
    BY <1>1, <1>3
  <2>2. w'.gen < generation => w' = w
    BY <1>1, <1>3
  <2> QED
    BY <1>0, <1>1, <2>1, <2>2, ServedPastInv DEF StoryInv
<1>5. ASSUME gui = "idle" PROVE (busy <=> state # "Disconnected")' /\ Phases'
  <2>1. (busy <=> state # "Disconnected") /\ Phases
    BY <1>5 DEF StoryInv, PresentInv
  <2>2. ~Calls(1, "open")
    BY <1>1 DEF Calls
  <2>3. (NotCalled("open")' <=> NotCalled("open")) /\ (NotCalled("reconnect") => NotCalled("reconnect")')
    BY <1>0, <1>1, <2>2, CallsMoveUp
  <2>4. (Silent' <=> Silent) /\ \A i : Tells(i)' <=> Tells(i)
    BY <1>0 DEF Silent, Tells
  <2>5. CASE Calls(1, "reconnect")
    <3>1. ~NotCalled("reconnect")
      BY <1>1, <2>5 DEF NotCalled
    <3>2. IsRecalled
      BY <2>1, <3>1 DEF Phases, IsClosed, IsAsked, IsServed, IsToldOf
    <3>3. PICK i \in 1..Len(calls) : \A j \in 1..Len(calls) : Calls(j, "reconnect") => j = i
      BY <3>2 DEF IsRecalled
    <3>4. \A j \in 2..Len(calls) : ~Calls(j, "reconnect")
      BY <1>1, <2>5, <3>3
    <3>5. NotCalled("reconnect")'
      BY <1>0, <1>1, <3>4, CallsMoveUp DEF NotCalled, Calls
    <3>6. w'.at = "waiting"
      <4>1. abortGen < generation \/ abortGen = 0
        BY <1>5 DEF StoryInv, PastInv, Handlers
      <4>2. ~Aborted
        BY <1>1, <3>2, <4>1 DEF Aborted, IsRecalled
      <4> QED
        BY <1>0, <1>1, <2>5, <3>2, <4>2 DEF RunBeginReconnect, IsRecalled, Calls
    <3>7. IsServed'
      BY <1>0, <1>3, <2>4, <3>2, <3>5, <3>6 DEF IsServed, IsRecalled, Connects
    <3> QED
      BY <1>0, <2>1, <3>7 DEF Phases
  <2>6. CASE ~Calls(1, "reconnect")
    <3>1. w' = w
      BY <1>3, <2>6
    <3>2. (IsClosed => IsClosed') /\ (IsAsked => IsAsked') /\ (IsServed => IsServed')
      BY <1>0, <2>3, <2>4, <3>1 DEF IsClosed, IsAsked, IsServed
    <3>3. IsToldOf => IsToldOf'
      BY <1>0, <2>3, <2>4, <3>1 DEF IsToldOf
    <3>4. IsRecalled => IsRecalled'
      BY <1>0, <1>1, <2>4, <2>6, <3>1, RecallMovesUp DEF IsRecalled
    <3> QED
      BY <1>0, <2>1, <3>2, <3>3, <3>4 DEF Phases
  <2> QED
    BY <2>5, <2>6
<1> QED
  BY <1>0, <1>4, <1>5 DEF StoryInv, PresentInv

LEMMA QuitServedStoryInv ==
    ASSUME IInv, StoryInv, RunQuit
    PROVE  StoryInv'
<1>0. UNCHANGED <<state, generation, gui, busy, abortGen>> /\ w'.at = "ended"
  BY DEF RunQuit, ui, Quiet, IInv, Shape
<1>1. calls # <<>> /\ calls' = Tail(calls) /\ 1 \in 1..Len(calls) /\ calls[1].fn = "quit"
  BY ServedCall DEF RunQuit
<1>2. gui \in Gone
  BY <1>1 DEF StoryInv, PastInv
<1>3. PastInv'
  BY <1>0, <1>1, <1>2, ServedPastInv DEF StoryInv
<1> QED
  BY <1>0, <1>2, <1>3 DEF StoryInv, PresentInv, Gone

\* The worker's steps.
LEMMA WorkerStoryInv ==
    ASSUME IInv, StoryInv, Worker \/ AnswerTimeout \/ Environment
    PROVE  StoryInv'
<1>0. /\ UNCHANGED <<state, generation, gui, busy, abortGen>>
      /\ DOMAIN w = {"gen", "at", "again", "auth", "saved", "secret", "known", "q"}
      /\ w.gen <= generation /\ w.gen \in Nat /\ generation \in Nat /\ abortGen \in Nat
  BY DEF Worker, AnswerTimeout, Environment, RunOpen, RunClose, RunBeginReconnect, RunQuit, ReconnectTimer, ConnectTcp,
         VerifyHostKey, NextMethod, NextSecret, TestAnswer, OpenShell, CheckAnswer, FallAsleep, Pump, EndWait,
         WorkerKeeps, ServerChanges, SessionEnds, Fails, Refused, ui, IInv, Shape, CallsInv
<1>1. CASE Connecting
  <2>1. UNCHANGED calls
    BY <1>1 DEF Connecting, ConnectTcp, VerifyHostKey, NextMethod, NextSecret, TestAnswer, OpenShell, CheckAnswer,
           FallAsleep, AnswerTimeout, EndWait, WorkerKeeps, Fails, Refused
  <2> QED
    BY <1>0, <1>1, <2>1, ConnectKinds, WorkStoryInv DEF TabKeeps
<1>2. CASE RunOpen \/ RunClose \/ RunBeginReconnect \/ RunQuit
  BY <1>2, OpenServedStoryInv, CloseServedStoryInv, ReconnectServedStoryInv, QuitServedStoryInv
<1>3. CASE ReconnectTimer
  <2>1. UNCHANGED <<calls, reports>> /\ w.at = "waiting" /\ w'.gen = w.gen
    BY <1>0, <1>3 DEF ReconnectTimer
  <2>2. CASE w'.at = "connect"
    BY <1>0, <2>1, <2>2, WorkStoryInv DEF TabKeeps, KeepsOn, PlainSays, Connects, Blocking
  <2>3. CASE Aborted /\ w'.at = "idle"
    <3>1. PastInv'
      BY <1>0, <2>1, <2>3, TabKeepsPastInv DEF StoryInv, TabKeeps
    <3>2. ASSUME gui = "idle" PROVE (busy <=> state # "Disconnected")' /\ Phases'
      <4>1. (busy <=> state # "Disconnected") /\ Phases /\ w.gen < generation
        BY <1>0, <2>3, <3>2 DEF StoryInv, PresentInv, PastInv, Handlers, Aborted
      <4>2. IsClosed \/ IsAsked
        BY <1>0, <4>1 DEF Phases, IsServed, IsRecalled, IsToldOf
      <4>3. (Silent' <=> Silent) /\ \A fn : NotCalled(fn)' <=> NotCalled(fn)
        BY <1>0, <2>1 DEF Silent, Tells, NotCalled, Calls
      <4>4. (IsClosed => IsClosed') /\ (IsAsked => IsAsked')
        BY <1>0, <2>1, <4>1, <4>3 DEF IsClosed, IsAsked
      <4> QED
        BY <1>0, <4>1, <4>2, <4>4 DEF Phases
    <3> QED
      BY <1>0, <3>1, <3>2 DEF StoryInv, PresentInv
  <2> QED
    BY <1>0, <1>3, <2>2, <2>3 DEF ReconnectTimer
<1>4. CASE SessionEnds
  <2>1. UNCHANGED calls /\ w.at = "live" /\ w'.at = "idle" /\ w'.gen = w.gen
    BY <1>0, <1>4 DEF SessionEnds
  <2>2. PICK what \in {"disconnected", "dropped"} : Emit(<<Report(what)>>)
    BY <1>4 DEF SessionEnds
  <2> DEFINE r == Report(what)
  <2>3. r.what \in {"disconnected", "dropped"} /\ Speaks(r)
    BY <2>2 DEF Report, Speaks
  <2> HIDE DEF r
  <2>4. IsOver
    BY <2>1, <2>3 DEF IsOver
  <2> QED
    BY <1>0, <2>1, <2>4, WorkStoryInv DEF TabKeeps
<1>5. CASE Pump \/ ServerChanges
  <2>1. UNCHANGED <<calls, reports>> /\ w'.gen = w.gen /\ w'.at = w.at
    BY <1>0, <1>5 DEF Pump, ServerChanges
  <2> QED
    BY <1>0, <2>1, TabKeepsPastInv, LastsPresentInv DEF StoryInv, TabKeeps, PlainSays
<1> QED
  BY <1>1, <1>2, <1>3, <1>4, <1>5 DEF Worker, Environment, Connecting

-----------------------------------------------------------------------------
(* What the tab does.                                                      *)

\* The mark of an abort: nothing is shown while a handler runs.
LEMMA BeginAbortStoryInv ==
    ASSUME IInv, StoryInv, gui = "idle", NEW handler \in Handlers, BeginAbort(handler),
           state' \in {state, "Disconnected"}, UNCHANGED <<generation, calls, w>>
    PROVE  StoryInv'
<1>1. gui' \in Handlers /\ gui' # "idle" /\ ~busy'
  BY DEF BeginAbort, Handlers
<1>2. abortGen < generation \/ abortGen = 0
  BY DEF StoryInv, PastInv, Handlers
<1>3. abortGen' = generation /\ generation \in Nat /\ abortGen \in Nat
  BY <1>2 DEF BeginAbort, IInv, Shape
<1>4. \A i \in 1..Len(calls) :
         /\ calls[i].gen \in Nat /\ (calls[i].fn = "reconnect" => calls[i].gen # 0)
         /\ calls[i].fn \in {"open", "reconnect"} => calls[i].gen <= generation
         /\ calls[i].fn = "close" => calls[i].gen < generation
         /\ calls[i].fn # "quit"
  BY DEF StoryInv, PastInv, Gone
<1>5. \A i \in 1..Len(calls') :
         /\ calls'[i].gen \in Nat /\ (calls'[i].fn = "reconnect" => calls'[i].gen # 0)
         /\ calls'[i].fn \in {"open", "reconnect"} =>
               calls'[i].gen <= generation' /\ (calls'[i].gen < generation' => calls'[i].gen <= abortGen')
         /\ calls'[i].fn = "close" => calls'[i].gen < generation'
         /\ calls'[i].fn = "quit" => gui' \in Gone
  BY <1>3, <1>4
<1>6. w'.at # "ended" /\ (state' # "Disconnected" => generation' # 0)
  BY DEF StoryInv, PastInv, Gone
<1>7. w'.gen < generation' => \/ w'.at \in {"idle", "ended"}
                              \/ \E i \in 1..Len(calls') : calls'[i].fn = "close" /\ calls'[i].gen = w'.gen
  BY DEF StoryInv, PastInv
<1> QED
  BY <1>1, <1>3, <1>5, <1>6, <1>7 DEF StoryInv, PastInv, PresentInv

\* One call more.
LEMMA OneCallMore ==
    ASSUME IInv, NEW c, calls' = Append(calls, c)
    PROVE  /\ Len(calls) \in Nat /\ Len(calls') = Len(calls) + 1
           /\ \A i \in 1..Len(calls') : \/ i \in 1..Len(calls) /\ calls'[i] = calls[i]
                                        \/ i = Len(calls) + 1 /\ calls'[i] = c
           /\ \A i \in 1..Len(calls) : i \in 1..Len(calls') /\ calls'[i] = calls[i]
           /\ Len(calls) + 1 \in 1..Len(calls') /\ calls'[Len(calls) + 1] = c
<1>1. IsQueue(calls)
  BY DEF IInv, Shape
<1>2. /\ Len(calls) \in Nat /\ Len(calls') = Len(calls) + 1
      /\ \A i \in 1..Len(calls) : calls'[i] = calls[i]
      /\ calls'[Len(calls) + 1] = c
  BY <1>1, QueueAppend
<1> QED
  BY <1>2

\* A new open(): nothing is left of the last one that has not been aborted.
LEMMA OpenStoryInv ==
    ASSUME IInv, StoryInv, Open
    PROVE  StoryInv'
<1> DEFINE c == [fn |-> "open", gen |-> generation + 1, saved |-> store]
<1>1. /\ calls' = Append(calls, c) /\ generation' = generation + 1 /\ state = "Disconnected" /\ gui = "idle"
      /\ state' = "Connecting" /\ busy' /\ UNCHANGED <<abortGen, gui, w, reports>>
  BY DEF Open
<1>2. c.fn = "open" /\ c.gen = generation + 1
  OBVIOUS
<1> HIDE DEF c
<1>3. IsClosed /\ generation \in Nat /\ w.gen \in Nat /\ w.gen <= generation /\ abortGen \in Nat
  BY <1>1 DEF StoryInv, PresentInv, Phases, IsAsked, IsServed, IsRecalled, IsToldOf, IInv, Shape, CallsInv
<1>4. /\ Len(calls) \in Nat /\ Len(calls') = Len(calls) + 1
      /\ \A i \in 1..Len(calls') : \/ i \in 1..Len(calls) /\ calls'[i] = calls[i]
                                   \/ i = Len(calls) + 1 /\ calls'[i] = c
      /\ \A i \in 1..Len(calls) : i \in 1..Len(calls') /\ calls'[i] = calls[i]
      /\ Len(calls) + 1 \in 1..Len(calls') /\ calls'[Len(calls) + 1] = c
  BY <1>1, OneCallMore
<1>5. \A i \in 1..Len(calls) :
         /\ calls[i].gen \in Nat /\ (calls[i].fn = "reconnect" => calls[i].gen # 0)
         /\ calls[i].fn \in {"open", "reconnect"} => calls[i].gen < generation /\ calls[i].gen <= abortGen
         /\ calls[i].fn = "close" => calls[i].gen < generation
         /\ calls[i].fn # "quit"
  <2> TAKE i \in 1..Len(calls)
  <2>1. ~Calls(i, "open") /\ ~Calls(i, "reconnect")
    BY <1>3 DEF IsClosed, NotCalled
  <2> QED
    BY <1>1, <1>3, <2>1 DEF StoryInv, PastInv, Gone, Calls
<1>6. \A i \in 1..Len(calls') :
         /\ calls'[i].gen \in Nat /\ (calls'[i].fn = "reconnect" => calls'[i].gen # 0)
         /\ calls'[i].fn \in {"open", "reconnect"} =>
               calls'[i].gen <= generation' /\ (calls'[i].gen < generation' => calls'[i].gen <= abortGen')
         /\ calls'[i].fn = "close" => calls'[i].gen < generation'
         /\ calls'[i].fn = "quit" => gui' \in Gone
  BY <1>1, <1>2, <1>3, <1>4, <1>5
<1>7. w.at # "ended" /\ (abortGen < generation \/ abortGen = 0)
  BY <1>1 DEF StoryInv, PastInv, Gone, Handlers
<1>8. w'.gen < generation' => \/ w'.at \in {"idle", "ended"}
                              \/ \E i \in 1..Len(calls') : calls'[i].fn = "close" /\ calls'[i].gen = w'.gen
  <2>1. CASE w.gen = generation
    BY <1>1, <1>3, <2>1 DEF IsClosed
  <2>2. CASE w.gen < generation
    BY <1>1, <1>4, <2>2 DEF StoryInv, PastInv
  <2> QED
    BY <1>3, <2>1, <2>2
<1>9. PastInv'
  BY <1>1, <1>3, <1>6, <1>7, <1>8 DEF PastInv, Handlers
<1>10. NotCalled("reconnect")'
  BY <1>1, <1>2, <1>3, <1>4, <1>5 DEF NotCalled, Calls
<1>11. ~NotCalled("open")'
  BY <1>1, <1>2, <1>4 DEF NotCalled, Calls
<1>12. IsAsked'
  BY <1>1, <1>3, <1>10, <1>11 DEF IsAsked
<1> QED
  BY <1>1, <1>9, <1>12 DEF StoryInv, PresentInv, Phases

\* An abort ends: the worker has been told to close what it serves.
LEMMA EndAbortStoryInv ==
    ASSUME IInv, StoryInv, EndAbort
    PROVE  StoryInv'
<1> DEFINE c == [fn |-> "close", gen |-> generation]
           d == [fn |-> "quit", gen |-> 0]
<1>1. /\ w'.gen = w.gen /\ w'.at # "ended" /\ (w'.at = "idle" <=> w.at = "idle") /\ w.at # "ended"
      /\ generation' = generation + 1 /\ state' = "Disconnected" /\ ~busy' /\ abortGen' = generation /\ abortGen = generation
      /\ generation \in Nat /\ w.gen \in Nat /\ w.gen <= generation
      /\ gui \in Handlers /\ ((gui' = "idle" /\ reports' = reports) \/ gui' = "joining")
      /\ gui = "leaving" <=> gui' = "joining"
  BY DEF EndAbort, IInv, Shape, CallsInv, StoryInv, PastInv, Gone, Handlers
<1>2. calls' = Append(calls, c) \/ (gui' = "joining" /\ calls' = Append(Append(calls, c), d))
  <2>1. IsQueue(calls) /\ IsQueue(Append(calls, c))
    BY QueueAppend DEF IInv, Shape
  <2>2. calls \o <<c>> = Append(calls, c) /\ Append(calls, c) \o <<d>> = Append(Append(calls, c), d)
    BY <2>1, QueueAppend
  <2>3. Append(calls, c) \o <<>> = Append(calls, c)
    BY <2>1, ConcatEmptySeq DEF IsQueue
  <2> QED
    BY <1>1, <2>2, <2>3 DEF EndAbort
<1>3. c.fn = "close" /\ c.gen = generation /\ d.fn = "quit" /\ d.gen = 0
  OBVIOUS
<1> HIDE DEF c, d
<1>4. /\ Len(calls) \in Nat
      /\ \A i \in 1..Len(calls') : \/ i \in 1..Len(calls) /\ calls'[i] = calls[i]
                                   \/ calls'[i] = c
                                   \/ calls'[i] = d /\ gui' = "joining"
      /\ \A i \in 1..Len(calls) : i \in 1..Len(calls') /\ calls'[i] = calls[i]
      /\ Len(calls) + 1 \in 1..Len(calls') /\ calls'[Len(calls) + 1] = c
  <2>1. CASE calls' = Append(calls, c)
    BY <2>1, OneCallMore
  <2>2. CASE gui' = "joining" /\ calls' = Append(Append(calls, c), d)
    <3>1. /\ Len(calls) \in Nat /\ Len(Append(calls, c)) = Len(calls) + 1 /\ IsQueue(Append(calls, c))
          /\ \A i \in 1..Len(calls) : Append(calls, c)[i] = calls[i]
          /\ Append(calls, c)[Len(calls) + 1] = c
      BY QueueAppend DEF IInv, Shape
    <3> DEFINE m == Append(calls, c)
    <3> HIDE DEF m
    <3>2. /\ Len(calls') = Len(m) + 1
          /\ \A i \in 1..Len(m) : calls'[i] = m[i]
          /\ calls'[Len(m) + 1] = d
      BY <2>2, <3>1, QueueAppend DEF m
    <3>3. /\ Len(m) = Len(calls) + 1 /\ m[Len(calls) + 1] = c
          /\ \A i \in 1..Len(calls) : m[i] = calls[i]
      BY <3>1 DEF m
    <3> QED
      BY <2>2, <3>1, <3>2, <3>3
  <2> QED
    BY <1>2, <2>1, <2>2
<1>5. \A i \in 1..Len(calls) :
         /\ calls[i].gen \in Nat /\ (calls[i].fn = "reconnect" => calls[i].gen # 0)
         /\ calls[i].fn \in {"open", "reconnect"} => calls[i].gen <= generation
         /\ calls[i].fn = "close" => calls[i].gen < generation
         /\ calls[i].fn # "quit"
  BY <1>1 DEF StoryInv, PastInv, Gone, Handlers
<1>6. \A i \in 1..Len(calls') :
         /\ calls'[i].gen \in Nat /\ (calls'[i].fn = "reconnect" => calls'[i].gen # 0)
         /\ calls'[i].fn \in {"open", "reconnect"} =>
               calls'[i].gen <= generation' /\ (calls'[i].gen < generation' => calls'[i].gen <= abortGen')
         /\ calls'[i].fn = "close" => calls'[i].gen < generation'
         /\ calls'[i].fn = "quit" => gui' \in Gone
  BY <1>1, <1>3, <1>4, <1>5 DEF Gone
<1>7. w'.gen < generation' => \/ w'.at \in {"idle", "ended"}
                              \/ \E i \in 1..Len(calls') : calls'[i].fn = "close" /\ calls'[i].gen = w'.gen
  <2>1. CASE w.gen = generation
    BY <1>1, <1>3, <1>4, <2>1
  <2>2. CASE w.gen < generation
    BY <1>1, <1>4, <2>2 DEF StoryInv, PastInv
  <2> QED
    BY <1>1, <2>1, <2>2
<1>8. PastInv'
  BY <1>1, <1>6, <1>7 DEF PastInv, Handlers
<1>9. ASSUME gui' = "idle" PROVE IsClosed'
  <2>1. Silent'
    BY <1>1, <1>9 DEF Silent, Tells, IInv, ReportsInv
  <2>2. NotCalled("open")' /\ NotCalled("reconnect")'
    BY <1>1, <1>3, <1>4, <1>5 DEF NotCalled, Calls
  <2> QED
    BY <1>1, <2>1, <2>2 DEF IsClosed
<1> QED
  BY <1>1, <1>8, <1>9 DEF StoryInv, PresentInv, Phases

\* The owner's steps.
LEMMA UserStoryInv ==
    ASSUME IInv, StoryInv, User \/ Joined
    PROVE  StoryInv'
<1>1. CASE Open
  BY <1>1, OpenStoryInv
<1>2. CASE Close
  BY <1>2, BeginAbortStoryInv DEF Close, Handlers
<1>3. ASSUME TabKeeps, UNCHANGED reports, w'.gen = w.gen, w'.at = w.at \/ (w.at \in Connects /\ w'.at \in Connects)
      PROVE  StoryInv'
  <2>1. w.at \in Connects => w.at \notin {"idle", "ended"}
    BY DEF Connects, Blocking, Waiting
  <2>2. w'.at \in Connects => w'.at # "ended"
    BY DEF Connects, Blocking, Waiting
  <2> QED
    BY <1>3, <2>1, <2>2, TabKeepsPastInv, LastsPresentInv DEF StoryInv, PlainSays
<1>4. CASE SetAutoReconnect
  <2>1. CASE BeginAbort("givingUp") /\ state' = "Disconnected"
    BY <1>4, <2>1, BeginAbortStoryInv DEF SetAutoReconnect, Handlers
  <2>2. CASE UNCHANGED <<state, busy, gui, abortGen>>
    BY <1>3, <1>4, <2>2 DEF SetAutoReconnect, TabKeeps
  <2> QED
    BY <1>4, <2>1, <2>2 DEF SetAutoReconnect
<1>5. CASE Write
  BY <1>3, <1>5 DEF Write, ui, TabKeeps
<1>6. CASE AnswerDialog
  <2>1. PICK val, remember, cancel : GiveAnswer(val, remember, cancel)
    BY <1>6 DEF AnswerDialog
  <2>2. w'.gen = w.gen /\ (w'.at = w.at \/ (w.at = "asleep" /\ w'.at = "asking"))
    BY <2>1 DEF GiveAnswer, IInv, Shape
  <2> QED
    BY <1>3, <2>1, <2>2 DEF GiveAnswer, TabKeeps, Connects, Waiting
<1>7. CASE Destroy
  <2>1. CASE BeginAbort("leaving") /\ UNCHANGED <<dialog, calls, reports>>
    BY <1>7, <2>1, BeginAbortStoryInv DEF Destroy, Handlers
  <2>2. CASE /\ gui' = "joining" /\ dialog' = 0 /\ reports' = <<>>
             /\ calls' = Append(calls, [fn |-> "quit", gen |-> 0])
             /\ UNCHANGED <<busy, abortGen>>
    <3> DEFINE d == [fn |-> "quit", gen |-> 0]
    <3>1. d.fn = "quit" /\ d.gen = 0
      OBVIOUS
    <3> HIDE DEF d
    <3>2. calls' = Append(calls, d) /\ gui' = "joining" /\ gui = "idle" /\ UNCHANGED <<generation, w, state, busy, abortGen>>
      BY <1>7, <2>2 DEF Destroy, d
    <3>3. /\ \A i \in 1..Len(calls') : \/ i \in 1..Len(calls) /\ calls'[i] = calls[i]
                                       \/ calls'[i] = d
          /\ \A i \in 1..Len(calls) : i \in 1..Len(calls') /\ calls'[i] = calls[i]
      BY <3>2, OneCallMore
    <3>4. \A i \in 1..Len(calls') :
             /\ calls'[i].gen \in Nat /\ (calls'[i].fn = "reconnect" => calls'[i].gen # 0)
             /\ calls'[i].fn \in {"open", "reconnect"} =>
                   calls'[i].gen <= generation' /\ (calls'[i].gen < generation' => calls'[i].gen <= abortGen')
             /\ calls'[i].fn = "close" => calls'[i].gen < generation'
             /\ calls'[i].fn = "quit" => gui' \in Gone
      BY <3>1, <3>2, <3>3 DEF StoryInv, PastInv, Gone
    <3>5. w'.gen < generation' => \/ w'.at \in {"idle", "ended"}
                                  \/ \E i \in 1..Len(calls') : calls'[i].fn = "close" /\ calls'[i].gen = w'.gen
      BY <3>2, <3>3 DEF StoryInv, PastInv
    <3>6. PastInv'
      BY <3>2, <3>4, <3>5 DEF StoryInv, PastInv, Gone, Handlers
    <3> QED
      BY <3>2, <3>6 DEF StoryInv, PresentInv
  <2> QED
    BY <1>7, <2>1, <2>2 DEF Destroy
<1>8. CASE Joined
  BY <1>8 DEF Joined, StoryInv, PastInv, PresentInv, Gone, Handlers
<1> QED
  BY <1>1, <1>2, <1>4, <1>5, <1>6, <1>7, <1>8 DEF User

-----------------------------------------------------------------------------
(* What the tab hears.                                                     *)

LEMMA ReportsMoveUp ==
    ASSUME IInv, reports # <<>>, reports' = Tail(reports), UNCHANGED generation
    PROVE  /\ Len(reports) \in Nat \ {0} /\ Head(reports) = reports[1] /\ 1 \in 1..Len(reports)
           /\ \A i \in 1..Len(reports') : /\ i \in Int /\ i + 1 \in 2..Len(reports) /\ reports'[i] = reports[i + 1]
                                          /\ Tells(i)' <=> Tells(i + 1)
           /\ \A i \in 2..Len(reports) : /\ i \in Int /\ i - 1 \in 1..Len(reports') /\ reports'[i - 1] = reports[i]
                                         /\ Tells(i - 1)' <=> Tells(i)
           /\ \A i \in 1..Len(reports) : i = 1 \/ i \in 2..Len(reports)
<1>1. /\ Len(reports) \in Nat \ {0} /\ Head(reports) = reports[1] /\ Len(reports') = Len(reports) - 1
      /\ \A i \in 1..Len(reports') : i + 1 \in 1..Len(reports) /\ reports'[i] = reports[i + 1]
  BY QueueTail DEF IInv, Shape
<1>2. \A i \in 1..Len(reports') : /\ i \in Int /\ i + 1 \in 2..Len(reports) /\ reports'[i] = reports[i + 1]
                                  /\ Tells(i)' <=> Tells(i + 1)
  BY <1>1 DEF Tells
<1>3. \A i \in 2..Len(reports) : i \in Int /\ i - 1 \in 1..Len(reports') /\ (i - 1) + 1 = i
  BY <1>1
<1>4. \A i \in 2..Len(reports) : /\ i \in Int /\ i - 1 \in 1..Len(reports') /\ reports'[i - 1] = reports[i]
                                 /\ Tells(i - 1)' <=> Tells(i)
  BY <1>2, <1>3
<1> QED
  BY <1>1, <1>2, <1>4

\* A report of an earlier open(), or of something else, leaves the phase.
LEMMA IdleHeardPhases ==
    ASSUME IInv, Phases, reports # <<>>, reports' = Tail(reports), ~Tells(1), UNCHANGED <<state, generation, calls, w>>
    PROVE  Phases'
<1>1. /\ \A i \in 1..Len(reports') : /\ i \in Int /\ i + 1 \in 2..Len(reports) /\ reports'[i] = reports[i + 1]
                                     /\ Tells(i)' <=> Tells(i + 1)
      /\ \A i \in 2..Len(reports) : /\ i \in Int /\ i - 1 \in 1..Len(reports') /\ reports'[i - 1] = reports[i]
                                    /\ Tells(i - 1)' <=> Tells(i)
      /\ \A i \in 1..Len(reports) : i = 1 \/ i \in 2..Len(reports)
      /\ Len(reports) \in Nat
  BY ReportsMoveUp
<1>2. Silent => Silent'
  BY <1>1 DEF Silent
<1>3. \A fn : NotCalled(fn)' <=> NotCalled(fn)
  BY DEF NotCalled, Calls
<1>4. (IsClosed => IsClosed') /\ (IsAsked => IsAsked') /\ (IsServed => IsServed')
  BY <1>2, <1>3 DEF IsClosed, IsAsked, IsServed
<1>5. IsRecalled => IsRecalled'
  BY <1>2 DEF IsRecalled, Calls
<1>6. ASSUME IsToldOf PROVE IsToldOf'
  <2>1. PICK i \in 1..Len(reports) :
             /\ Tells(i) /\ w.at = IF reports[i].what = "connected" THEN "live" ELSE "idle"
             /\ \A j \in 1..Len(reports) : Tells(j) /\ j # i => j < i /\ reports[j].what = "connected"
    BY <1>6 DEF IsToldOf
  <2>2. i \in 2..Len(reports) /\ i - 1 \in 1..Len(reports') /\ Tells(i - 1)' /\ reports'[i - 1] = reports[i] /\ i \in Int
    BY <1>1, <2>1
  <2>3. ASSUME NEW j \in 1..Len(reports'), Tells(j)', j # i - 1
        PROVE  j < i - 1 /\ reports'[j].what = "connected"
    <3>1. j \in Int /\ j + 1 \in 1..Len(reports) /\ reports'[j] = reports[j + 1] /\ Tells(j + 1) /\ j + 1 # i
      BY <1>1, <2>2, <2>3
    <3>2. j + 1 < i /\ reports[j + 1].what = "connected"
      BY <2>1, <3>1
    <3> QED
      BY <2>2, <3>1, <3>2
  <2> QED
    BY <1>3, <1>6, <2>1, <2>2, <2>3 DEF IsToldOf
<1> QED
  BY <1>4, <1>5, <1>6 DEF Phases

\* What a report of the present open() tells: the worker serves it, and who hears
\* of an end hears nothing after it.
LEMMA Heard ==
    ASSUME IInv, StoryInv, gui = "idle", reports # <<>>, reports' = Tail(reports), Tells(1), UNCHANGED generation
    PROVE  /\ IsToldOf /\ busy
           /\ reports[1].what = "connected" =>
                 \/ w.at = "live" /\ Silent'
                 \/ \E i \in 1..Len(reports') :
                       /\ Tells(i)' /\ w.at = IF reports'[i].what = "connected" THEN "live" ELSE "idle"
                       /\ \A j \in 1..Len(reports') : Tells(j)' /\ j # i => j < i /\ reports'[j].what = "connected"
           /\ reports[1].what # "connected" => w.at = "idle" /\ Silent'
<1>1. /\ \A i \in 1..Len(reports') : /\ i \in Int /\ i + 1 \in 2..Len(reports) /\ reports'[i] = reports[i + 1]
                                     /\ Tells(i)' <=> Tells(i + 1)
      /\ \A i \in 2..Len(reports) : /\ i \in Int /\ i - 1 \in 1..Len(reports') /\ reports'[i - 1] = reports[i]
                                    /\ Tells(i - 1)' <=> Tells(i)
      /\ \A i \in 1..Len(reports) : i = 1 \/ i \in 2..Len(reports)
      /\ Len(reports) \in Nat \ {0} /\ 1 \in 1..Len(reports)
  BY ReportsMoveUp
<1>2. ~Silent /\ w.gen = generation
  BY <1>1 DEF Silent, Tells, IInv, Shape, ReportsInv, CallsInv
<1>3. IsToldOf /\ busy
  <2>1. Phases /\ (busy <=> state # "Disconnected")
    BY DEF StoryInv, PresentInv
  <2>2. ~IsClosed /\ ~IsServed /\ ~IsRecalled
    BY <1>2 DEF IsClosed, IsServed, IsRecalled
  <2>3. ~IsAsked
    BY <1>2 DEF IsAsked, IInv, Shape
  <2>4. IsToldOf /\ state # "Disconnected"
    BY <2>1, <2>2, <2>3 DEF Phases, IsToldOf
  <2> QED
    BY <2>1, <2>4
<1>4. PICK i \in 1..Len(reports) :
           /\ Tells(i) /\ w.at = IF reports[i].what = "connected" THEN "live" ELSE "idle"
           /\ \A j \in 1..Len(reports) : Tells(j) /\ j # i => j < i /\ reports[j].what = "connected"
  BY <1>3 DEF IsToldOf
<1>5. CASE i = 1
  <2>1. \A j \in 2..Len(reports) : ~Tells(j)
    BY <1>1, <1>4, <1>5
  <2>2. Silent'
    BY <1>1, <2>1 DEF Silent
  <2> QED
    BY <1>3, <1>4, <1>5, <2>2
<1>6. CASE i # 1
  <2>1. reports[1].what = "connected"
    BY <1>1, <1>4, <1>6
  <2>2. i \in 2..Len(reports) /\ i - 1 \in 1..Len(reports') /\ Tells(i - 1)' /\ reports'[i - 1] = reports[i] /\ i \in Int
    BY <1>1, <1>4, <1>6
  <2>3. ASSUME NEW j \in 1..Len(reports'), Tells(j)', j # i - 1
        PROVE  j < i - 1 /\ reports'[j].what = "connected"
    <3>1. j \in Int /\ j + 1 \in 1..Len(reports) /\ reports'[j] = reports[j + 1] /\ Tells(j + 1) /\ j + 1 # i
      BY <1>1, <2>2, <2>3
    <3>2. j + 1 < i /\ reports[j + 1].what = "connected"
      BY <1>4, <3>1
    <3> QED
      BY <2>2, <3>1, <3>2
  <2> QED
    BY <1>3, <1>4, <2>1, <2>2, <2>3
<1> QED
  BY <1>5, <1>6

LEMMA ReportStoryInv ==
    ASSUME IInv, StoryInv, OnReport
    PROVE  StoryInv'
<1>1. reports # <<>> /\ reports' = Tail(reports) /\ gui = "idle" /\ UNCHANGED <<w, generation>>
  BY DEF OnReport, OnConnected, OnDisconnected, OnLinkDropped, OnQuestion, OnStoreSecret, OnSecretRejected, Relay, ui
<1>2. Head(reports) = reports[1] /\ 1 \in 1..Len(reports)
  BY <1>1, TakenByHead
<1>3. Phases /\ (busy <=> state # "Disconnected") /\ (state # "Disconnected" => generation # 0)
  BY <1>1 DEF StoryInv, PresentInv, PastInv
<1>4. ASSUME UNCHANGED <<state, busy, gui, abortGen, calls>>, ~Tells(1)
      PROVE  StoryInv'
  BY <1>1, <1>3, <1>4, IdleHeardPhases, TabKeepsPastInv DEF StoryInv, PresentInv, TabKeeps
<1>5. CASE reports[1].gen # generation
  BY <1>2, <1>4, <1>5 DEF OnReport, OnConnected, OnDisconnected, OnLinkDropped, OnQuestion, OnStoreSecret, OnSecretRejected, Relay, ui, Tells
<1>6. CASE reports[1].gen = generation /\ (OnQuestion \/ OnStoreSecret \/ OnSecretRejected)
  BY <1>2, <1>4, <1>6 DEF OnQuestion, OnStoreSecret, OnSecretRejected, Relay, Tells, Telling, ui
<1>7. ASSUME state' \in {"Connected", "Disconnected"}, UNCHANGED <<gui, abortGen, calls>>, generation # 0
      PROVE  PastInv' /\ \A fn : NotCalled(fn)' <=> NotCalled(fn)
  <2>1. PastInv /\ UNCHANGED <<gui, abortGen, calls, w, generation>> /\ gui = "idle"
    BY <1>1, <1>7 DEF StoryInv
  <2> QED
    BY <1>7, <2>1 DEF PastInv, NotCalled, Calls, Handlers
<1>8. CASE reports[1].gen = generation /\ OnConnected
  <2>1. Tells(1) /\ reports[1].what = "connected"
    BY <1>2, <1>8 DEF OnConnected, Relay, Tells, Telling
  <2>2. state' = "Connected" /\ UNCHANGED <<gui, abortGen, calls, busy>>
    BY <1>2, <1>8 DEF OnConnected, Relay
  <2>3. IsToldOf /\ busy
    BY <1>1, <2>1, Heard
  <2>4. PastInv' /\ NotCalled("reconnect")' /\ generation # 0 /\ w.gen = generation
    BY <1>3, <1>7, <2>2, <2>3 DEF IsToldOf
  <2>5. IsServed' \/ IsToldOf'
    <3>1. CASE w.at = "live" /\ Silent'
      BY <1>1, <2>2, <2>4, <3>1 DEF IsServed
    <3>2. CASE \E i \in 1..Len(reports') :
                  /\ Tells(i)' /\ w.at = IF reports'[i].what = "connected" THEN "live" ELSE "idle"
                  /\ \A j \in 1..Len(reports') : Tells(j)' /\ j # i => j < i /\ reports'[j].what = "connected"
      BY <1>1, <2>2, <2>4, <3>2 DEF IsToldOf
    <3> QED
      BY <1>1, <2>1, <3>1, <3>2, Heard
  <2> QED
    BY <2>2, <2>3, <2>4, <2>5 DEF StoryInv, PresentInv, Phases
<1>9. CASE reports[1].gen = generation /\ OnDisconnected
  <2>1. Tells(1) /\ reports[1].what # "connected"
    BY <1>2, <1>9 DEF OnDisconnected, Relay, Tells, Telling
  <2>2. state' = "Disconnected" /\ ~busy' /\ UNCHANGED <<gui, abortGen, calls>>
    BY <1>2, <1>9 DEF OnDisconnected, Relay
  <2>3. IsToldOf /\ w.at = "idle" /\ Silent'
    BY <1>1, <2>1, Heard
  <2>4. PastInv' /\ NotCalled("reconnect")' /\ w.gen = generation
    BY <1>3, <1>7, <2>2, <2>3 DEF IsToldOf, StoryInv
  <2>5. NotCalled("open")'
    <3>1. NotCalled("open")
      BY <2>4 DEF NotCalled, Calls, IInv, CallsInv, Shape
    <3> QED
      BY <1>1, <2>2, <3>1 DEF NotCalled, Calls
  <2>6. IsClosed'
    BY <1>1, <2>2, <2>3, <2>4, <2>5 DEF IsClosed
  <2> QED
    BY <2>2, <2>4, <2>6 DEF StoryInv, PresentInv, Phases
<1>10. CASE reports[1].gen = generation /\ OnLinkDropped
  <2>1. Tells(1) /\ reports[1].what # "connected"
    BY <1>2, <1>10 DEF OnLinkDropped, Relay, Tells, Telling
  <2>2. IsToldOf /\ w.at = "idle" /\ Silent' /\ busy
    BY <1>1, <2>1, Heard
  <2>3. w.gen = generation /\ NotCalled("reconnect") /\ generation # 0 /\ generation \in Nat
    BY <1>3, <2>2 DEF IsToldOf, IInv, Shape
  <2>4. CASE ~auto
    BY <1>1, <1>2, <1>10, <2>4, BeginAbortStoryInv DEF OnLinkDropped, Relay, Handlers
  <2>5. CASE auto
    <3> DEFINE c == [fn |-> "reconnect", gen |-> generation]
    <3>1. c.fn = "reconnect" /\ c.gen = generation
      OBVIOUS
    <3>2. calls' = Append(calls, c) /\ state' = "Reconnecting" /\ UNCHANGED <<gui, abortGen, busy>>
      BY <1>2, <1>10, <2>5 DEF OnLinkDropped, Relay
    <3> HIDE DEF c
    <3>3. /\ \A i \in 1..Len(calls') : \/ i \in 1..Len(calls) /\ calls'[i] = calls[i]
                                       \/ i = Len(calls) + 1 /\ calls'[i] = c
          /\ Len(calls) + 1 \in 1..Len(calls') /\ calls'[Len(calls) + 1] = c
          /\ \A i \in 1..Len(calls) : i \in 1..Len(calls') /\ calls'[i] = calls[i]
      BY <3>2, OneCallMore
    <3>4. \A i \in 1..Len(calls') :
             /\ calls'[i].gen \in Nat /\ (calls'[i].fn = "reconnect" => calls'[i].gen # 0)
             /\ calls'[i].fn \in {"open", "reconnect"} =>
                   calls'[i].gen <= generation' /\ (calls'[i].gen < generation' => calls'[i].gen <= abortGen')
             /\ calls'[i].fn = "close" => calls'[i].gen < generation'
             /\ calls'[i].fn = "quit" => gui' \in Gone
      BY <1>1, <2>3, <3>1, <3>2, <3>3 DEF StoryInv, PastInv
    <3>5. PastInv'
      <4>1. abortGen < generation \/ abortGen = 0
        BY <1>1 DEF StoryInv, PastInv, Handlers
      <4> QED
        BY <1>1, <2>2, <2>3, <3>2, <3>4, <4>1 DEF PastInv, Handlers
    <3>6. PICK n : n = Len(calls) + 1
      OBVIOUS
    <3>7. n \in 1..Len(calls') /\ Calls(n, "reconnect")' /\ \A j \in 1..Len(calls') : Calls(j, "reconnect")' => j = n
      BY <1>1, <2>3, <3>1, <3>3, <3>6 DEF Calls, NotCalled
    <3>8. IsRecalled'
      BY <1>1, <2>2, <2>3, <3>2, <3>7 DEF IsRecalled
    <3> QED
      BY <2>2, <3>2, <3>5, <3>8 DEF StoryInv, PresentInv, Phases
  <2> QED
    BY <2>4, <2>5
<1> QED
  BY <1>5, <1>6, <1>8, <1>9, <1>10 DEF OnReport

LEMMA NextStoryInv ==
    ASSUME IInv, StoryInv, [Next]_vars
    PROVE  StoryInv'
<1>1. CASE UNCHANGED vars
  BY <1>1, TabKeepsPastInv, LastsPresentInv DEF vars, ui, StoryInv, TabKeeps, PlainSays
<1> QED
  BY <1>1, UserStoryInv, EndAbortStoryInv, ReportStoryInv, WorkerStoryInv DEF Next

\* What belongs to one open() stays there, and with nothing queued the tab shows
\* what its worker does: it waits for nobody, and no session or timer is left
\* behind a tab that says Disconnected (SshConnection, SshWorker).
THEOREM GenerationsStayApart == Spec => []GenerationsApart
<1>1. Spec => [](IInv /\ StoryInv)
  BY InitIInv, NextIInv, InitStoryInv, NextStoryInv, PTL DEF Spec
<1>2. IInv /\ StoryInv => GenerationsApart
  <2> SUFFICES ASSUME IInv, StoryInv PROVE GenerationsApart
    OBVIOUS
  <2>1. QuietAgrees
    BY StoryIsQuiet
  <2> QED
    BY <2>1 DEF GenerationsApart, IInv, DialogInv, BytesInv, BytesStayInTheirOpen
<1> QED
  BY <1>1, <1>2, PTL
=============================================================================
