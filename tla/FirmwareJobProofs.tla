--------------------------- MODULE FirmwareJobProofs ---------------------------
(***************************************************************************)
(* What TLAPS proves about the firmware job, for any operations in any     *)
(* order: whatever works does so for the running operation and under its   *)
(* lock, an operation that ends leaves nothing behind, and a success is    *)
(* that of the operation's own parts. And about the tab's plan beside it   *)
(* (BoardPlan): it is made from the image and the layout in view.          *)
(*                                                                         *)
(* The handlers are operators on the state of the GUI thread, so each has  *)
(* a lemma of its own: what it needs of the state it is given, and what    *)
(* the state it returns is then.                                           *)
(***************************************************************************)
EXTENDS MCFirmwareJob, SequenceTheorems, TLAPS

-----------------------------------------------------------------------------
(* The types.                                                              *)

CallNames == {"open", "close", "stat", "command", "transfer", "cancelTransfer"}
CallsOfGui == [name : CallNames, gen : Nat, run : 0..MaxOperations]
Results == [op : Operations \cup {"none"}, ok : BOOLEAN, why : Reasons, asked : BOOLEAN,
            made : SUBSET Steps]

GuiFields ==
    {"begun", "op", "step", "cancelRequested", "keepSsh", "pullPhase", "pullerActive",
     "flasherActive", "flashCancellable", "fleetActive", "linkActive", "updaterActive",
     "mcuResultPending", "mcuOk", "mcuWhy", "cli", "asking", "holds", "ssh", "generation",
     "abortGeneration", "transfer", "calls", "puller", "pullCancelled", "flasher", "fleet",
     "link", "timers", "made", "last"}

IsGui(g) ==
    /\ DOMAIN g = GuiFields
    /\ g.begun \in 0..MaxOperations
    /\ g.op \in Operations \cup {"none"} /\ g.step \in Steps \cup {"none"}
    /\ g.cancelRequested \in BOOLEAN /\ g.keepSsh \in BOOLEAN
    /\ g.pullPhase \in {"Idle", "Connecting", "Pulling"} /\ g.pullerActive \in BOOLEAN
    /\ g.flasherActive \in BOOLEAN /\ g.flashCancellable \in BOOLEAN
    /\ g.fleetActive \in BOOLEAN /\ g.linkActive \in BOOLEAN /\ g.updaterActive \in BOOLEAN
    /\ g.mcuResultPending \in BOOLEAN /\ g.mcuOk \in BOOLEAN /\ g.mcuWhy \in Reasons
    /\ g.cli \in {"none", "stop", "version", "help"}
    /\ g.asking \in BOOLEAN /\ g.holds \in BOOLEAN
    /\ g.ssh \in {"Disconnected", "Connecting", "Connected"}
    /\ g.generation \in Nat /\ g.abortGeneration \in 0..g.generation
    /\ g.transfer \in BOOLEAN /\ g.calls \in Seq(CallsOfGui)
    /\ g.puller \in {"Idle", "Stat", "Git", "Download"} /\ g.pullCancelled \in BOOLEAN
    /\ g.flasher \in FlashPhases \cup {"Idle", "Refused"}
    /\ g.fleet \in {"Idle", "Refused", "Running", "Draining"}
    /\ g.link \in {"Closed", "Opening", "Open", "Closing", "Queued"}
    /\ g.timers \in SUBSET Timers /\ g.made \in SUBSET Steps /\ g.last \in Results

-----------------------------------------------------------------------------
(* The invariant of the job.                                               *)

\* What runs belongs to the step, and the step to the operation.
StepFits(g) ==
    /\ g.op = "none" => g.step = "none"
    /\ g.op \notin {"none", "pull-flash"} => g.step = g.op
    /\ g.op = "pull-flash" => g.step \in {"pull", "flash", "mcu"}

\* A Pull & Flash at its later steps has done the earlier ones.
ChainMade(g) ==
    g.op = "pull-flash" =>
        /\ g.step \in {"flash", "mcu"} => "pull" \in g.made
        /\ g.step = "mcu" => "flash" \in g.made

ResultIsTrue(g) == g.last.ok => Needed(g.last) \subseteq g.last.made

FrameFits(g) ==
    /\ g.op = "none" <=> ~g.holds
    /\ g.op # "none" => g.begun # 0
    /\ g.op = "none" => ~g.cancelRequested
    /\ g.keepSsh => g.op = "pull-flash"
    /\ StepFits(g) /\ ChainMade(g) /\ ResultIsTrue(g)

\* The puller runs in the pull, on a connection.
PullFits(g) ==
    /\ g.pullerActive <=> g.puller # "Idle"
    /\ g.pullerActive <=> g.pullPhase = "Pulling"
    /\ g.pullerActive => g.ssh = "Connected" /\ g.step = "pull"
    /\ g.step = "pull" => g.pullPhase # "Idle"
    /\ g.pullPhase = "Connecting" <=> g.ssh = "Connecting"
    /\ g.ssh = "Connecting" => g.step = "pull"
    /\ g.ssh # "Disconnected" => g.op \in {"pull", "pull-flash"}
    /\ g.pullCancelled => g.puller \in {"Idle", "Download"}

FlashFits(g) ==
    /\ g.flasher \in FlashPhases => g.flasherActive
    /\ g.flasherActive => g.step = "flash"
    /\ g.flashCancellable => g.flasher # "Flashing"
    /\ g.fleetActive <=> g.fleet # "Idle"
    /\ g.fleetActive => g.step = "fleet-flash" /\ ~g.asking

\* The MCU is read by adb, asked about, or updated over a link; its result waits
\* for the link that closes.
McuFits(g) ==
    /\ g.cli # "none" => g.op \in {"info", "pull-flash"} /\ g.step \in {"info", "mcu"}
                         /\ ~g.asking /\ ~g.linkActive
    /\ g.asking => g.step \in {"mcu", "set-role", "fleet-flash"} /\ ~g.linkActive
    /\ g.linkActive => g.step \in {"mcu", "set-role"}
    /\ g.updaterActive => /\ g.linkActive /\ ~g.mcuResultPending
                          /\ g.link \notin {"Opening", "Queued"}
    /\ g.mcuResultPending => g.linkActive /\ g.link = "Closing"
    /\ g.mcuResultPending /\ g.mcuOk => g.step \in g.made
    /\ g.link \in {"Opening", "Open", "Queued"} => g.linkActive /\ ~g.mcuResultPending

\* What a Cancel leaves of the step that it was taken in.
CancelFits(g) ==
    g.cancelRequested =>
        /\ g.step = "pull" => g.puller = "Download" /\ g.pullCancelled
        /\ g.step = "flash" => g.flasher \notin FlashPhases
        /\ g.linkActive => g.mcuResultPending

JobFits(g) == FrameFits(g) /\ PullFits(g) /\ FlashFits(g) /\ McuFits(g)

JobInv(g) == JobFits(g) /\ CancelFits(g)

-----------------------------------------------------------------------------
(* The invariant of the two queues: calls to the worker, and its answers.  *)

\* The connection of the GUI thread, or one that is closed behind a call.
Owned(g, gen, from) ==
    IF gen = g.generation THEN g.ssh # "Disconnected"
    ELSE \E i \in DOMAIN g.calls :
             from < i /\ g.calls[i].name = "close" /\ g.calls[i].gen = gen

\* The calls are in the order of their connections, an open() being the first of its
\* own; what it opens is wanted, or closed behind it.
CallsFit(g, w) ==
    /\ \A i \in DOMAIN g.calls : w.gen <= g.calls[i].gen /\ g.calls[i].gen <= g.generation
    /\ \A i, j \in DOMAIN g.calls : i < j => g.calls[i].gen <= g.calls[j].gen
    /\ \A j \in DOMAIN g.calls : g.calls[j].name = "open" =>
           /\ w.gen < g.calls[j].gen
           /\ \A i \in DOMAIN g.calls : i < j => g.calls[i].gen < g.calls[j].gen
           /\ Owned(g, g.calls[j].gen, j)

\* A report that the session has ended is true of the session it is about, whose
\* first report is that it is there.
AnswersFit(w, a) ==
    /\ \A i \in DOMAIN a :
           /\ a[i].gen <= w.gen
           /\ a[i].kind \in {"disconnected", "dropped"} /\ a[i].gen = w.gen => ~w.live
    /\ \A i, j \in DOMAIN a : i < j /\ a[j].kind = "connected" => a[i].gen < a[j].gen

ConnectsFit(g, a) ==
    \A i \in DOMAIN a :
        a[i].kind = "connected" /\ a[i].gen = g.generation => g.ssh # "Disconnected"

\* A transfer of the open connection is that of the running operation.
TransfersFit(g, w, a) ==
    g.ssh # "Disconnected" =>
        /\ \A i \in DOMAIN g.calls :
               g.calls[i].name = "transfer" /\ g.calls[i].gen = g.generation
                   => g.calls[i].run = g.begun
        /\ \A i \in DOMAIN a :
               a[i].kind = "transfer" /\ a[i].gen = g.generation => a[i].run = g.begun
        /\ w.transfer # 0 /\ w.gen = g.generation => w.transfer = g.begun

QueueInv(g, w, a) ==
    /\ w.gen <= g.generation
    /\ CallsFit(g, w) /\ AnswersFit(w, a) /\ ConnectsFit(g, a) /\ TransfersFit(g, w, a)
    /\ w.live => Owned(g, w.gen, 0)

Kinds == {"connected", "disconnected", "dropped", "stat", "command", "transfer"}
Workers == [gen : Nat, live : BOOLEAN, transfer : 0..MaxOperations]
Answers == [gen : Nat, kind : Kinds, ok : BOOLEAN, run : 0..MaxOperations]

\* A handler leaves the queues fit for whatever the worker is at.
Keeps(g, h) ==
    \A w \in Workers, a \in Seq(Answers) : QueueInv(g, w, a) => QueueInv(h, w, a)

-----------------------------------------------------------------------------
(* What a handler may do.                                                  *)

\* The operation has ended, and not in success.
Ended(g) == g.op = "none" /\ ~g.last.ok

\* A Cancel that was taken holds the operation in its step, or ends it.
Obeys(g, h) ==
    g.cancelRequested /\ g.op # "fleet-flash" /\ ~g.mcuResultPending
        => h.step = g.step \/ Ended(h)

Onward(g, h) == IsGui(h) /\ h.begun = g.begun /\ Keeps(g, h)

-----------------------------------------------------------------------------
(* The queues.                                                             *)

\* A queue with one more at its end.
LEMMA AppendFacts ==
    ASSUME NEW S, NEW s \in Seq(S), NEW x \in S
    PROVE  /\ Append(s, x) \in Seq(S)
           /\ Len(s) \in Nat
           /\ DOMAIN s = 1..Len(s) /\ DOMAIN Append(s, x) = 1..(Len(s) + 1)
           /\ \A i \in 1..Len(s) : Append(s, x)[i] = s[i]
           /\ Append(s, x)[Len(s) + 1] = x
  OBVIOUS

\* What is in the queues is typed.
LEMMA ElementsTyped ==
    ASSUME NEW S, NEW s \in Seq(S)
    PROVE  \A i \in DOMAIN s : s[i] \in S
  OBVIOUS

LEMMA CallGens ==
    ASSUME NEW g, IsGui(g)
    PROVE  \A i \in DOMAIN g.calls : /\ g.calls[i] \in CallsOfGui /\ g.calls[i].gen \in Nat
                                     /\ g.calls[i].run \in 0..MaxOperations
<1>1. \A i \in DOMAIN g.calls : g.calls[i] \in CallsOfGui
  BY ElementsTyped DEF IsGui
<1> QED
  BY <1>1 DEF CallsOfGui

LEMMA AnswerGens ==
    ASSUME NEW a \in Seq(Answers)
    PROVE  \A i \in DOMAIN a : a[i] \in Answers /\ a[i].gen \in Nat
<1>1. \A i \in DOMAIN a : a[i] \in Answers
  BY ElementsTyped
<1> QED
  BY <1>1 DEF Answers

\* What the queues are fit for depends on the connection and the calls alone.
LEMMA KeepsSame ==
    ASSUME NEW g, NEW h, h.begun = g.begun, h.ssh = g.ssh, h.generation = g.generation, h.calls = g.calls
    PROVE  Keeps(g, h)
  BY DEF Keeps, QueueInv, CallsFit, AnswersFit, ConnectsFit, TransfersFit, Owned

LEMMA KeepsOnward ==
    ASSUME NEW g, NEW h, NEW k, Onward(g, h), Onward(h, k)
    PROVE  Onward(g, k)
  BY DEF Onward, Keeps

\* A call to the worker other than to open or to close.
LEMMA KeepsCall ==
    ASSUME NEW g, IsGui(g), NEW h, NEW name \in CallNames \ {"open"},
           h.calls = Append(g.calls, [name |-> name, gen |-> g.generation, run |-> g.begun]),
           h.begun = g.begun, h.ssh = g.ssh, h.generation = g.generation
    PROVE  Keeps(g, h)
<1> DEFINE c == [name |-> name, gen |-> g.generation, run |-> g.begun]
           n == Len(g.calls)
<1>1. c \in CallsOfGui
  BY DEF IsGui, CallsOfGui
<1>2. /\ n \in Nat /\ DOMAIN g.calls = 1..n /\ DOMAIN h.calls = 1..(n + 1)
      /\ \A i \in 1..n : h.calls[i] = g.calls[i]
      /\ h.calls[n + 1] = c
  BY <1>1, AppendFacts DEF IsGui
<1>3. c.name # "open" /\ c.gen = g.generation /\ c.run = g.begun
  OBVIOUS
<1> HIDE DEF c, n
<1> SUFFICES ASSUME NEW w \in Workers, NEW a \in Seq(Answers), QueueInv(g, w, a)
             PROVE  QueueInv(h, w, a)
  BY DEF Keeps
<1>4. \A i \in 1..n : g.calls[i].gen \in Nat
  BY <1>2, CallGens
<1>5. \A gen, from : Owned(g, gen, from) => Owned(h, gen, from)
  BY <1>2 DEF Owned
<1>6. CallsFit(h, w)
  BY <1>2, <1>3, <1>4, <1>5 DEF QueueInv, CallsFit, Workers, IsGui
<1>7. TransfersFit(h, w, a)
  BY <1>2, <1>3 DEF QueueInv, TransfersFit
<1> QED
  BY <1>5, <1>6, <1>7 DEF QueueInv, ConnectsFit

\* The worker is told to give up; the connection is given up with it, or next.
LEMMA KeepsAbort ==
    ASSUME NEW g, IsGui(g), NEW h,
           h.calls = Append(g.calls, [name |-> "close", gen |-> g.generation, run |-> g.begun]),
           h.begun = g.begun, h.ssh \in {g.ssh, "Disconnected"}, h.generation = g.generation + 1
    PROVE  Keeps(g, h)
<1> DEFINE c == [name |-> "close", gen |-> g.generation, run |-> g.begun]
           n == Len(g.calls)
<1>1. c \in CallsOfGui
  BY DEF IsGui, CallsOfGui, CallNames
<1>2. /\ n \in Nat /\ DOMAIN g.calls = 1..n /\ DOMAIN h.calls = 1..(n + 1)
      /\ \A i \in 1..n : h.calls[i] = g.calls[i]
      /\ h.calls[n + 1] = c
  BY <1>1, AppendFacts DEF IsGui
<1>3. c.name = "close" /\ c.gen = g.generation /\ g.generation \in Nat
  BY DEF IsGui
<1> HIDE DEF c, n
<1> SUFFICES ASSUME NEW w \in Workers, NEW a \in Seq(Answers), QueueInv(g, w, a)
             PROVE  QueueInv(h, w, a)
  BY DEF Keeps
<1>4. \A i \in 1..n : g.calls[i].gen \in Nat
  BY <1>2, CallGens
<1>5. ASSUME NEW gen \in 0..g.generation, NEW from \in 0..n, Owned(g, gen, from)
      PROVE  Owned(h, gen, from)
  <2>1. gen # h.generation
    BY <1>3
  <2>2. CASE gen = g.generation
    <3>1. /\ n + 1 \in DOMAIN h.calls /\ from < n + 1
          /\ h.calls[n + 1].name = "close" /\ h.calls[n + 1].gen = gen
      BY <1>2, <1>3, <2>2
    <3> QED
      BY <2>1, <3>1 DEF Owned
  <2>3. CASE gen # g.generation
    BY <1>2, <1>5, <2>1, <2>3 DEF Owned
  <2> QED
    BY <2>2, <2>3
<1>7. w.gen <= g.generation /\ w.gen <= h.generation /\ w.gen \in Nat
  BY <1>3 DEF QueueInv, Workers
<1>6. CallsFit(h, w)
  <2>1. \A i \in 1..n : w.gen <= g.calls[i].gen /\ g.calls[i].gen <= g.generation
    BY <1>2 DEF QueueInv, CallsFit
  <2>2. \A i \in DOMAIN h.calls : w.gen <= h.calls[i].gen /\ h.calls[i].gen <= h.generation
    BY <2>1, <1>2, <1>3, <1>4, <1>7
  <2>3. \A i, j \in DOMAIN h.calls : i < j => h.calls[i].gen <= h.calls[j].gen
    BY <2>1, <1>2, <1>3, <1>4 DEF QueueInv, CallsFit
  <2>4. ASSUME NEW j \in DOMAIN h.calls, h.calls[j].name = "open"
        PROVE  /\ w.gen < h.calls[j].gen
               /\ \A i \in DOMAIN h.calls : i < j => h.calls[i].gen < h.calls[j].gen
               /\ Owned(h, h.calls[j].gen, j)
    <3>1. j \in 1..n /\ h.calls[j] = g.calls[j]
      BY <2>4, <1>2, <1>3
    <3>2. g.calls[j].gen \in 0..g.generation /\ j \in 0..n
      BY <3>1, <2>1, <1>3, <1>4
    <3>3. /\ w.gen < g.calls[j].gen
          /\ \A i \in 1..n : i < j => g.calls[i].gen < g.calls[j].gen
          /\ Owned(g, g.calls[j].gen, j)
      BY <2>4, <3>1, <1>2 DEF QueueInv, CallsFit
    <3> QED
      BY <3>1, <3>2, <3>3, <1>2, <1>5
  <2> QED
    BY <2>2, <2>3, <2>4 DEF CallsFit
<1>8. TransfersFit(h, w, a) /\ ConnectsFit(h, a)
  <2>1. \A i \in DOMAIN a : a[i].gen <= w.gen /\ a[i].gen \in Nat
    BY AnswerGens DEF QueueInv, AnswersFit
  <2>2. TransfersFit(h, w, a)
    BY <2>1, <1>2, <1>3, <1>4, <1>7 DEF QueueInv, TransfersFit, CallsFit
  <2> QED
    BY <2>1, <2>2, <1>3, <1>7 DEF QueueInv, ConnectsFit
<1>9. w.live => Owned(h, w.gen, 0)
  <2>1. w.gen \in 0..g.generation /\ 0 \in 0..n
    BY <1>2, <1>3, <1>7 DEF QueueInv
  <2> QED
    BY <2>1, <1>5 DEF QueueInv
<1>10. AnswersFit(w, a)
  BY DEF QueueInv
<1> QED
  BY <1>6, <1>7, <1>8, <1>9, <1>10 DEF QueueInv

\* A connection is opened where there was none.
LEMMA KeepsOpen ==
    ASSUME NEW g, IsGui(g), NEW h, g.ssh = "Disconnected",
           h.calls = Append(g.calls, [name |-> "open", gen |-> g.generation + 1, run |-> g.begun]),
           h.begun = g.begun, h.ssh = "Connecting", h.generation = g.generation + 1
    PROVE  Keeps(g, h)
<1> DEFINE c == [name |-> "open", gen |-> g.generation + 1, run |-> g.begun]
           n == Len(g.calls)
<1>1. c \in CallsOfGui
  BY DEF IsGui, CallsOfGui, CallNames
<1>2. /\ n \in Nat /\ DOMAIN g.calls = 1..n /\ DOMAIN h.calls = 1..(n + 1)
      /\ \A i \in 1..n : h.calls[i] = g.calls[i]
      /\ h.calls[n + 1] = c
  BY <1>1, AppendFacts DEF IsGui
<1>3. c.name = "open" /\ c.gen = g.generation + 1 /\ g.generation \in Nat
  BY DEF IsGui
<1> HIDE DEF c, n
<1> SUFFICES ASSUME NEW w \in Workers, NEW a \in Seq(Answers), QueueInv(g, w, a)
             PROVE  QueueInv(h, w, a)
  BY DEF Keeps
<1>4. \A i \in 1..n : g.calls[i].gen \in Nat
  BY <1>2, CallGens
<1>5. \A gen, from : Owned(g, gen, from) => Owned(h, gen, from)
  BY <1>2 DEF Owned
<1>6. w.gen <= g.generation /\ w.gen < h.generation /\ w.gen \in Nat
  BY <1>3 DEF QueueInv, Workers
<1>7. CallsFit(h, w)
  <2>1. Owned(h, c.gen, n + 1)
    BY <1>3 DEF Owned
  <2>2. \A i \in 1..n : w.gen <= g.calls[i].gen /\ g.calls[i].gen <= g.generation
    BY <1>2 DEF QueueInv, CallsFit
  <2>3. \A i \in DOMAIN h.calls : w.gen <= h.calls[i].gen /\ h.calls[i].gen <= h.generation
    BY <2>2, <1>2, <1>3, <1>4, <1>6
  <2>4. \A i, j \in DOMAIN h.calls : i < j => h.calls[i].gen <= h.calls[j].gen
    BY <2>2, <1>2, <1>3, <1>4 DEF QueueInv, CallsFit
  <2>5. ASSUME NEW j \in DOMAIN h.calls, h.calls[j].name = "open"
        PROVE  /\ w.gen < h.calls[j].gen
               /\ \A i \in DOMAIN h.calls : i < j => h.calls[i].gen < h.calls[j].gen
               /\ Owned(h, h.calls[j].gen, j)
    <3>1. CASE j \in 1..n
      BY <3>1, <2>5, <1>2, <1>5 DEF QueueInv, CallsFit
    <3>2. CASE j = n + 1
      BY <3>2, <2>1, <2>2, <1>2, <1>3, <1>4, <1>6
    <3> QED
      BY <3>1, <3>2, <1>2
  <2> QED
    BY <2>3, <2>4, <2>5 DEF CallsFit
<1>8. TransfersFit(h, w, a) /\ ConnectsFit(h, a)
  <2>1. \A i \in DOMAIN a : a[i].gen <= w.gen /\ a[i].gen \in Nat
    BY AnswerGens DEF QueueInv, AnswersFit
  <2>2. \A i \in 1..n : g.calls[i].gen <= g.generation
    BY <1>2 DEF QueueInv, CallsFit
  <2> QED
    BY <2>1, <2>2, <1>2, <1>3, <1>4, <1>6 DEF TransfersFit, ConnectsFit
<1>9. w.live => Owned(h, w.gen, 0)
  BY <1>5 DEF QueueInv
<1>10. AnswersFit(w, a) /\ w.gen <= h.generation
  BY <1>3, <1>6 DEF QueueInv
<1> QED
  BY <1>7, <1>8, <1>9, <1>10 DEF QueueInv

-----------------------------------------------------------------------------
(* The connection to the build machine.                                    *)

\* A handler that leaves the connection and the calls alone.
LEMMA Stays ==
    ASSUME NEW g, NEW h, IsGui(h), h.begun = g.begun, h.ssh = g.ssh,
           h.generation = g.generation, h.calls = g.calls
    PROVE  Onward(g, h)
  BY KeepsSame DEF Onward

LEMMA CallGoes ==
    ASSUME NEW g, IsGui(g), NEW name \in CallNames \ {"open"}
    PROVE  Onward(g, Call(g, name))
<1> DEFINE c == [name |-> name, gen |-> g.generation, run |-> g.begun]
           q == Append(g.calls, c)
<1>1. q \in Seq(CallsOfGui)
  BY DEF IsGui, CallsOfGui
<1>2. Call(g, name) = [g EXCEPT !.calls = q]
  BY DEF Call
<1>3. /\ Call(g, name).calls = q
      /\ Call(g, name).begun = g.begun /\ Call(g, name).ssh = g.ssh
      /\ Call(g, name).generation = g.generation
  BY <1>2 DEF IsGui, GuiFields
<1>4. Keeps(g, Call(g, name))
  BY <1>3, KeepsCall
<1> HIDE DEF q
<1>5. IsGui(Call(g, name))
  BY <1>1, <1>2 DEF IsGui, GuiFields
<1> QED
  BY <1>3, <1>4, <1>5 DEF Onward

LEMMA AbortGoes ==
    ASSUME NEW g, IsGui(g)
    PROVE  Onward(g, AbortWorker(g)) /\ AbortWorker(g).ssh = g.ssh
<1>1. "close" \in CallNames \ {"open"}
  BY DEF CallNames
<1>2. IsGui(Call(g, "close"))
  BY <1>1, CallGoes DEF Onward
<1>3. /\ Call(g, "close").generation = g.generation
      /\ Call(g, "close").begun = g.begun /\ Call(g, "close").ssh = g.ssh
      /\ Call(g, "close").calls = Append(g.calls, [name |-> "close", gen |-> g.generation, run |-> g.begun])
  BY DEF Call, IsGui, GuiFields
<1> DEFINE k == Call(g, "close")
<1>4. AbortWorker(g) = [k EXCEPT !.abortGeneration = g.generation, !.generation = @ + 1]
  BY DEF AbortWorker
<1> HIDE DEF k
<1>5. IsGui(AbortWorker(g))
  BY <1>2, <1>3, <1>4 DEF IsGui, GuiFields, k
<1>6. /\ AbortWorker(g).generation = g.generation + 1
      /\ AbortWorker(g).begun = g.begun /\ AbortWorker(g).ssh = g.ssh
      /\ AbortWorker(g).calls = Append(g.calls, [name |-> "close", gen |-> g.generation, run |-> g.begun])
  BY <1>2, <1>3, <1>4 DEF IsGui, GuiFields, k
<1> QED
  BY <1>5, <1>6, KeepsAbort DEF Onward

\* The fields that the connection does not share with the job.
JobSame(g, h) ==
    /\ h.begun = g.begun /\ h.op = g.op /\ h.step = g.step
    /\ h.cancelRequested = g.cancelRequested /\ h.keepSsh = g.keepSsh
    /\ h.pullerActive = g.pullerActive /\ h.pullCancelled = g.pullCancelled
    /\ h.flasherActive = g.flasherActive /\ h.flashCancellable = g.flashCancellable
    /\ h.fleetActive = g.fleetActive /\ h.linkActive = g.linkActive
    /\ h.updaterActive = g.updaterActive /\ h.mcuResultPending = g.mcuResultPending
    /\ h.mcuOk = g.mcuOk /\ h.mcuWhy = g.mcuWhy /\ h.cli = g.cli /\ h.asking = g.asking
    /\ h.holds = g.holds /\ h.flasher = g.flasher /\ h.fleet = g.fleet /\ h.link = g.link
    /\ h.timers = g.timers /\ h.made = g.made /\ h.last = g.last

LEMMA CallSame ==
    ASSUME NEW g, IsGui(g), NEW name
    PROVE  /\ JobSame(g, Call(g, name)) /\ Call(g, name).pullPhase = g.pullPhase
           /\ Call(g, name).puller = g.puller /\ Call(g, name).ssh = g.ssh
  BY DEF Call, IsGui, GuiFields, JobSame

\* A job that is the same fits as before.
LEMMA SameFits ==
    ASSUME NEW g, NEW h, JobSame(g, h), h.pullPhase = g.pullPhase, h.puller = g.puller, h.ssh = g.ssh
    PROVE  /\ JobFits(g) => JobFits(h)
           /\ CancelFits(g) => CancelFits(h)
           /\ FrameFits(g) => FrameFits(h)
  BY DEF JobSame, JobFits, CancelFits, FrameFits, StepFits, ChainMade, ResultIsTrue, PullFits, FlashFits, McuFits

LEMMA AbortSame ==
    ASSUME NEW g, IsGui(g)
    PROVE  /\ JobSame(g, AbortWorker(g)) /\ AbortWorker(g).pullPhase = g.pullPhase
           /\ AbortWorker(g).puller = g.puller /\ AbortWorker(g).transfer = g.transfer
  BY DEF AbortWorker, Call, IsGui, GuiFields, JobSame

LEMMA HangUpGoes ==
    ASSUME NEW g, IsGui(g)
    PROVE  /\ Onward(g, HangUp(g)) /\ JobSame(g, HangUp(g))
           /\ HangUp(g).ssh = "Disconnected" /\ HangUp(g).puller = "Idle"
           /\ HangUp(g).pullPhase = g.pullPhase
<1> DEFINE k == AbortWorker(g)
<1>1. /\ IsGui(k) /\ JobSame(g, k) /\ k.pullPhase = g.pullPhase
  BY AbortGoes, AbortSame DEF Onward
<1>2. /\ k.generation = g.generation + 1
      /\ k.calls = Append(g.calls, [name |-> "close", gen |-> g.generation, run |-> g.begun])
  BY DEF AbortWorker, Call, IsGui, GuiFields
<1>3. HangUp(g) = [k EXCEPT !.ssh = "Disconnected", !.transfer = FALSE, !.puller = "Idle"]
  BY DEF HangUp
<1> HIDE DEF k
<1>4. IsGui(HangUp(g))
  BY <1>1, <1>3 DEF IsGui, GuiFields
<1>5. /\ JobSame(g, HangUp(g)) /\ HangUp(g).ssh = "Disconnected" /\ HangUp(g).puller = "Idle"
      /\ HangUp(g).pullPhase = g.pullPhase
      /\ HangUp(g).generation = k.generation /\ HangUp(g).calls = k.calls
  BY <1>1, <1>3 DEF IsGui, GuiFields, JobSame
<1>6. Keeps(g, HangUp(g))
  BY <1>2, <1>5, KeepsAbort DEF JobSame
<1> QED
  BY <1>4, <1>5, <1>6 DEF Onward, JobSame

\* closeSsh(), while no connection is waited for
LEMMA CloseSshGoes ==
    ASSUME NEW g, IsGui(g), g.pullPhase # "Connecting"
    PROVE  /\ Onward(g, CloseSsh(g)) /\ JobSame(g, CloseSsh(g))
           /\ CloseSsh(g).ssh = "Disconnected" /\ CloseSsh(g).pullPhase = g.pullPhase
           /\ g.ssh = "Disconnected" => CloseSsh(g).puller = g.puller
           /\ g.ssh # "Disconnected" => CloseSsh(g).puller = "Idle"
<1>1. CASE g.ssh = "Disconnected"
  BY <1>1, Stays DEF CloseSsh, JobSame
<1>2. CASE g.ssh # "Disconnected"
  <2> DEFINE k == [g EXCEPT !.pullPhase = IF @ = "Connecting" THEN "Idle" ELSE @]
  <2>1. /\ IsGui(k) /\ JobSame(g, k) /\ k.pullPhase = g.pullPhase
        /\ k.ssh = g.ssh /\ k.generation = g.generation /\ k.calls = g.calls
    BY DEF IsGui, GuiFields, JobSame
  <2>2. CloseSsh(g) = HangUp(k)
    BY <1>2 DEF CloseSsh
  <2> HIDE DEF k
  <2>3. Onward(g, k)
    BY <2>1, Stays DEF JobSame
  <2>4. /\ Onward(k, HangUp(k)) /\ JobSame(k, HangUp(k))
        /\ HangUp(k).ssh = "Disconnected" /\ HangUp(k).puller = "Idle"
        /\ HangUp(k).pullPhase = k.pullPhase
    BY <2>1, HangUpGoes
  <2>5. JobSame(g, HangUp(k))
    BY <2>1, <2>4 DEF JobSame
  <2> QED
    BY <1>2, <2>1, <2>2, <2>3, <2>4, <2>5, KeepsOnward
<1> QED
  BY <1>1, <1>2

LEMMA OpenSshGoes ==
    ASSUME NEW g, IsGui(g), g.ssh = "Disconnected"
    PROVE  /\ Onward(g, OpenSsh(g)) /\ JobSame(g, OpenSsh(g))
           /\ OpenSsh(g).ssh = "Connecting" /\ OpenSsh(g).pullPhase = g.pullPhase
           /\ OpenSsh(g).puller = g.puller
<1> DEFINE s == [g EXCEPT !.ssh = "Connecting", !.generation = @ + 1, !.transfer = FALSE]
           c == [name |-> "open", gen |-> g.generation + 1, run |-> g.begun]
           q == Append(g.calls, c)
<1>1. IsGui(s) /\ s.generation = g.generation + 1 /\ s.begun = g.begun /\ s.calls = g.calls
  BY DEF IsGui, GuiFields
<1>2. q \in Seq(CallsOfGui)
  BY DEF IsGui, CallsOfGui, CallNames
<1>3. OpenSsh(g) = [s EXCEPT !.calls = q]
  BY <1>1 DEF OpenSsh, Call
<1>4. JobSame(g, s) /\ s.ssh = "Connecting" /\ s.pullPhase = g.pullPhase /\ s.puller = g.puller
  BY DEF IsGui, GuiFields, JobSame
<1> HIDE DEF s, q
<1>5. IsGui(OpenSsh(g))
  BY <1>1, <1>2, <1>3 DEF IsGui, GuiFields
<1>6. /\ JobSame(g, OpenSsh(g)) /\ OpenSsh(g).ssh = "Connecting"
      /\ OpenSsh(g).pullPhase = g.pullPhase /\ OpenSsh(g).puller = g.puller
      /\ OpenSsh(g).generation = g.generation + 1 /\ OpenSsh(g).calls = q
  BY <1>1, <1>3, <1>4 DEF IsGui, GuiFields, JobSame
<1>7. Keeps(g, OpenSsh(g))
  BY <1>6, KeepsOpen DEF JobSame, q
<1> QED
  BY <1>5, <1>6, <1>7 DEF Onward, JobSame

-----------------------------------------------------------------------------
(* The frame of the operations.                                            *)

ToolsIdle(g) ==
    /\ ~g.flasherActive /\ g.flasher \notin FlashPhases
    /\ ~g.fleetActive /\ g.fleet = "Idle"
    /\ g.cli = "none" /\ ~g.asking
    /\ ~g.linkActive /\ ~g.updaterActive /\ ~g.mcuResultPending
    /\ g.link \in {"Closed", "Closing"}

\* An operation between two of its steps: nothing runs but, in a Pull & Flash, the
\* connection to the build machine.
Between(g) ==
    /\ g.op # "none" /\ g.step # "none" /\ FrameFits(g) /\ ToolsIdle(g)
    /\ g.pullPhase = "Idle" /\ ~g.pullerActive
    /\ g.puller # "Idle" => g.ssh # "Disconnected"
    /\ g.ssh # "Disconnected" => g.op = "pull-flash" /\ g.ssh = "Connected"

\* What is worked for has been done by the operation that ends.
Complete(g, why) == Needed([op |-> g.op, why |-> why]) \subseteq g.made

LEMMA EndGoes ==
    ASSUME NEW g, IsGui(g), ToolsIdle(g), g.pullPhase = "Idle", ~g.pullerActive,
           g.puller = "Idle", g.ssh = "Disconnected", ~g.keepSsh,
           NEW ok \in BOOLEAN, NEW why \in Reasons, ok => Complete(g, why)
    PROVE  /\ Onward(g, EndOperation(g, ok, why)) /\ JobInv(EndOperation(g, ok, why))
           /\ EndOperation(g, ok, why).op = "none" /\ EndOperation(g, ok, why).last.ok = ok
<1> DEFINE h == EndOperation(g, ok, why)
<1>1. IsGui(h)
  BY DEF EndOperation, IsGui, GuiFields, Results
<1>2. /\ h.op = "none" /\ h.step = "none" /\ ~h.holds /\ ~h.cancelRequested
      /\ h.last.ok = ok /\ h.last.op = g.op /\ h.last.why = why /\ h.last.made = g.made
      /\ h.pullPhase = "Idle" /\ ~h.pullerActive /\ h.puller = "Idle" /\ h.ssh = "Disconnected"
      /\ ~h.keepSsh /\ h.begun = g.begun /\ h.generation = g.generation /\ h.calls = g.calls
  BY DEF EndOperation, IsGui, GuiFields
<1>3. ToolsIdle(h)
  BY DEF EndOperation, IsGui, GuiFields, ToolsIdle
<1> HIDE DEF h
<1>4. ResultIsTrue(h)
  BY <1>2 DEF ResultIsTrue, Complete, Needed
<1>5. JobInv(h)
  BY <1>2, <1>3, <1>4 DEF JobInv, JobFits, FrameFits, StepFits, ChainMade, PullFits, FlashFits, McuFits,
     CancelFits, ToolsIdle, FlashPhases
<1>6. Onward(g, h)
  BY <1>1, <1>2, Stays
<1> QED
  BY <1>2, <1>5, <1>6 DEF h

LEMMA StepFailedGoes ==
    ASSUME NEW g, IsGui(g), Between(g), NEW why \in Reasons
    PROVE  Onward(g, StepFailed(g, why)) /\ JobInv(StepFailed(g, why)) /\ Ended(StepFailed(g, why))
<1>1. CASE g.op = "pull-flash"
  <2> DEFINE s == [g EXCEPT !.step = "none", !.keepSsh = FALSE]
             c == CloseSsh(s)
  <2>1. /\ IsGui(s) /\ s.pullPhase = "Idle" /\ ~s.pullerActive /\ ~s.keepSsh
        /\ s.ssh = g.ssh /\ s.puller = g.puller /\ ToolsIdle(s)
        /\ s.begun = g.begun /\ s.generation = g.generation /\ s.calls = g.calls
    BY DEF IsGui, GuiFields, Between, ToolsIdle
  <2>2. StepFailed(g, why) = EndOperation(c, FALSE, why)
    BY <1>1 DEF StepFailed
  <2>3. g.ssh = "Disconnected" => g.puller = "Idle"
    BY DEF Between
  <2> HIDE DEF s
  <2>4. Onward(g, s)
    BY <2>1, Stays
  <2>5. /\ Onward(s, c) /\ JobSame(s, c) /\ c.ssh = "Disconnected" /\ c.pullPhase = "Idle"
        /\ c.puller = "Idle"
    BY <2>1, <2>3, CloseSshGoes
  <2> HIDE DEF c
  <2>6. IsGui(c) /\ ToolsIdle(c) /\ ~c.pullerActive /\ ~c.keepSsh
    BY <2>1, <2>5 DEF JobSame, ToolsIdle, Onward
  <2>7. /\ Onward(c, EndOperation(c, FALSE, why)) /\ JobInv(EndOperation(c, FALSE, why))
        /\ Ended(EndOperation(c, FALSE, why))
    BY <2>5, <2>6, EndGoes DEF Ended
  <2> QED
    BY <2>2, <2>4, <2>5, <2>7, KeepsOnward
<1>2. CASE g.op # "pull-flash"
  <2>1. StepFailed(g, why) = EndOperation(g, FALSE, why)
    BY <1>2 DEF StepFailed, Between
  <2>2. /\ ToolsIdle(g) /\ g.pullPhase = "Idle" /\ ~g.pullerActive
        /\ g.ssh = "Disconnected" /\ g.puller = "Idle" /\ ~g.keepSsh
    BY <1>2 DEF Between, FrameFits
  <2> QED
    BY <2>1, <2>2, EndGoes DEF Ended
<1> QED
  BY <1>1, <1>2

LEMMA EndChainGoes ==
    ASSUME NEW g, IsGui(g), Between(g), NEW why \in Reasons, Complete(g, why)
    PROVE  Onward(g, EndChain(g, why)) /\ JobInv(EndChain(g, why)) /\ EndChain(g, why).op = "none"
<1> DEFINE s == [g EXCEPT !.keepSsh = FALSE]
           c == CloseSsh(s)
<1>1. /\ IsGui(s) /\ s.pullPhase = "Idle" /\ ~s.pullerActive /\ ~s.keepSsh
      /\ s.ssh = g.ssh /\ s.puller = g.puller /\ ToolsIdle(s) /\ s.op = g.op /\ s.made = g.made
      /\ s.begun = g.begun /\ s.generation = g.generation /\ s.calls = g.calls
  BY DEF IsGui, GuiFields, Between, ToolsIdle
<1>2. EndChain(g, why) = EndOperation(c, TRUE, why)
  BY DEF EndChain
<1>3. g.ssh = "Disconnected" => g.puller = "Idle"
  BY DEF Between
<1> HIDE DEF s
<1>4. Onward(g, s)
  BY <1>1, Stays
<1>5. /\ Onward(s, c) /\ JobSame(s, c) /\ c.ssh = "Disconnected" /\ c.pullPhase = "Idle"
      /\ c.puller = "Idle"
  BY <1>1, <1>3, CloseSshGoes
<1> HIDE DEF c
<1>6. IsGui(c) /\ ToolsIdle(c) /\ ~c.pullerActive /\ ~c.keepSsh
  BY <1>1, <1>5 DEF JobSame, ToolsIdle, Onward
<1>7. Complete(c, why)
  BY <1>1, <1>5 DEF Complete, JobSame
<1>8. /\ Onward(c, EndOperation(c, TRUE, why)) /\ JobInv(EndOperation(c, TRUE, why))
      /\ EndOperation(c, TRUE, why).op = "none"
  BY <1>5, <1>6, <1>7, EndGoes
<1> QED
  BY <1>2, <1>4, <1>5, <1>8, KeepsOnward

\* A single shot that is set says nothing about what runs.
LEMMA SetTimerTyped ==
    ASSUME NEW g, IsGui(g), g.begun # 0,
           NEW kind \in {"pullCancel", "dropped", "flashStart", "flashCancel", "linkClose"}
    PROVE  Onward(g, SetTimer(g, kind))
<1> DEFINE t == [kind |-> kind, op |-> g.begun]
           ts == g.timers \cup {t}
<1>1. t \in Timers
  BY DEF Timers, IsGui
<1>2. ts \in SUBSET Timers
  BY <1>1 DEF IsGui
<1>3. SetTimer(g, kind) = [g EXCEPT !.timers = ts]
  BY DEF SetTimer
<1> HIDE DEF ts
<1>4. IsGui(SetTimer(g, kind))
  BY <1>2, <1>3 DEF IsGui, GuiFields
<1>5. /\ SetTimer(g, kind).begun = g.begun /\ SetTimer(g, kind).ssh = g.ssh
      /\ SetTimer(g, kind).generation = g.generation /\ SetTimer(g, kind).calls = g.calls
  BY <1>3 DEF IsGui, GuiFields
<1> QED
  BY <1>4, <1>5, Stays

LEMMA SetTimerGoes ==
    ASSUME NEW g, IsGui(g), JobInv(g), g.begun # 0,
           NEW kind \in {"pullCancel", "dropped", "flashStart", "flashCancel", "linkClose"}
    PROVE  /\ Onward(g, SetTimer(g, kind)) /\ JobInv(SetTimer(g, kind))
           /\ SetTimer(g, kind).op = g.op /\ SetTimer(g, kind).step = g.step
           /\ SetTimer(g, kind).last = g.last
<1>1. JobInv(SetTimer(g, kind))
  BY DEF SetTimer, IsGui, GuiFields, JobInv, JobFits, FrameFits, StepFits, ChainMade, ResultIsTrue,
     PullFits, FlashFits, McuFits, CancelFits
<1>2. /\ SetTimer(g, kind).op = g.op /\ SetTimer(g, kind).step = g.step
      /\ SetTimer(g, kind).last = g.last
  BY DEF SetTimer, IsGui, GuiFields
<1> QED
  BY <1>1, <1>2, SetTimerTyped

\* startFlash(), the step of the flash having begun
LEMMA StartFlashGoes ==
    ASSUME NEW g, IsGui(g), NEW way, Between([g EXCEPT !.step = "flash"]), g.puller = "Idle",
           ~g.cancelRequested
    PROVE  Onward(g, StartFlash(g, way)) /\ JobInv(StartFlash(g, way))
<1> DEFINE s == [g EXCEPT !.step = "flash"]
           f == [s EXCEPT !.flasherActive = TRUE, !.flasher = "Refused", !.flashCancellable = TRUE]
           d == [s EXCEPT !.flasherActive = TRUE, !.flashCancellable = TRUE, !.flasher = "Detecting"]
<1>1. /\ IsGui(s) /\ s.step = "flash" /\ ~s.cancelRequested /\ s.puller = "Idle"
      /\ s.begun = g.begun /\ s.ssh = g.ssh /\ s.generation = g.generation /\ s.calls = g.calls
  BY DEF IsGui, GuiFields, Steps
<1>2. Between(s)
  OBVIOUS
<1>3. StartFlash(g, way) = CASE way = "refused" -> StepFailed(s, "failed")
                             [] way = "late" -> SetTimer(f, "flashStart")
                             [] OTHER -> d
  BY DEF StartFlash
<1> HIDE DEF s
<1>4. Onward(g, s)
  BY <1>1, Stays
<1>5. CASE way = "refused"
  <2>1. "failed" \in Reasons
    BY DEF Reasons
  <2> QED
    BY <1>1, <1>2, <1>3, <1>4, <1>5, <2>1, StepFailedGoes, KeepsOnward
<1>6. IsGui(f) /\ IsGui(d)
  BY <1>1 DEF IsGui, GuiFields, FlashPhases
<1>7. Onward(s, f) /\ Onward(s, d)
  <2>1. /\ f.begun = s.begun /\ f.ssh = s.ssh /\ f.generation = s.generation /\ f.calls = s.calls
        /\ d.begun = s.begun /\ d.ssh = s.ssh /\ d.generation = s.generation /\ d.calls = s.calls
    BY <1>1 DEF IsGui, GuiFields
  <2> QED
    BY <1>6, <2>1, Stays
<1>8. JobInv(f)
  BY <1>1, <1>2 DEF IsGui, GuiFields, Between, ToolsIdle, JobInv, JobFits, FrameFits, StepFits, ChainMade,
     ResultIsTrue, PullFits, FlashFits, McuFits, CancelFits, FlashPhases
<1>9. JobInv(d)
  BY <1>1, <1>2 DEF IsGui, GuiFields, Between, ToolsIdle, JobInv, JobFits, FrameFits, StepFits, ChainMade,
     ResultIsTrue, PullFits, FlashFits, McuFits, CancelFits, FlashPhases
<1>10. f.begun # 0
  BY <1>1, <1>2 DEF Between, FrameFits, IsGui, GuiFields
<1>11. CASE way = "late"
  <2>1. Onward(f, SetTimer(f, "flashStart")) /\ JobInv(SetTimer(f, "flashStart"))
    BY <1>6, <1>8, <1>10, SetTimerGoes
  <2> QED
    BY <1>3, <1>4, <1>7, <1>11, <2>1, KeepsOnward
<1>12. CASE way \notin {"refused", "late"}
  BY <1>3, <1>4, <1>7, <1>9, <1>12, KeepsOnward
<1> QED
  BY <1>5, <1>11, <1>12

-----------------------------------------------------------------------------
LEMMA StartMcuReadGoes ==
    ASSUME NEW g, IsGui(g), Between(g), g.puller = "Idle",
           g.op \in {"info", "pull-flash"}, g.step \in {"info", "mcu"}
    PROVE  Onward(g, StartMcuRead(g)) /\ JobInv(StartMcuRead(g))
<1> DEFINE h == StartMcuRead(g)
<1>1. IsGui(h)
  BY DEF StartMcuRead, IsGui, GuiFields
<1>2. /\ h.begun = g.begun /\ h.ssh = g.ssh /\ h.generation = g.generation /\ h.calls = g.calls
  BY DEF StartMcuRead, IsGui, GuiFields
<1>3. JobInv(h)
  BY DEF StartMcuRead, IsGui, GuiFields, Between, ToolsIdle, JobInv, JobFits, FrameFits, StepFits, ChainMade,
     ResultIsTrue, PullFits, FlashFits, McuFits, CancelFits, FlashPhases
<1> HIDE DEF h
<1>4. Onward(g, h)
  BY <1>1, <1>2, Stays
<1> QED
  BY <1>3, <1>4 DEF h

LEMMA StartChainMcuGoes ==
    ASSUME NEW g, IsGui(g), Between(g), g.puller = "Idle", NEW way,
           g.op = "pull-flash", {"pull", "flash"} \subseteq g.made
    PROVE  Onward(g, StartChainMcu(g, way)) /\ JobInv(StartChainMcu(g, way))
<1>1. CASE way = "refused"
  <2>1. "no package" \in Reasons /\ Complete(g, "no package")
    BY DEF Reasons, Complete, Needed
  <2> QED
    BY <1>1, <2>1, EndChainGoes DEF StartChainMcu
<1>2. CASE way # "refused"
  <2> DEFINE s == [g EXCEPT !.step = "mcu"]
  <2>1. IsGui(s)
    BY DEF IsGui, GuiFields, Steps
  <2>2. Between(s) /\ s.puller = "Idle" /\ s.op = "pull-flash" /\ s.step = "mcu"
    BY DEF IsGui, GuiFields, Between, ToolsIdle, FrameFits, StepFits, ChainMade, ResultIsTrue
  <2>3. s.begun = g.begun /\ s.ssh = g.ssh /\ s.generation = g.generation /\ s.calls = g.calls
    BY DEF IsGui, GuiFields
  <2>4. StartChainMcu(g, way) = StartMcuRead(s)
    BY <1>2 DEF StartChainMcu
  <2> HIDE DEF s
  <2>5. Onward(g, s)
    BY <2>1, <2>3, Stays
  <2> QED
    BY <2>1, <2>2, <2>4, <2>5, StartMcuReadGoes, KeepsOnward
<1> QED
  BY <1>1, <1>2

\* stepFinished() of a step that has done its part, or has failed
LEMMA StepFinishedGoes ==
    ASSUME NEW g, IsGui(g), Between(g), NEW stage, NEW ok \in BOOLEAN, NEW why \in Reasons, NEW way,
           ok => /\ g.puller = "Idle" /\ stage = g.step /\ stage \in g.made
                 /\ stage = "pull" => ~g.cancelRequested
    PROVE  /\ Onward(g, StepFinished(g, stage, ok, why, way))
           /\ JobInv(StepFinished(g, stage, ok, why, way))
           /\ ~ok => Ended(StepFinished(g, stage, ok, why, way))
<1>1. CASE ~ok
  <2>1. StepFinished(g, stage, ok, why, way) = StepFailed(g, why)
    BY <1>1 DEF StepFinished, Between
  <2> QED
    BY <2>1, StepFailedGoes
<1>2. CASE ok /\ g.op # "pull-flash"
  <2>1. StepFinished(g, stage, ok, why, way) = EndOperation(g, TRUE, why)
    BY <1>2 DEF StepFinished, Between
  <2>2. Complete(g, why)
    BY <1>2 DEF Complete, Needed, Between, FrameFits, StepFits
  <2>3. /\ ToolsIdle(g) /\ g.pullPhase = "Idle" /\ ~g.pullerActive
        /\ g.ssh = "Disconnected" /\ g.puller = "Idle" /\ ~g.keepSsh
    BY <1>2 DEF Between, FrameFits
  <2> QED
    BY <1>2, <2>1, <2>2, <2>3, EndGoes
<1>3. CASE ok /\ g.op = "pull-flash" /\ stage = "pull"
  <2>1. StepFinished(g, stage, ok, why, way) = StartFlash(g, way)
    BY <1>3 DEF StepFinished
  <2>2. Between([g EXCEPT !.step = "flash"])
    BY <1>3 DEF IsGui, GuiFields, Between, ToolsIdle, FrameFits, StepFits, ChainMade, ResultIsTrue
  <2> QED
    BY <1>3, <2>1, <2>2, StartFlashGoes
<1>4. CASE ok /\ g.op = "pull-flash" /\ stage = "flash"
  <2>1. StepFinished(g, stage, ok, why, way) = StartChainMcu(g, way)
    BY <1>4 DEF StepFinished
  <2>2. {"pull", "flash"} \subseteq g.made
    BY <1>4 DEF Between, FrameFits, ChainMade
  <2> QED
    BY <1>4, <2>1, <2>2, StartChainMcuGoes
<1>5. CASE ok /\ g.op = "pull-flash" /\ stage \notin {"pull", "flash"}
  <2>1. StepFinished(g, stage, ok, why, way) = EndChain(g, why)
    BY <1>5 DEF StepFinished
  <2>2. Complete(g, why)
    <3>1. {"pull", "flash", "mcu"} \subseteq g.made
      BY <1>5 DEF Between, FrameFits, StepFits, ChainMade
    <3> QED
      BY <1>5, <3>1 DEF Complete, Needed
  <2> QED
    BY <1>5, <2>1, <2>2, EndChainGoes
<1> QED
  BY <1>1, <1>2, <1>3, <1>4, <1>5

-----------------------------------------------------------------------------
(* The pull.                                                               *)

\* The puller runs, on a connection that may have gone.
PullRuns(g) ==
    /\ g.op \in {"pull", "pull-flash"} /\ g.step = "pull" /\ FrameFits(g) /\ ToolsIdle(g)
    /\ g.pullerActive /\ g.pullPhase = "Pulling" /\ g.ssh # "Connecting"

LEMMA PullRunsIfActive ==
    ASSUME NEW g, IsGui(g), JobFits(g), g.pullerActive
    PROVE  PullRuns(g) /\ g.ssh = "Connected" /\ g.puller # "Idle"
  BY DEF IsGui, JobFits, PullRuns, FrameFits, StepFits, PullFits, FlashFits, McuFits, ToolsIdle, Operations

\* pullFinished(); of a pull that is given up, the connection goes with the puller.
LEMMA PullFinishedGoes ==
    ASSUME NEW g, IsGui(g), PullRuns(g), NEW ok \in BOOLEAN, NEW why \in Reasons, NEW way,
           g.puller # "Idle" => g.ssh # "Disconnected",
           ok => g.puller = "Idle" /\ "pull" \in g.made /\ ~g.cancelRequested
    PROVE  /\ Onward(g, PullFinished(g, ok, why, way)) /\ JobInv(PullFinished(g, ok, why, way))
           /\ ~ok => Ended(PullFinished(g, ok, why, way))
<1> DEFINE s == [g EXCEPT !.pullerActive = FALSE, !.pullPhase = "Idle"]
           c == CloseSsh(s)
           k == IF s.keepSsh THEN s ELSE c
<1>1. /\ IsGui(s) /\ s.begun = g.begun /\ s.ssh = g.ssh /\ s.generation = g.generation
      /\ s.calls = g.calls /\ s.pullPhase = "Idle" /\ ~s.pullerActive /\ s.puller = g.puller
      /\ s.keepSsh = g.keepSsh /\ s.op = g.op /\ s.step = "pull" /\ s.made = g.made
      /\ s.cancelRequested = g.cancelRequested
  BY DEF IsGui, GuiFields, PullRuns
<1>2. FrameFits(s) /\ ToolsIdle(s)
  BY DEF IsGui, GuiFields, PullRuns, FrameFits, StepFits, ChainMade, ResultIsTrue, ToolsIdle
<1>3. PullFinished(g, ok, why, way) = StepFinished(k, "pull", ok, why, way)
  BY DEF PullFinished
<1> HIDE DEF s
<1>4. Onward(g, s)
  BY <1>1, Stays
<1>5. /\ Onward(s, c) /\ JobSame(s, c) /\ c.ssh = "Disconnected" /\ c.pullPhase = "Idle"
      /\ s.ssh = "Disconnected" => c.puller = s.puller
      /\ s.ssh # "Disconnected" => c.puller = "Idle"
  BY <1>1, CloseSshGoes
<1> HIDE DEF c
<1>6. IsGui(k) /\ Between(k) /\ Onward(g, k)
  <2>1. CASE s.keepSsh
    <3>1. s.op = "pull-flash"
      BY <1>2, <2>1 DEF FrameFits
    <3>2. s.ssh # "Connecting"
      BY <1>1 DEF PullRuns
    <3>3. s.ssh \in {"Disconnected", "Connecting", "Connected"}
      BY <1>1 DEF IsGui
    <3>4. Between(s)
      BY <1>1, <1>2, <3>1, <3>2, <3>3 DEF Between
    <3>5. k = s
      BY <2>1
    <3> QED
      BY <1>1, <1>4, <3>4, <3>5
  <2>2. CASE ~s.keepSsh
    <3>1. FrameFits(c) /\ ToolsIdle(c)
      BY <1>2, <1>5 DEF FrameFits, StepFits, ChainMade, ResultIsTrue, ToolsIdle, JobSame
    <3>2. c.puller = "Idle"
      BY <1>1, <1>5
    <3>3. Between(c)
      BY <1>1, <1>5, <3>1, <3>2 DEF Between, JobSame, PullRuns
    <3> QED
      BY <1>4, <1>5, <2>2, <3>3, KeepsOnward DEF Onward
  <2> QED
    BY <2>1, <2>2
<1>7. k.step = "pull" /\ k.made = s.made /\ k.cancelRequested = s.cancelRequested
  BY <1>1, <1>5 DEF JobSame
<1>8. ok => k.puller = "Idle"
  BY <1>1, <1>5
<1> HIDE DEF k
<1>9. /\ Onward(k, StepFinished(k, "pull", ok, why, way))
      /\ JobInv(StepFinished(k, "pull", ok, why, way))
      /\ ~ok => Ended(StepFinished(k, "pull", ok, why, way))
  BY <1>1, <1>6, <1>7, <1>8, StepFinishedGoes
<1> QED
  BY <1>3, <1>6, <1>9, KeepsOnward

\* ImagePuller's finish(), heard by the job
LEMMA PullerFinishGoes ==
    ASSUME NEW g, IsGui(g), PullRuns(g), g.puller # "Idle",
           NEW ok \in BOOLEAN, NEW why \in Reasons, NEW way,
           ok => "pull" \in g.made /\ ~g.cancelRequested
    PROVE  /\ Onward(g, PullerFinish(g, ok, why, way)) /\ JobInv(PullerFinish(g, ok, why, way))
           /\ ~ok => Ended(PullerFinish(g, ok, why, way))
<1> DEFINE s == [g EXCEPT !.puller = "Idle", !.pullCancelled = FALSE]
<1>1. /\ IsGui(s) /\ s.begun = g.begun /\ s.ssh = g.ssh /\ s.generation = g.generation
      /\ s.calls = g.calls /\ s.puller = "Idle" /\ s.made = g.made
      /\ s.cancelRequested = g.cancelRequested
  BY DEF IsGui, GuiFields
<1>2. PullRuns(s)
  BY DEF IsGui, GuiFields, PullRuns, FrameFits, StepFits, ChainMade, ResultIsTrue, ToolsIdle
<1>3. PullerFinish(g, ok, why, way) = PullFinished(s, ok, why, way)
  BY DEF PullerFinish, PullRuns
<1> HIDE DEF s
<1>4. Onward(g, s)
  BY <1>1, Stays
<1>5. /\ Onward(s, PullFinished(s, ok, why, way)) /\ JobInv(PullFinished(s, ok, why, way))
      /\ ~ok => Ended(PullFinished(s, ok, why, way))
  BY <1>1, <1>2, PullFinishedGoes
<1> QED
  BY <1>3, <1>4, <1>5, KeepsOnward

-----------------------------------------------------------------------------
\* ImagePuller::cancel()
LEMMA PullerCancelGoes ==
    ASSUME NEW g, IsGui(g), JobFits(g), g.pullerActive
    PROVE  /\ Onward(g, PullerCancel(g)) /\ JobInv(PullerCancel(g))
           /\ \/ PullerCancel(g).step = "pull" /\ PullerCancel(g).puller = "Download"
              \/ Ended(PullerCancel(g))
<1>1. PullRuns(g) /\ g.puller # "Idle" /\ g.step = "pull" /\ g.ssh = "Connected"
  BY PullRunsIfActive DEF PullRuns
<1>2. CASE g.pullCancelled
  <2>1. PullerCancel(g) = g
    BY <1>2 DEF PullerCancel
  <2>2. g.puller = "Download"
    BY <1>1, <1>2 DEF JobFits, PullFits
  <2>3. CancelFits(g)
    BY <1>1, <1>2, <2>2 DEF CancelFits, PullRuns, ToolsIdle
  <2> QED
    BY <1>1, <2>1, <2>2, <2>3, Stays DEF JobInv
<1>3. CASE ~g.pullCancelled /\ g.puller = "Download"
  <2> DEFINE s == [g EXCEPT !.pullCancelled = TRUE]
  <2>1. /\ IsGui(s) /\ s.begun = g.begun /\ s.ssh = g.ssh /\ s.generation = g.generation
        /\ s.calls = g.calls
    BY DEF IsGui, GuiFields
  <2>2. "cancelTransfer" \in CallNames \ {"open"}
    BY DEF CallNames
  <2>3. PullerCancel(g) = Call(s, "cancelTransfer")
    BY <1>1, <1>3 DEF PullerCancel
  <2>4. s.step = "pull" /\ s.puller = "Download" /\ s.pullCancelled
    BY <1>1, <1>3 DEF IsGui, GuiFields
  <2>5. JobFits(s)
    BY <2>4 DEF IsGui, GuiFields, JobFits, FrameFits, StepFits, ChainMade, ResultIsTrue, PullFits,
       FlashFits, McuFits
  <2>6. CancelFits(s)
    BY <1>1, <2>4 DEF CancelFits, PullRuns, ToolsIdle, IsGui, GuiFields
  <2> HIDE DEF s
  <2>7. Onward(g, s) /\ Onward(s, Call(s, "cancelTransfer"))
    BY <2>1, <2>2, Stays, CallGoes
  <2>8. /\ JobInv(Call(s, "cancelTransfer")) /\ Call(s, "cancelTransfer").step = "pull"
        /\ Call(s, "cancelTransfer").puller = "Download"
    BY <2>1, <2>4, <2>5, <2>6, CallSame, SameFits DEF JobInv, JobSame
  <2> QED
    BY <2>3, <2>7, <2>8, KeepsOnward
<1>4. CASE ~g.pullCancelled /\ g.puller # "Download"
  <2>1. PullerCancel(g) = PullerFinish(g, FALSE, "cancelled", "goes")
    BY <1>1, <1>4 DEF PullerCancel
  <2>2. "cancelled" \in Reasons
    BY DEF Reasons
  <2> QED
    BY <1>1, <2>1, <2>2, PullerFinishGoes
<1> QED
  BY <1>2, <1>3, <1>4

\* A connection that has gone ends the pull that waited for it, or ran over it.
LEMMA DisconnectedUnderPull ==
    ASSUME NEW g, IsGui(g),
           \/ PullRuns(g) /\ g.puller # "Idle"
           \/ /\ g.pullPhase = "Connecting" /\ g.puller = "Idle" /\ ~g.pullerActive
              /\ g.op \in {"pull", "pull-flash"} /\ g.step = "pull" /\ FrameFits(g) /\ ToolsIdle(g)
    PROVE  LET s == [g EXCEPT !.ssh = "Disconnected"]
               h == SshDisconnected(g)
           IN  Onward(s, h) /\ JobInv(h) /\ Ended(h)
<1> DEFINE s == [g EXCEPT !.ssh = "Disconnected"]
           h == SshDisconnected(g)
<1>1. IsGui(s) /\ s.ssh = "Disconnected"
  BY DEF IsGui, GuiFields
<1>2. "failed" \in Reasons /\ "cancelled" \in Reasons
  BY DEF Reasons
<1>3. CASE g.pullPhase = "Connecting"
  <2> DEFINE k == [s EXCEPT !.pullPhase = "Idle"]
             why == IF g.cancelRequested THEN "cancelled" ELSE "failed"
  <2>1. h = StepFinished(k, "pull", FALSE, why, "goes")
    BY <1>3 DEF SshDisconnected
  <2>2. /\ IsGui(k) /\ k.begun = s.begun /\ k.ssh = s.ssh /\ k.generation = s.generation
        /\ k.calls = s.calls
    BY DEF IsGui, GuiFields
  <2>3. Between(k)
    BY <1>3 DEF IsGui, GuiFields, PullRuns, Between, FrameFits, StepFits, ChainMade, ResultIsTrue, ToolsIdle
  <2> HIDE DEF k, s
  <2>4. Onward(s, k)
    BY <2>2, Stays
  <2>5. /\ Onward(k, StepFinished(k, "pull", FALSE, why, "goes"))
        /\ JobInv(StepFinished(k, "pull", FALSE, why, "goes"))
        /\ Ended(StepFinished(k, "pull", FALSE, why, "goes"))
    BY <1>2, <2>2, <2>3, StepFinishedGoes
  <2> QED
    BY <2>1, <2>4, <2>5, KeepsOnward DEF s
<1>4. CASE g.pullPhase # "Connecting"
  <2> DEFINE k == SetTimer(s, "dropped")
  <2>1. PullRuns(g) /\ g.puller # "Idle" /\ g.pullPhase = "Pulling"
    BY <1>4 DEF PullRuns
  <2>2. h = PullerFinish(k, FALSE, "failed", "goes")
    BY <2>1 DEF SshDisconnected
  <2>3. s.begun # 0
    BY <2>1 DEF IsGui, GuiFields, PullRuns, FrameFits
  <2>4. Onward(s, k)
    BY <1>1, <2>3, SetTimerTyped
  <2>5. PullRuns(k) /\ k.puller # "Idle"
    BY <2>1 DEF SetTimer, IsGui, GuiFields, PullRuns, FrameFits, StepFits, ChainMade, ResultIsTrue, ToolsIdle
  <2> HIDE DEF k, s
  <2>6. /\ Onward(k, PullerFinish(k, FALSE, "failed", "goes"))
        /\ JobInv(PullerFinish(k, FALSE, "failed", "goes"))
        /\ Ended(PullerFinish(k, FALSE, "failed", "goes"))
    BY <1>2, <2>4, <2>5, PullerFinishGoes DEF Onward
  <2> QED
    BY <2>2, <2>4, <2>6, KeepsOnward DEF s
<1> QED
  BY <1>3, <1>4

\* setState(Disconnected) of the connection in use
LEMMA SshDisconnectedGoes ==
    ASSUME NEW g, IsGui(g), JobInv(g)
    PROVE  LET s == [g EXCEPT !.ssh = "Disconnected"]
               h == SshDisconnected(g)
           IN  Onward(s, h) /\ JobInv(h) /\ (h.step = g.step \/ Ended(h))
<1>1. CASE g.pullerActive
  BY <1>1, PullRunsIfActive, DisconnectedUnderPull DEF JobInv
<1>2. CASE g.pullPhase = "Connecting"
  <2>1. /\ g.puller = "Idle" /\ ~g.pullerActive
        /\ g.op \in {"pull", "pull-flash"} /\ g.step = "pull" /\ FrameFits(g) /\ ToolsIdle(g)
    BY <1>2 DEF IsGui, JobInv, JobFits, FrameFits, StepFits, PullFits, FlashFits, McuFits, ToolsIdle, Operations
  <2> QED
    BY <1>2, <2>1, DisconnectedUnderPull
<1>3. CASE ~g.pullerActive /\ g.pullPhase # "Connecting"
  <2> DEFINE s == [g EXCEPT !.ssh = "Disconnected"]
  <2>1. g.pullPhase = "Idle" /\ g.puller = "Idle"
    BY <1>3 DEF IsGui, JobInv, JobFits, PullFits
  <2>2. IsGui(s) /\ s.puller = "Idle" /\ s.step = g.step
    BY <2>1 DEF IsGui, GuiFields
  <2>3. JobInv(s)
    BY <1>3, <2>1 DEF IsGui, GuiFields, JobInv, JobFits, FrameFits, StepFits, ChainMade, ResultIsTrue,
       PullFits, FlashFits, McuFits, CancelFits
  <2>4. SshDisconnected(g) = PullerFinish(s, FALSE, "failed", "goes")
    BY <2>1 DEF SshDisconnected
  <2>5. PullerFinish(s, FALSE, "failed", "goes") = s
    BY <2>2 DEF PullerFinish
  <2> QED
    BY <2>2, <2>3, <2>4, <2>5, Stays
<1> QED
  BY <1>1, <1>2, <1>3

-----------------------------------------------------------------------------
\* close() under a pull: it ends, and the connection with it.
LEMMA CloseUnderPullGoes ==
    ASSUME NEW g, IsGui(g), JobFits(g), g.pullerActive
    PROVE  /\ Onward(g, CloseUnderPull(g)) /\ JobInv(CloseUnderPull(g)) /\ Ended(CloseUnderPull(g))
<1> DEFINE k == AbortWorker(g)
           s == [k EXCEPT !.transfer = FALSE]
           d == [s EXCEPT !.ssh = "Disconnected"]
<1>1. PullRuns(g) /\ g.puller # "Idle"
  BY PullRunsIfActive
<1>2. IsGui(k) /\ JobSame(g, k) /\ k.pullPhase = g.pullPhase /\ k.puller = g.puller /\ k.ssh = g.ssh
  BY AbortGoes, AbortSame DEF Onward
<1>3. /\ k.generation = g.generation + 1
      /\ k.calls = Append(g.calls, [name |-> "close", gen |-> g.generation, run |-> g.begun])
  BY DEF AbortWorker, Call, IsGui, GuiFields
<1>4. CloseUnderPull(g) =
          IF g.transfer
          THEN HangUp(PullerFinish(d, FALSE, IF g.pullCancelled THEN "cancelled" ELSE "failed", "goes"))
          ELSE SshDisconnected(s)
  BY DEF CloseUnderPull
<1>5. PullRuns(k)
  BY <1>1, <1>2 DEF PullRuns, JobSame, FrameFits, StepFits, ChainMade, ResultIsTrue, ToolsIdle
<1> HIDE DEF k
<1>6. IsGui(s) /\ IsGui(d)
  BY <1>2 DEF IsGui, GuiFields
<1>7. /\ PullRuns(s) /\ PullRuns(d) /\ s.puller # "Idle" /\ d.puller # "Idle"
  BY <1>1, <1>2, <1>5 DEF IsGui, GuiFields, PullRuns, FrameFits, StepFits, ChainMade, ResultIsTrue, ToolsIdle
<1>8. Onward(g, d)
  <2>1. /\ d.begun = g.begun /\ d.ssh = "Disconnected" /\ d.generation = g.generation + 1
        /\ d.calls = Append(g.calls, [name |-> "close", gen |-> g.generation, run |-> g.begun])
    BY <1>2, <1>3 DEF IsGui, GuiFields, JobSame
  <2> QED
    BY <1>6, <2>1, KeepsAbort DEF Onward
<1>9. CASE g.transfer
  <2> DEFINE why == IF g.pullCancelled THEN "cancelled" ELSE "failed"
             p == PullerFinish(d, FALSE, why, "goes")
  <2>1. why \in Reasons
    BY DEF Reasons
  <2> HIDE DEF d, why
  <2>2. Onward(d, p) /\ JobInv(p) /\ Ended(p)
    BY <1>6, <1>7, <2>1, PullerFinishGoes
  <2> HIDE DEF p
  <2>3. /\ Onward(p, HangUp(p)) /\ JobSame(p, HangUp(p))
        /\ HangUp(p).ssh = "Disconnected" /\ HangUp(p).puller = "Idle"
        /\ HangUp(p).pullPhase = p.pullPhase
    BY <2>2, HangUpGoes DEF Onward
  <2>4. p.ssh = "Disconnected" /\ p.puller = "Idle" /\ p.step = "none"
    BY <2>2 DEF Ended, JobInv, JobFits, FrameFits, StepFits, PullFits
  <2>5. JobInv(HangUp(p)) /\ Ended(HangUp(p))
    BY <2>2, <2>3, <2>4, SameFits DEF JobInv, JobSame, Ended
  <2>6. CloseUnderPull(g) = HangUp(p)
    BY <1>4, <1>9 DEF p, why
  <2> QED
    BY <1>8, <2>2, <2>3, <2>5, <2>6, KeepsOnward
<1>10. CASE ~g.transfer
  <2>1. CloseUnderPull(g) = SshDisconnected(s)
    BY <1>4, <1>10
  <2>2. Onward(d, SshDisconnected(s)) /\ JobInv(SshDisconnected(s)) /\ Ended(SshDisconnected(s))
    BY <1>6, <1>7, DisconnectedUnderPull
  <2> HIDE DEF d, s
  <2> QED
    BY <1>8, <2>1, <2>2, KeepsOnward
<1> QED
  BY <1>9, <1>10

LEMMA StartPullerGoes ==
    ASSUME NEW g, IsGui(g), g.step = "pull", g.op \in {"pull", "pull-flash"}, FrameFits(g),
           ToolsIdle(g), g.puller = "Idle", ~g.pullerActive, g.ssh = "Connected", ~g.cancelRequested
    PROVE  /\ Onward(g, StartPuller(g)) /\ JobInv(StartPuller(g)) /\ StartPuller(g).step = "pull"
<1> DEFINE s == [g EXCEPT !.pullPhase = "Pulling", !.pullerActive = TRUE,
                          !.puller = "Stat", !.pullCancelled = FALSE]
<1>1. /\ IsGui(s) /\ s.begun = g.begun /\ s.ssh = g.ssh /\ s.generation = g.generation
      /\ s.calls = g.calls /\ s.step = "pull"
  BY DEF IsGui, GuiFields
<1>2. JobInv(s)
  BY DEF IsGui, GuiFields, JobInv, JobFits, FrameFits, StepFits, ChainMade, ResultIsTrue,
     PullFits, FlashFits, McuFits, CancelFits, ToolsIdle
<1>3. "stat" \in CallNames \ {"open"}
  BY DEF CallNames
<1>4. StartPuller(g) = Call(s, "stat")
  BY DEF StartPuller
<1> HIDE DEF s
<1>5. Onward(g, s) /\ Onward(s, Call(s, "stat"))
  BY <1>1, <1>3, Stays, CallGoes
<1>6. JobInv(Call(s, "stat")) /\ Call(s, "stat").step = "pull"
  BY <1>1, <1>2, CallSame, SameFits DEF JobInv, JobSame
<1> QED
  BY <1>4, <1>5, <1>6, KeepsOnward

\* startPull() where nothing is connected yet, the step of the pull having begun
LEMMA StartPullGoes ==
    ASSUME NEW g, IsGui(g), NEW way, Between([g EXCEPT !.step = "pull"]), g.puller = "Idle",
           g.ssh = "Disconnected", ~g.cancelRequested, g.op \in {"pull", "pull-flash"}
    PROVE  Onward(g, StartPull(g, way)) /\ JobInv(StartPull(g, way))
<1> DEFINE s == [g EXCEPT !.step = "pull"]
           k == [s EXCEPT !.pullPhase = "Connecting"]
<1>1. /\ IsGui(s) /\ s.step = "pull" /\ ~s.cancelRequested /\ s.puller = "Idle" /\ s.op = g.op
      /\ s.begun = g.begun /\ s.ssh = "Disconnected" /\ s.generation = g.generation
      /\ s.calls = g.calls
  BY DEF IsGui, GuiFields, Steps
<1>2. Between(s)
  OBVIOUS
<1>3. StartPull(g, way) = IF way = "refused" THEN StepFailed(s, "failed") ELSE OpenSsh(k)
  BY <1>1 DEF StartPull, CloseSsh
<1> HIDE DEF s
<1>4. Onward(g, s)
  BY <1>1, Stays
<1>5. CASE way = "refused"
  <2>1. "failed" \in Reasons
    BY DEF Reasons
  <2> QED
    BY <1>1, <1>2, <1>3, <1>4, <1>5, <2>1, StepFailedGoes, KeepsOnward
<1>6. CASE way # "refused"
  <2>1. /\ IsGui(k) /\ k.begun = s.begun /\ k.ssh = s.ssh /\ k.generation = s.generation
        /\ k.calls = s.calls
    BY <1>1 DEF IsGui, GuiFields
  <2>2. /\ FrameFits(k) /\ ToolsIdle(k) /\ k.pullPhase = "Connecting" /\ k.puller = "Idle"
        /\ ~k.pullerActive /\ k.step = "pull" /\ k.op \in {"pull", "pull-flash"} /\ ~k.cancelRequested
    BY <1>1, <1>2 DEF IsGui, GuiFields, Between, FrameFits, StepFits, ChainMade, ResultIsTrue, ToolsIdle
  <2> HIDE DEF k
  <2>3. Onward(s, k)
    BY <2>1, Stays
  <2> DEFINE h == OpenSsh(k)
  <2>4. /\ Onward(k, h) /\ JobSame(k, h) /\ h.ssh = "Connecting" /\ h.pullPhase = k.pullPhase
        /\ h.puller = k.puller
    BY <1>1, <2>1, OpenSshGoes
  <2> HIDE DEF h
  <2>5. JobInv(h)
    BY <2>2, <2>4 DEF JobSame, JobInv, JobFits, FrameFits, StepFits, ChainMade, ResultIsTrue,
       PullFits, FlashFits, McuFits, CancelFits, ToolsIdle, FlashPhases
  <2> QED
    BY <1>3, <1>4, <1>6, <2>3, <2>4, <2>5, KeepsOnward DEF h
<1> QED
  BY <1>5, <1>6

\* startImageDownload(), the commit having been asked for
LEMMA StartDownloadGoes ==
    ASSUME NEW g, IsGui(g), JobInv(g), g.puller = "Git"
    PROVE  /\ Onward(g, StartDownload(g)) /\ JobInv(StartDownload(g))
           /\ Obeys(g, StartDownload(g))
<1>1. /\ PullRuns(g) /\ g.puller # "Idle" /\ g.ssh = "Connected" /\ g.step = "pull" /\ g.pullerActive
  BY PullRunsIfActive DEF JobInv, JobFits, PullFits, PullRuns
<1>2. ~g.cancelRequested
  BY <1>1 DEF JobInv, CancelFits
<1>3. CASE g.transfer
  <2>1. StartDownload(g) = PullerFinish(g, FALSE, "failed", "goes")
    BY <1>3 DEF StartDownload
  <2>2. "failed" \in Reasons
    BY DEF Reasons
  <2> QED
    BY <1>1, <1>2, <2>1, <2>2, PullerFinishGoes DEF Obeys
<1>4. CASE ~g.transfer
  <2> DEFINE s == [g EXCEPT !.puller = "Download", !.transfer = TRUE]
  <2>1. /\ IsGui(s) /\ s.begun = g.begun /\ s.ssh = g.ssh /\ s.generation = g.generation
        /\ s.calls = g.calls
    BY DEF IsGui, GuiFields
  <2>2. JobInv(s)
    BY <1>1, <1>2 DEF IsGui, GuiFields, JobInv, JobFits, FrameFits, StepFits, ChainMade, ResultIsTrue,
       PullFits, FlashFits, McuFits, CancelFits
  <2>3. "transfer" \in CallNames \ {"open"}
    BY DEF CallNames
  <2>4. StartDownload(g) = Call(s, "transfer")
    BY <1>1, <1>4 DEF StartDownload
  <2> HIDE DEF s
  <2>5. Onward(g, s) /\ Onward(s, Call(s, "transfer"))
    BY <2>1, <2>3, Stays, CallGoes
  <2>6. JobInv(Call(s, "transfer"))
    BY <2>1, <2>2, CallSame, SameFits DEF JobInv
  <2> QED
    BY <1>2, <2>4, <2>5, <2>6, KeepsOnward DEF Obeys
<1> QED
  BY <1>3, <1>4

LEMMA MadeGoes ==
    ASSUME NEW g, IsGui(g), NEW part \in Steps
    PROVE  /\ Onward(g, Made(g, part)) /\ part \in Made(g, part).made
           /\ JobInv(g) => JobInv(Made(g, part))
           /\ FrameFits(g) => FrameFits(Made(g, part))
           /\ \A f \in GuiFields \ {"made"} : Made(g, part)[f] = g[f]
<1> DEFINE m == g.made \cup {part}
<1>1. m \in SUBSET Steps /\ part \in m /\ g.made \subseteq m
  BY DEF IsGui
<1>2. Made(g, part) = [g EXCEPT !.made = m]
  BY DEF Made
<1> HIDE DEF m
<1>3. IsGui(Made(g, part)) /\ Made(g, part).made = m
  BY <1>1, <1>2 DEF IsGui, GuiFields
<1>4. \A f \in GuiFields \ {"made"} : Made(g, part)[f] = g[f]
  BY <1>2 DEF IsGui
<1>5. FrameFits(g) => FrameFits(Made(g, part))
  BY <1>1, <1>2 DEF IsGui, GuiFields, FrameFits, StepFits, ChainMade, ResultIsTrue
<1>6. JobInv(g) => JobInv(Made(g, part))
  BY <1>1, <1>2, <1>5 DEF IsGui, GuiFields, JobInv, JobFits, PullFits, FlashFits, McuFits, CancelFits
<1>7. Onward(g, Made(g, part))
  BY <1>3, <1>4, Stays DEF GuiFields
<1> QED
  BY <1>1, <1>3, <1>4, <1>5, <1>6, <1>7

-----------------------------------------------------------------------------
\* The puller goes on to its next question.
LEMMA AskedGoes ==
    ASSUME NEW g, IsGui(g), JobInv(g), g.puller = "Stat"
    PROVE  LET h == Call([g EXCEPT !.puller = "Git"], "command")
           IN  Onward(g, h) /\ JobInv(h) /\ h.step = g.step
<1> DEFINE s == [g EXCEPT !.puller = "Git"]
<1>1. /\ IsGui(s) /\ s.begun = g.begun /\ s.ssh = g.ssh /\ s.generation = g.generation
      /\ s.calls = g.calls /\ s.step = g.step
  BY DEF IsGui, GuiFields
<1>2. JobInv(s)
  BY DEF IsGui, GuiFields, JobInv, JobFits, FrameFits, StepFits, ChainMade, ResultIsTrue,
     PullFits, FlashFits, McuFits, CancelFits
<1>3. "command" \in CallNames \ {"open"}
  BY DEF CallNames
<1> HIDE DEF s
<1>4. Onward(g, s) /\ Onward(s, Call(s, "command"))
  BY <1>1, <1>3, Stays, CallGoes
<1>5. JobInv(Call(s, "command")) /\ Call(s, "command").step = g.step
  BY <1>1, <1>2, CallSame, SameFits DEF JobInv, JobSame
<1> QED
  BY <1>4, <1>5, KeepsOnward DEF s

\* The puller ends with the image, of the operation that asked for it.
LEMMA PulledGoes ==
    ASSUME NEW g, IsGui(g), JobInv(g), g.pullerActive, ~g.cancelRequested, NEW way
    PROVE  LET h == PullerFinish(Made(g, "pull"), TRUE, "done", way)
           IN  Onward(g, h) /\ JobInv(h)
<1> DEFINE s == Made(g, "pull")
<1>1. "pull" \in Steps /\ "done" \in Reasons
  BY DEF Steps, Reasons
<1>2. /\ Onward(g, s) /\ "pull" \in s.made /\ JobInv(s)
      /\ \A f \in GuiFields \ {"made"} : s[f] = g[f]
  BY <1>1, MadeGoes
<1> HIDE DEF s
<1>3. IsGui(s) /\ s.pullerActive /\ ~s.cancelRequested
  BY <1>2 DEF Onward, GuiFields
<1>4. PullRuns(s) /\ s.puller # "Idle"
  BY <1>2, <1>3, PullRunsIfActive DEF JobInv
<1>5. /\ Onward(s, PullerFinish(s, TRUE, "done", way))
      /\ JobInv(PullerFinish(s, TRUE, "done", way))
  BY <1>1, <1>2, <1>3, <1>4, PullerFinishGoes
<1> QED
  BY <1>2, <1>5, KeepsOnward DEF s

\* A signal of the worker; a "disconnected" that is true takes the connection along.
LEMMA HeardGoes ==
    ASSUME NEW g, IsGui(g), JobInv(g), NEW a \in Answers, NEW unchanged \in BOOLEAN, NEW way,
           a.kind = "connected" => g.ssh # "Disconnected",
           a.kind = "transfer" /\ g.ssh # "Disconnected" => a.run = g.begun
    PROVE  LET h == Heard(g, a, unchanged, way)
           IN  /\ JobInv(h) /\ Obeys(g, h)
               /\ a.kind = "disconnected" => Onward([g EXCEPT !.ssh = "Disconnected"], h)
               /\ a.kind # "disconnected" => Onward(g, h)
<1> DEFINE h == Heard(g, a, unchanged, way)
<1> USE DEF Obeys
<1>1. {"failed", "cancelled", "done"} \subseteq Reasons
  BY DEF Reasons
<1>2. CASE a.kind = "connected"
  <2> DEFINE s == [g EXCEPT !.ssh = "Connected"]
  <2>1. h = IF g.pullPhase = "Connecting" THEN StartPuller(s) ELSE s
    BY <1>2 DEF Heard
  <2>2. /\ IsGui(s) /\ s.begun = g.begun /\ s.generation = g.generation /\ s.calls = g.calls
        /\ s.ssh = "Connected" /\ s.step = g.step /\ g.ssh # "Disconnected"
    BY <1>2 DEF IsGui, GuiFields
  <2>3. Onward(g, s)
    <3>1. Keeps(g, s)
      BY <2>2 DEF Keeps, QueueInv, CallsFit, AnswersFit, ConnectsFit, TransfersFit, Owned
    <3> QED
      BY <2>2, <3>1 DEF Onward
  <2>4. CASE g.pullPhase = "Connecting"
    <3>1. /\ s.step = "pull" /\ s.op \in {"pull", "pull-flash"} /\ FrameFits(s) /\ ToolsIdle(s)
          /\ s.puller = "Idle" /\ ~s.pullerActive /\ ~s.cancelRequested
      BY <2>4 DEF IsGui, GuiFields, JobInv, JobFits, FrameFits, StepFits, ChainMade, ResultIsTrue,
         PullFits, FlashFits, McuFits, CancelFits, ToolsIdle, Operations
    <3> HIDE DEF s
    <3>2. Onward(s, StartPuller(s)) /\ JobInv(StartPuller(s)) /\ StartPuller(s).step = "pull"
      BY <2>2, <3>1, StartPullerGoes
    <3> QED
      BY <1>2, <2>1, <2>2, <2>3, <2>4, <3>1, <3>2, KeepsOnward
  <2>5. CASE g.pullPhase # "Connecting"
    <3>1. JobInv(s)
      BY <1>2, <2>5 DEF IsGui, GuiFields, JobInv, JobFits, FrameFits, StepFits, ChainMade, ResultIsTrue,
         PullFits, FlashFits, McuFits, CancelFits
    <3> QED
      BY <1>2, <2>1, <2>2, <2>3, <2>5, <3>1
  <2> QED
    BY <2>4, <2>5
<1>3. CASE a.kind = "disconnected"
  <2>1. h = SshDisconnected(g)
    BY <1>3 DEF Heard
  <2> QED
    BY <1>3, <2>1, SshDisconnectedGoes
<1>4. CASE a.kind = "dropped"
  <2> DEFINE s == AbortWorker(g)
             d == [s EXCEPT !.ssh = "Disconnected"]
  <2>1. h = SshDisconnected(s)
    BY <1>4 DEF Heard
  <2>2. IsGui(s) /\ JobSame(g, s) /\ s.pullPhase = g.pullPhase /\ s.puller = g.puller /\ s.ssh = g.ssh
    BY AbortGoes, AbortSame DEF Onward
  <2>3. JobInv(s)
    BY <2>2, SameFits DEF JobInv
  <2>4. /\ s.generation = g.generation + 1
        /\ s.calls = Append(g.calls, [name |-> "close", gen |-> g.generation, run |-> g.begun])
    BY DEF AbortWorker, Call, IsGui, GuiFields
  <2> HIDE DEF s
  <2>5. /\ IsGui(d) /\ d.begun = s.begun /\ d.ssh = "Disconnected"
        /\ d.generation = s.generation /\ d.calls = s.calls
    BY <2>2 DEF IsGui, GuiFields
  <2>6. Onward(g, d)
    <3>1. d.begun = g.begun
      BY <2>2, <2>5 DEF JobSame
    <3> HIDE DEF d
    <3>2. Keeps(g, d)
      BY <3>1, <2>4, <2>5, KeepsAbort
    <3> QED
      BY <3>1, <3>2, <2>5 DEF Onward
  <2>7. /\ Onward(d, SshDisconnected(s)) /\ JobInv(SshDisconnected(s))
        /\ SshDisconnected(s).step = s.step \/ Ended(SshDisconnected(s))
    BY <2>2, <2>3, SshDisconnectedGoes
  <2>8. s.step = g.step
    BY <2>2 DEF JobSame
  <2> QED
    BY <1>4, <2>1, <2>6, <2>7, <2>8, KeepsOnward
<1>5. CASE a.kind = "stat" /\ g.puller = "Stat" /\ a.run = g.begun
  <2>1. h = IF a.ok THEN Call([g EXCEPT !.puller = "Git"], "command")
            ELSE PullerFinish(g, FALSE, "failed", way)
    BY <1>5 DEF Heard
  <2>2. PullRuns(g)
    BY <1>5, PullRunsIfActive DEF JobInv, JobFits, PullFits
  <2>3. CASE a.ok
    BY <1>5, <2>1, <2>3, AskedGoes
  <2>4. CASE ~a.ok
    BY <1>1, <1>5, <2>1, <2>2, <2>4, PullerFinishGoes
  <2> QED
    BY <2>3, <2>4
<1>6. CASE a.kind = "command" /\ g.puller = "Git" /\ a.run = g.begun
  <2>1. h = IF unchanged THEN PullerFinish(Made(g, "pull"), TRUE, "done", way) ELSE StartDownload(g)
    BY <1>6 DEF Heard
  <2>2. g.pullerActive /\ ~g.cancelRequested
    BY <1>6 DEF JobInv, JobFits, PullFits, CancelFits
  <2>3. CASE unchanged
    BY <1>6, <2>1, <2>2, <2>3, PulledGoes
  <2>4. CASE ~unchanged
    BY <1>6, <2>1, <2>4, StartDownloadGoes
  <2> QED
    BY <2>3, <2>4
<1>7. CASE a.kind = "transfer" /\ g.puller = "Download"
  <2> DEFINE ok == a.ok /\ ~g.pullCancelled
  <2>1. g.pullerActive /\ g.ssh = "Connected" /\ PullRuns(g)
    BY <1>7, PullRunsIfActive DEF JobInv, JobFits, PullFits
  <2>2. a.run = g.begun
    BY <1>7, <2>1
  <2>3. CASE ok
    <3>1. h = PullerFinish(Made(g, "pull"), TRUE, "done", way)
      BY <1>7, <2>2, <2>3 DEF Heard
    <3>2. ~g.cancelRequested
      BY <2>1, <2>3 DEF JobInv, CancelFits, PullRuns
    <3> QED
      BY <1>7, <2>1, <3>1, <3>2, PulledGoes
  <2>4. CASE ~ok
    <3> DEFINE why == IF g.pullCancelled THEN "cancelled" ELSE "failed"
    <3>1. h = PullerFinish(g, FALSE, why, way)
      BY <1>7, <2>4 DEF Heard
    <3> QED
      BY <1>1, <1>7, <2>1, <3>1, PullerFinishGoes
  <2> QED
    BY <2>3, <2>4
<1>8. CASE /\ a.kind \notin {"connected", "disconnected", "dropped"}
           /\ ~(a.kind = "stat" /\ g.puller = "Stat" /\ a.run = g.begun)
           /\ ~(a.kind = "command" /\ g.puller = "Git" /\ a.run = g.begun)
           /\ ~(a.kind = "transfer" /\ g.puller = "Download")
  <2>1. h = g
    BY <1>8 DEF Heard
  <2> QED
    BY <1>8, <2>1, Stays
<1> QED
  BY <1>2, <1>3, <1>4, <1>5, <1>6, <1>7, <1>8

-----------------------------------------------------------------------------
(* The SoC flash, the fleet.                                               *)

LEMMA FlashPhaseTyped ==
    ASSUME NEW g, IsGui(g), NEW phase \in FlashPhases \cup {"Idle"}
    PROVE  /\ Onward(g, FlasherPhase(g, phase)) /\ FlasherPhase(g, phase).flasher = phase
           /\ \A f \in GuiFields \ {"flasher", "flashCancellable"} : FlasherPhase(g, phase)[f] = g[f]
           /\ FlasherPhase(g, phase).flashCancellable =
                  IF g.flasherActive THEN phase \in FlashWaits ELSE g.flashCancellable
<1> DEFINE c == IF g.flasherActive THEN phase \in FlashWaits ELSE g.flashCancellable
           h == FlasherPhase(g, phase)
<1>1. c \in BOOLEAN
  <2>1. g.flashCancellable \in BOOLEAN
    BY DEF IsGui
  <2>2. CASE g.flasherActive
    BY <2>2
  <2>3. CASE ~g.flasherActive
    BY <2>1, <2>3
  <2> QED
    BY <2>2, <2>3
<1>2. h = [g EXCEPT !.flasher = phase, !.flashCancellable = c]
  BY DEF FlasherPhase, IsGui, GuiFields
<1>3. h.flashCancellable = c
  BY <1>2 DEF IsGui, GuiFields
<1> HIDE DEF c, h
<1>4. IsGui(h)
  BY <1>1, <1>2 DEF IsGui, GuiFields
<1>5. h.flasher = phase /\ \A f \in GuiFields \ {"flasher", "flashCancellable"} : h[f] = g[f]
  BY <1>2 DEF IsGui, GuiFields
<1>6. Onward(g, h)
  BY <1>4, <1>5, Stays DEF GuiFields
<1> QED
  BY <1>3, <1>5, <1>6 DEF h, c

\* onFlasherPhase(), for each phase that the flash has
LEMMA FlasherMovesGoes ==
    ASSUME NEW g, IsGui(g), JobInv(g), g.flasher \in FlashPhases, NEW phase \in FlashPhases
    PROVE  /\ Onward(g, FlasherPhase(g, phase)) /\ JobInv(FlasherPhase(g, phase))
           /\ FlasherPhase(g, phase).step = g.step
<1> DEFINE h == FlasherPhase(g, phase)
<1>1. /\ Onward(g, h) /\ h.flasher = phase
      /\ \A f \in GuiFields \ {"flasher", "flashCancellable"} : h[f] = g[f]
      /\ h.flashCancellable = IF g.flasherActive THEN phase \in FlashWaits ELSE g.flashCancellable
  BY FlashPhaseTyped
<1>2. g.flasherActive /\ ~g.cancelRequested
  BY DEF JobInv, JobFits, FlashFits, CancelFits
<1> HIDE DEF h
<1>3. h.flashCancellable => h.flasher # "Flashing"
  BY <1>1, <1>2 DEF FlashWaits
<1>4. JobInv(h)
  BY <1>1, <1>2, <1>3 DEF GuiFields, JobInv, JobFits, FrameFits, StepFits, ChainMade, ResultIsTrue,
     PullFits, FlashFits, McuFits, CancelFits
<1> QED
  BY <1>1, <1>4 DEF GuiFields, h

\* flashFinished(), of a flash that is waited for and runs no more
LEMMA FlashFinishedGoes ==
    ASSUME NEW g, IsGui(g), JobFits(g), g.flasherActive, g.flasher \notin FlashPhases,
           NEW ok \in BOOLEAN, NEW why \in Reasons, NEW way, ok => "flash" \in g.made
    PROVE  /\ Onward(g, FlashFinished(g, ok, why, way)) /\ JobInv(FlashFinished(g, ok, why, way))
           /\ ~ok => Ended(FlashFinished(g, ok, why, way))
<1> DEFINE s == [g EXCEPT !.flasherActive = FALSE, !.flashCancellable = FALSE]
<1>1. /\ IsGui(s) /\ s.begun = g.begun /\ s.ssh = g.ssh /\ s.generation = g.generation
      /\ s.calls = g.calls /\ s.made = g.made /\ s.step = "flash"
  BY DEF IsGui, GuiFields, JobFits, FlashFits
<1>2. Between(s) /\ s.puller = "Idle"
  <2>1. FrameFits(s) /\ ToolsIdle(s)
    BY <1>1 DEF IsGui, GuiFields, JobFits, FrameFits, StepFits, ChainMade, ResultIsTrue, FlashFits, McuFits, ToolsIdle
  <2>2. s.puller = "Idle" /\ ~s.pullerActive /\ s.pullPhase = "Idle"
    BY <1>1 DEF IsGui, GuiFields, JobFits, PullFits
  <2>3. s.ssh # "Disconnected" => s.op = "pull-flash" /\ s.ssh = "Connected"
    BY <1>1 DEF IsGui, GuiFields, JobFits, FrameFits, StepFits, PullFits
  <2>4. s.op # "none"
    BY <1>1, <2>1 DEF FrameFits, StepFits
  <2> QED
    BY <1>1, <2>1, <2>2, <2>3, <2>4 DEF Between
<1>3. FlashFinished(g, ok, why, way) = StepFinished(s, "flash", ok, why, way)
  BY DEF FlashFinished
<1> HIDE DEF s
<1>4. Onward(g, s)
  BY <1>1, Stays
<1>5. /\ Onward(s, StepFinished(s, "flash", ok, why, way))
      /\ JobInv(StepFinished(s, "flash", ok, why, way))
      /\ ~ok => Ended(StepFinished(s, "flash", ok, why, way))
  BY <1>1, <1>2, StepFinishedGoes
<1> QED
  BY <1>3, <1>4, <1>5, KeepsOnward

\* endFlow(), whether the job waits for the flash or not
LEMMA FlasherEndFlowGoes ==
    ASSUME NEW g, IsGui(g), JobFits(g), NEW ok \in BOOLEAN, NEW why \in Reasons, NEW way,
           ok => g.flasherActive
    PROVE  LET h == FlasherEndFlow(g, ok, why, way)
           IN  /\ Onward(g, h)
               /\ g.flasherActive \/ CancelFits(g) => JobInv(h)
               /\ ~ok => Ended(h) \/ h.step = g.step
               /\ ~ok /\ g.flasherActive => Ended(h)
<1> DEFINE s == FlasherPhase(g, "Idle")
           m == IF ok THEN Made(s, "flash") ELSE s
           h == FlasherEndFlow(g, ok, why, way)
<1>1. /\ Onward(g, s) /\ s.flasher = "Idle"
      /\ \A f \in GuiFields \ {"flasher", "flashCancellable"} : s[f] = g[f]
      /\ s.flashCancellable = IF g.flasherActive THEN "Idle" \in FlashWaits ELSE g.flashCancellable
  BY FlashPhaseTyped
<1>2. h = FlashFinished(m, ok, why, way)
  BY DEF FlasherEndFlow
<1> HIDE DEF s, h
<1>3. IsGui(s)
  BY <1>1 DEF Onward
<1>4. JobFits(s) /\ (CancelFits(g) => CancelFits(s))
  BY <1>1 DEF GuiFields, JobFits, FrameFits, StepFits, ChainMade, ResultIsTrue, PullFits, FlashFits, McuFits,
     CancelFits, FlashPhases
<1>5. CASE ~g.flasherActive
  <2>1. h = s
    BY <1>1, <1>2, <1>5 DEF FlashFinished, GuiFields
  <2> QED
    BY <1>1, <1>4, <1>5, <2>1 DEF JobInv, GuiFields, h
<1>6. CASE g.flasherActive
  <2>1. /\ "flash" \in Steps
        /\ "Idle" \notin FlashPhases
    BY DEF Steps, FlashPhases
  <2>2. /\ Onward(s, Made(s, "flash")) /\ "flash" \in Made(s, "flash").made
        /\ FrameFits(s) => FrameFits(Made(s, "flash"))
        /\ \A f \in GuiFields \ {"made"} : Made(s, "flash")[f] = s[f]
    BY <1>3, <2>1, MadeGoes
  <2> DEFINE f == Made(s, "flash")
  <2> HIDE DEF f
  <2>3. IsGui(f) /\ f.flasherActive /\ f.flasher = "Idle"
    BY <1>1, <1>6, <2>2 DEF Onward, GuiFields, f
  <2>4. JobFits(f)
    <3>1. FrameFits(f)
      BY <1>4, <2>2 DEF JobFits, f
    <3>2. PullFits(f) /\ FlashFits(f)
      BY <1>4, <2>2 DEF JobFits, GuiFields, PullFits, FlashFits, f
    <3>3. McuFits(f)
      <4>1. /\ f.cli = s.cli /\ f.op = s.op /\ f.step = s.step /\ f.asking = s.asking
            /\ f.linkActive = s.linkActive /\ f.updaterActive = s.updaterActive
            /\ f.mcuResultPending = s.mcuResultPending /\ f.mcuOk = s.mcuOk /\ f.link = s.link
        BY <2>2 DEF GuiFields, f
      <4>2. ~s.mcuResultPending
        BY <1>1, <1>6 DEF JobFits, FlashFits, McuFits, GuiFields
      <4> QED
        BY <1>4, <4>1, <4>2 DEF JobFits, McuFits
    <3> QED
      BY <3>1, <3>2, <3>3 DEF JobFits
  <2>5. CASE ok
    <3>1. /\ Onward(f, FlashFinished(f, ok, why, way)) /\ JobInv(FlashFinished(f, ok, why, way))
      BY <2>1, <2>2, <2>3, <2>4, FlashFinishedGoes DEF f
    <3> QED
      BY <1>1, <1>2, <2>2, <2>5, <3>1, KeepsOnward DEF f, h
  <2>6. CASE ~ok
    <3>1. s.flasherActive
      BY <1>1, <1>6 DEF GuiFields
    <3>2. /\ Onward(s, FlashFinished(s, ok, why, way)) /\ JobInv(FlashFinished(s, ok, why, way))
          /\ Ended(FlashFinished(s, ok, why, way))
      BY <1>1, <1>3, <1>4, <2>1, <2>6, <3>1, FlashFinishedGoes
    <3> QED
      BY <1>1, <1>2, <2>6, <3>2, KeepsOnward DEF h
  <2> QED
    BY <2>5, <2>6
<1> QED
  BY <1>5, <1>6

\* The last part of startFleet()
LEMMA RunFleetGoes ==
    ASSUME NEW g, IsGui(g), Between(g), g.step = "fleet-flash", g.puller = "Idle", NEW way
    PROVE  Onward(g, RunFleet(g, way)) /\ JobInv(RunFleet(g, way))
<1> DEFINE f == IF way = "late" THEN "Refused" ELSE "Running"
           h == RunFleet(g, way)
<1>1. f \in {"Refused", "Running"}
  OBVIOUS
<1>2. h = [g EXCEPT !.fleetActive = TRUE, !.fleet = f]
  BY DEF RunFleet
<1> HIDE DEF f, h
<1>3. /\ IsGui(h) /\ h.begun = g.begun /\ h.ssh = g.ssh /\ h.generation = g.generation
      /\ h.calls = g.calls
  BY <1>1, <1>2 DEF IsGui, GuiFields
<1>4. JobInv(h)
  BY <1>1, <1>2 DEF IsGui, GuiFields, Between, ToolsIdle, JobInv, JobFits, FrameFits, StepFits, ChainMade,
     ResultIsTrue, PullFits, FlashFits, McuFits, CancelFits, FlashPhases
<1> QED
  BY <1>3, <1>4, Stays DEF h

\* startFleet(), and startMcuUpdate(), to the question they may put to the owner
LEMMA AsksGoes ==
    ASSUME NEW g, IsGui(g), Between(g), g.puller = "Idle",
           g.step \in {"mcu", "set-role", "fleet-flash"}
    PROVE  Onward(g, [g EXCEPT !.asking = TRUE]) /\ JobInv([g EXCEPT !.asking = TRUE])
<1> DEFINE h == [g EXCEPT !.asking = TRUE]
<1>1. /\ IsGui(h) /\ h.begun = g.begun /\ h.ssh = g.ssh /\ h.generation = g.generation
      /\ h.calls = g.calls
  BY DEF IsGui, GuiFields
<1>2. JobInv(h)
  BY DEF IsGui, GuiFields, Between, ToolsIdle, JobInv, JobFits, FrameFits, StepFits, ChainMade,
     ResultIsTrue, PullFits, FlashFits, McuFits, CancelFits, FlashPhases
<1> QED
  BY <1>1, <1>2, Stays

LEMMA StartFleetGoes ==
    ASSUME NEW g, IsGui(g), NEW way, Between([g EXCEPT !.step = "fleet-flash"]), g.puller = "Idle"
    PROVE  Onward(g, StartFleet(g, way)) /\ JobInv(StartFleet(g, way))
<1> DEFINE s == [g EXCEPT !.step = "fleet-flash"]
<1>1. /\ IsGui(s) /\ s.begun = g.begun /\ s.ssh = g.ssh /\ s.generation = g.generation
      /\ s.calls = g.calls /\ s.puller = "Idle" /\ s.step = "fleet-flash"
  BY DEF IsGui, GuiFields, Steps
<1>2. Between(s)
  OBVIOUS
<1>3. StartFleet(g, way) = CASE way = "refused" -> StepFailed(s, "failed")
                             [] way = "asks" -> [s EXCEPT !.asking = TRUE]
                             [] OTHER -> RunFleet(s, way)
  BY DEF StartFleet
<1> HIDE DEF s
<1>4. Onward(g, s) /\ "failed" \in Reasons
  BY <1>1, Stays DEF Reasons
<1>5. CASE way = "refused"
  BY <1>1, <1>2, <1>3, <1>4, <1>5, StepFailedGoes, KeepsOnward
<1>6. CASE way = "asks"
  BY <1>1, <1>2, <1>3, <1>4, <1>6, AsksGoes, KeepsOnward
<1>7. CASE way \notin {"refused", "asks"}
  BY <1>1, <1>2, <1>3, <1>4, <1>7, RunFleetGoes, KeepsOnward
<1> QED
  BY <1>5, <1>6, <1>7

-----------------------------------------------------------------------------
(* The MCU.                                                                *)

\* A result of the MCU is stored, and its link is through, or was not needed.
McuWaits(g) ==
    /\ g.step \in {"mcu", "set-role"} /\ FrameFits(g)
    /\ g.pullPhase = "Idle" /\ ~g.pullerActive /\ g.puller = "Idle"
    /\ g.ssh # "Disconnected" => g.op = "pull-flash" /\ g.ssh = "Connected"
    /\ ~g.flasherActive /\ g.flasher \notin FlashPhases /\ ~g.fleetActive /\ g.fleet = "Idle"
    /\ g.cli = "none" /\ ~g.asking /\ ~g.updaterActive
    /\ g.mcuResultPending /\ g.link \in {"Closed", "Closing"}
    /\ g.mcuOk => g.step \in g.made

LEMMA McuWaitsIfPending ==
    ASSUME NEW g, IsGui(g), JobFits(g), g.mcuResultPending
    PROVE  McuWaits(g)
<1>1. /\ g.step \in {"mcu", "set-role"} /\ g.linkActive /\ g.link = "Closing" /\ g.cli = "none"
      /\ ~g.asking /\ ~g.updaterActive
      /\ g.mcuOk => g.step \in g.made
  BY DEF IsGui, JobFits, McuFits
<1>2. FrameFits(g)
  BY DEF JobFits
<1>3. /\ g.pullPhase = "Idle" /\ ~g.pullerActive /\ g.puller = "Idle"
      /\ g.ssh # "Disconnected" => g.ssh = "Connected"
  BY <1>1 DEF IsGui, JobFits, PullFits
<1>4. g.ssh # "Disconnected" => g.op = "pull-flash"
  BY <1>1 DEF IsGui, JobFits, PullFits, FrameFits, StepFits
<1>5. ~g.flasherActive /\ g.flasher \notin FlashPhases /\ ~g.fleetActive /\ g.fleet = "Idle"
  BY <1>1 DEF IsGui, JobFits, FlashFits
<1> QED
  BY <1>1, <1>2, <1>3, <1>4, <1>5 DEF McuWaits

LEMMA CompleteGoes ==
    ASSUME NEW g, IsGui(g), McuWaits(g)
    PROVE  /\ Onward(g, CompleteMcu(g)) /\ JobInv(CompleteMcu(g))
           /\ ~g.mcuOk => Ended(CompleteMcu(g))
<1> DEFINE ts == {t \in g.timers : t.kind # "linkClose"}
           s == [g EXCEPT !.mcuResultPending = FALSE, !.linkActive = FALSE, !.timers = ts]
<1>1. ts \in SUBSET Timers
  BY DEF IsGui
<1>2. CompleteMcu(g) = StepFinished(s, g.step, g.mcuOk, g.mcuWhy, "goes")
  BY DEF CompleteMcu, McuWaits, IsGui, GuiFields
<1> HIDE DEF ts
<1>3. /\ IsGui(s) /\ s.begun = g.begun /\ s.ssh = g.ssh /\ s.generation = g.generation
      /\ s.calls = g.calls /\ s.step = g.step /\ s.made = g.made /\ s.puller = "Idle"
  BY <1>1 DEF IsGui, GuiFields, McuWaits
<1>4. Between(s)
  BY DEF IsGui, GuiFields, McuWaits, Between, ToolsIdle, FrameFits, StepFits, ChainMade, ResultIsTrue
<1>5. g.mcuOk \in BOOLEAN /\ g.mcuWhy \in Reasons
  BY DEF IsGui
<1>6. (g.mcuOk => g.step \in g.made) /\ g.step # "pull"
  BY DEF McuWaits
<1> HIDE DEF s
<1>7. Onward(g, s)
  BY <1>3, Stays
<1>8. /\ Onward(s, StepFinished(s, g.step, g.mcuOk, g.mcuWhy, "goes"))
      /\ JobInv(StepFinished(s, g.step, g.mcuOk, g.mcuWhy, "goes"))
      /\ ~g.mcuOk => Ended(StepFinished(s, g.step, g.mcuOk, g.mcuWhy, "goes"))
  BY <1>3, <1>4, <1>5, <1>6, StepFinishedGoes
<1> QED
  BY <1>2, <1>7, <1>8, KeepsOnward

\* mcuDone(), of a link or an update that the job waits for
LEMMA McuDoneGoes ==
    ASSUME NEW g, IsGui(g), JobFits(g), g.linkActive, ~g.updaterActive, ~g.mcuResultPending,
           NEW ok \in BOOLEAN, NEW why \in Reasons, ok => g.step \in g.made
    PROVE  LET h == McuDone(g, ok, why)
           IN  Onward(g, h) /\ JobInv(h) /\ (~ok => h.step = g.step \/ Ended(h))
<1> DEFINE s == [g EXCEPT !.mcuOk = ok, !.mcuWhy = why, !.mcuResultPending = TRUE]
           ts == {t \in s.timers : t.kind # "linkClose"}
           k == [s EXCEPT !.link = "Closing", !.timers = ts]
           h == McuDone(g, ok, why)
<1>1. /\ IsGui(s) /\ s.begun = g.begun /\ s.ssh = g.ssh /\ s.generation = g.generation
      /\ s.calls = g.calls /\ s.step = g.step /\ s.made = g.made /\ s.mcuOk = ok
  BY DEF IsGui, GuiFields
<1>2. h = IF g.link \in {"Opening", "Open", "Queued"} THEN SetTimer(k, "linkClose") ELSE CompleteMcu(s)
  BY DEF McuDone, IsGui, GuiFields
<1>3. Onward(g, s)
  BY <1>1, Stays
<1>4. /\ g.step \in {"mcu", "set-role"} /\ g.cli = "none" /\ ~g.asking
      /\ g.begun # 0
  BY DEF IsGui, JobFits, FrameFits, StepFits, McuFits
<1>5. CASE g.link \in {"Opening", "Open", "Queued"}
  <2>1. ts \in SUBSET Timers
    BY <1>1 DEF IsGui
  <2> HIDE DEF ts, s
  <2>2. /\ IsGui(k) /\ k.begun = s.begun /\ k.ssh = s.ssh /\ k.generation = s.generation
        /\ k.calls = s.calls /\ k.step = s.step
    BY <1>1, <2>1 DEF IsGui, GuiFields
  <2>3. JobInv(k)
    <3>1. \A f \in GuiFields \ {"mcuOk", "mcuWhy", "mcuResultPending", "link", "timers"} : k[f] = g[f]
      BY DEF IsGui, GuiFields, s
    <3>2. k.mcuOk = ok /\ k.mcuResultPending /\ k.link = "Closing"
      BY DEF IsGui, GuiFields, s
    <3> HIDE DEF k
    <3>3. FrameFits(k)
      BY <3>1 DEF GuiFields, JobFits, FrameFits, StepFits, ChainMade, ResultIsTrue
    <3>4. PullFits(k) /\ FlashFits(k)
      BY <3>1 DEF GuiFields, JobFits, PullFits, FlashFits
    <3>5. McuFits(k) /\ CancelFits(k)
      BY <1>4, <3>1, <3>2 DEF GuiFields, JobFits, FlashFits, McuFits, CancelFits
    <3> QED
      BY <3>3, <3>4, <3>5 DEF JobInv, JobFits
  <2> HIDE DEF k
  <2>4. Onward(s, k)
    BY <2>2, Stays
  <2>5. /\ Onward(k, SetTimer(k, "linkClose")) /\ JobInv(SetTimer(k, "linkClose"))
        /\ SetTimer(k, "linkClose").step = k.step
    BY <1>1, <1>4, <2>2, <2>3, SetTimerGoes
  <2> QED
    BY <1>1, <1>2, <1>3, <1>5, <2>2, <2>4, <2>5, KeepsOnward
<1>6. CASE g.link \notin {"Opening", "Open", "Queued"}
  <2>1. McuWaits(s)
    <3>1. \A f \in GuiFields \ {"mcuOk", "mcuWhy", "mcuResultPending"} : s[f] = g[f]
      BY DEF IsGui, GuiFields
    <3>2. s.mcuOk = ok /\ s.mcuResultPending
      BY DEF IsGui, GuiFields
    <3> HIDE DEF s
    <3>3. FrameFits(s)
      BY <3>1 DEF GuiFields, JobFits, FrameFits, StepFits, ChainMade, ResultIsTrue
    <3>4. s.pullPhase = "Idle" /\ ~s.pullerActive /\ s.puller = "Idle"
      BY <1>4, <3>1 DEF IsGui, GuiFields, JobFits, PullFits
    <3>5. s.ssh # "Disconnected" => s.op = "pull-flash" /\ s.ssh = "Connected"
      BY <1>4, <3>1 DEF IsGui, GuiFields, JobFits, PullFits, FrameFits, StepFits
    <3>6. ~s.flasherActive /\ s.flasher \notin FlashPhases /\ ~s.fleetActive /\ s.fleet = "Idle"
      BY <1>4, <3>1 DEF IsGui, GuiFields, JobFits, FlashFits
    <3>7. s.cli = "none" /\ ~s.asking /\ ~s.updaterActive /\ s.link \in {"Closed", "Closing"}
      BY <1>4, <1>6, <3>1 DEF IsGui, GuiFields
    <3> QED
      BY <1>1, <1>4, <3>2, <3>3, <3>4, <3>5, <3>6, <3>7 DEF McuWaits
  <2> HIDE DEF s
  <2>2. Onward(s, CompleteMcu(s)) /\ JobInv(CompleteMcu(s)) /\ (~ok => Ended(CompleteMcu(s)))
    BY <1>1, <2>1, CompleteGoes
  <2> QED
    BY <1>2, <1>3, <1>6, <2>2, KeepsOnward
<1> QED
  BY <1>5, <1>6

\* McuUpdater's finished()
LEMMA UpdaterFinishedGoes ==
    ASSUME NEW g, IsGui(g), JobFits(g), g.updaterActive, NEW ok \in BOOLEAN, NEW why \in Reasons
    PROVE  LET h == UpdaterFinished(g, ok, why)
           IN  Onward(g, h) /\ JobInv(h) /\ (~ok => h.step = g.step \/ Ended(h))
<1> DEFINE s == [g EXCEPT !.updaterActive = FALSE]
           m == IF ok THEN Made(s, g.step) ELSE s
           y == IF ~ok /\ g.link # "Open" THEN "failed" ELSE why
<1>1. /\ IsGui(s) /\ s.begun = g.begun /\ s.ssh = g.ssh /\ s.generation = g.generation
      /\ s.calls = g.calls /\ s.step = g.step
  BY DEF IsGui, GuiFields
<1>2. g.linkActive /\ ~g.mcuResultPending /\ g.step \in {"mcu", "set-role"}
  BY DEF JobFits, McuFits
<1>3. JobFits(s) /\ s.linkActive /\ ~s.updaterActive /\ ~s.mcuResultPending
  BY <1>2 DEF IsGui, GuiFields, JobFits, FrameFits, StepFits, ChainMade, ResultIsTrue, PullFits, FlashFits, McuFits
<1>4. UpdaterFinished(g, ok, why) = McuDone(m, ok, y)
  BY DEF UpdaterFinished
<1>5. y \in Reasons
  BY DEF Reasons
<1> HIDE DEF s, y
<1>6. Onward(g, s)
  BY <1>1, Stays
<1>7. /\ Onward(s, m) /\ JobFits(m) /\ m.linkActive /\ ~m.updaterActive /\ ~m.mcuResultPending
      /\ m.step = g.step /\ (ok => m.step \in m.made)
  <2>1. CASE ~ok
    BY <1>1, <1>3, <2>1, Stays
  <2>2. CASE ok
    <3>1. g.step \in Steps
      BY <1>2 DEF Steps
    <3>2. /\ Onward(s, Made(s, g.step)) /\ g.step \in Made(s, g.step).made
          /\ FrameFits(s) => FrameFits(Made(s, g.step))
          /\ \A f \in GuiFields \ {"made"} : Made(s, g.step)[f] = s[f]
      BY <1>1, <3>1, MadeGoes
    <3>3. m = Made(s, g.step)
      BY <2>2
    <3> HIDE DEF m
    <3>4. \A f \in GuiFields \ {"made"} : m[f] = s[f]
      BY <3>2, <3>3
    <3>5. FrameFits(m)
      BY <1>3, <3>2, <3>3 DEF JobFits
    <3>6. PullFits(m) /\ FlashFits(m)
      BY <1>3, <3>4 DEF GuiFields, JobFits, PullFits, FlashFits
    <3>7. McuFits(m)
      <4>1. /\ m.cli = s.cli /\ m.op = s.op /\ m.step = s.step /\ m.asking = s.asking
            /\ m.linkActive = s.linkActive /\ m.updaterActive = s.updaterActive
            /\ m.mcuResultPending = s.mcuResultPending /\ m.link = s.link
        BY <3>4 DEF GuiFields
      <4> QED
        BY <1>3, <4>1 DEF JobFits, McuFits
    <3> QED
      BY <1>1, <1>3, <3>2, <3>3, <3>4, <3>5, <3>6, <3>7 DEF GuiFields, JobFits
  <2> QED
    BY <2>1, <2>2
<1> HIDE DEF m
<1>8. LET h == McuDone(m, ok, y)
      IN  Onward(m, h) /\ JobInv(h) /\ (~ok => h.step = m.step \/ Ended(h))
  BY <1>5, <1>7, McuDoneGoes DEF Onward
<1> QED
  BY <1>4, <1>6, <1>7, <1>8, KeepsOnward

-----------------------------------------------------------------------------
\* McuLink's open()
LEMMA OpenLinkGoes ==
    ASSUME NEW g, IsGui(g), Between(g), g.puller = "Idle", g.step \in {"mcu", "set-role"},
           ~g.cancelRequested
    PROVE  Onward(g, OpenLink(g)) /\ JobInv(OpenLink(g)) /\ OpenLink(g).step = g.step
<1> DEFINE l == IF g.link = "Closed" THEN "Opening" ELSE "Queued"
           h == OpenLink(g)
<1>1. l \in {"Opening", "Queued"}
  OBVIOUS
<1>2. h = [g EXCEPT !.linkActive = TRUE, !.mcuResultPending = FALSE, !.link = l]
  BY DEF OpenLink, IsGui, GuiFields
<1> HIDE DEF l, h
<1>3. /\ IsGui(h) /\ h.begun = g.begun /\ h.ssh = g.ssh /\ h.generation = g.generation
      /\ h.calls = g.calls /\ h.step = g.step
  BY <1>1, <1>2 DEF IsGui, GuiFields
<1>4. JobInv(h)
  BY <1>1, <1>2 DEF IsGui, GuiFields, Between, ToolsIdle, JobInv, JobFits, FrameFits, StepFits, ChainMade,
     ResultIsTrue, PullFits, FlashFits, McuFits, CancelFits, FlashPhases
<1> QED
  BY <1>3, <1>4, Stays DEF h

LEMMA StartMcuUpdateGoes ==
    ASSUME NEW g, IsGui(g), NEW stage \in {"mcu", "set-role"}, NEW way,
           Between([g EXCEPT !.step = stage]), g.puller = "Idle", ~g.cancelRequested
    PROVE  Onward(g, StartMcuUpdate(g, stage, way)) /\ JobInv(StartMcuUpdate(g, stage, way))
<1> DEFINE s == [g EXCEPT !.step = stage]
<1>1. /\ IsGui(s) /\ s.begun = g.begun /\ s.ssh = g.ssh /\ s.generation = g.generation
      /\ s.calls = g.calls /\ s.puller = "Idle" /\ s.step = stage /\ ~s.cancelRequested
  BY DEF IsGui, GuiFields, Steps
<1>2. Between(s)
  OBVIOUS
<1>3. StartMcuUpdate(g, stage, way) = CASE way = "refused" -> StepFailed(s, "failed")
                                       [] way = "asks" -> [s EXCEPT !.asking = TRUE]
                                       [] OTHER -> OpenLink(s)
  BY DEF StartMcuUpdate
<1> HIDE DEF s
<1>4. Onward(g, s) /\ "failed" \in Reasons
  BY <1>1, Stays DEF Reasons
<1>5. CASE way = "refused"
  BY <1>1, <1>2, <1>3, <1>4, <1>5, StepFailedGoes, KeepsOnward
<1>6. CASE way = "asks"
  BY <1>1, <1>2, <1>3, <1>4, <1>6, AsksGoes, KeepsOnward
<1>7. CASE way \notin {"refused", "asks"}
  BY <1>1, <1>2, <1>3, <1>4, <1>7, OpenLinkGoes, KeepsOnward
<1> QED
  BY <1>5, <1>6, <1>7

\* finishCli(), of a read of the MCU that is waited for
LEMMA FinishCliGoes ==
    ASSUME NEW g, IsGui(g), JobInv(g), g.cli # "none", NEW outcome, NEW way
    PROVE  LET h == FinishCli(g, outcome, way)
           IN  Onward(g, h) /\ JobInv(h) /\ (g.cancelRequested => Ended(h))
<1> DEFINE s == [g EXCEPT !.cli = "none"]
           h == FinishCli(g, outcome, way)
           silent == outcome = "silent" /\ g.cli = "version"
<1>1. /\ IsGui(s) /\ s.begun = g.begun /\ s.ssh = g.ssh /\ s.generation = g.generation
      /\ s.calls = g.calls /\ s.step = g.step /\ s.op = g.op /\ s.made = g.made
      /\ s.cancelRequested = g.cancelRequested
  BY DEF IsGui, GuiFields
<1>2. /\ g.op \in {"info", "pull-flash"} /\ g.step \in {"info", "mcu"}
      /\ ~g.asking /\ ~g.linkActive
  BY DEF JobInv, JobFits, McuFits
<1>3. Between(s) /\ s.puller = "Idle"
  <2>1. FrameFits(s)
    BY DEF IsGui, GuiFields, JobInv, JobFits, FrameFits, StepFits, ChainMade, ResultIsTrue
  <2>2. ToolsIdle(s)
    BY <1>2 DEF IsGui, GuiFields, JobInv, JobFits, FlashFits, McuFits, ToolsIdle
  <2>3. s.puller = "Idle" /\ ~s.pullerActive /\ s.pullPhase = "Idle"
    BY <1>2 DEF IsGui, GuiFields, JobInv, JobFits, PullFits
  <2>4. s.ssh # "Disconnected" => s.op = "pull-flash" /\ s.ssh = "Connected"
    BY <1>2 DEF IsGui, GuiFields, JobInv, JobFits, PullFits
  <2> QED
    BY <1>1, <1>2, <2>1, <2>2, <2>3, <2>4 DEF Between
<1> HIDE DEF s
<1>4. Onward(g, s) /\ {"failed", "cancelled", "done"} \subseteq Reasons
  BY <1>1, Stays DEF Reasons
<1>5. \A part \in {"info", "mcu"} :
          /\ Onward(s, Made(s, part)) /\ part \in Made(s, part).made
          /\ FrameFits(Made(s, part))
          /\ \A f \in GuiFields \ {"made"} : Made(s, part)[f] = s[f]
  <2>1. {"info", "mcu"} \subseteq Steps /\ FrameFits(s)
    BY <1>3 DEF Steps, Between
  <2> QED
    BY <1>1, <2>1, MadeGoes
<1>6. \A part \in {"info", "mcu"} : part = g.step =>
          LET e == StepFinished(Made(s, part), part, TRUE, "done", way)
          IN  Onward(s, e) /\ JobInv(e)
  <2> SUFFICES ASSUME NEW part \in {"info", "mcu"}, part = g.step
               PROVE  LET e == StepFinished(Made(s, part), part, TRUE, "done", way)
                      IN  Onward(s, e) /\ JobInv(e)
    OBVIOUS
  <2> DEFINE m == Made(s, part)
  <2>1. /\ Onward(s, m) /\ part \in m.made /\ FrameFits(m)
        /\ \A f \in GuiFields \ {"made"} : m[f] = s[f]
    BY <1>5
  <2> HIDE DEF m
  <2>2. Between(m) /\ m.puller = "Idle" /\ m.step = part
    BY <1>1, <1>3, <2>1 DEF GuiFields, Between, ToolsIdle
  <2>3. IsGui(m)
    BY <2>1 DEF Onward
  <2>4. Onward(m, StepFinished(m, part, TRUE, "done", way)) /\ JobInv(StepFinished(m, part, TRUE, "done", way))
    BY <1>4, <2>1, <2>2, <2>3, StepFinishedGoes
  <2> QED
    BY <2>1, <2>4, KeepsOnward DEF m
<1>7. Onward(s, StepFailed(s, "cancelled")) /\ JobInv(StepFailed(s, "cancelled")) /\ Ended(StepFailed(s, "cancelled"))
  BY <1>1, <1>3, <1>4, StepFailedGoes
<1>8. Onward(s, StepFailed(s, "failed")) /\ JobInv(StepFailed(s, "failed"))
  BY <1>1, <1>3, <1>4, StepFailedGoes
<1>9. CASE g.cancelRequested
  <2>1. h = StepFailed(s, "cancelled")
    BY <1>9 DEF FinishCli, s
  <2> QED
    BY <1>4, <1>7, <2>1, KeepsOnward
<1>10. CASE ~g.cancelRequested /\ g.op = "info" /\ outcome \in {"same", "older"}
  <2>1. h = StepFinished(Made(s, "info"), "info", TRUE, "done", way)
    BY <1>10 DEF FinishCli, s
  <2>2. g.step = "info"
    BY <1>10 DEF JobInv, JobFits, FrameFits, StepFits
  <2> QED
    BY <1>4, <1>6, <1>10, <2>1, <2>2, KeepsOnward
<1>11. g.op # "info" => g.step = "mcu"
  BY <1>2 DEF JobInv, JobFits, FrameFits, StepFits
<1>12. CASE ~g.cancelRequested /\ g.op # "info" /\ outcome = "same"
  <2>1. h = StepFinished(Made(s, "mcu"), "mcu", TRUE, "done", way)
    BY <1>12 DEF FinishCli, s
  <2> QED
    BY <1>4, <1>6, <1>11, <1>12, <2>1, KeepsOnward
<1>13. CASE ~g.cancelRequested /\ g.op # "info" /\ (outcome = "older" \/ silent)
  <2>1. h = StartMcuUpdate(s, "mcu", way)
    BY <1>13 DEF FinishCli, s
  <2>2. Between([s EXCEPT !.step = "mcu"])
    BY <1>1, <1>3, <1>11, <1>13 DEF IsGui, GuiFields, Between, ToolsIdle, FrameFits, StepFits, ChainMade, ResultIsTrue
  <2>3. Onward(s, StartMcuUpdate(s, "mcu", way)) /\ JobInv(StartMcuUpdate(s, "mcu", way))
    BY <1>1, <1>3, <1>13, <2>2, StartMcuUpdateGoes
  <2> QED
    BY <1>4, <1>13, <2>1, <2>3, KeepsOnward
<1>14. CASE /\ ~g.cancelRequested
            /\ ~(g.op = "info" /\ outcome \in {"same", "older"})
            /\ ~(g.op # "info" /\ outcome = "same")
            /\ ~(g.op # "info" /\ (outcome = "older" \/ silent))
  <2>1. h = StepFailed(s, "failed")
    BY <1>14 DEF FinishCli, s
  <2> QED
    BY <1>4, <1>8, <1>14, <2>1, KeepsOnward
<1> QED
  BY <1>9, <1>10, <1>12, <1>13, <1>14

-----------------------------------------------------------------------------
(* The slots of the owner.                                                 *)

\* Nothing runs, and nothing is connected.
Rests(g) ==
    /\ ToolsIdle(g) /\ ResultIsTrue(g)
    /\ g.pullPhase = "Idle" /\ ~g.pullerActive /\ g.puller = "Idle" /\ g.ssh = "Disconnected"

LEMMA RestsIfEnded ==
    ASSUME NEW g, IsGui(g), JobInv(g), g.op = "none"
    PROVE  Rests(g) /\ ~g.keepSsh /\ ~g.holds /\ ~g.cancelRequested /\ g.step = "none"
<1>1. FrameFits(g) /\ g.step = "none"
  BY DEF JobInv, JobFits, FrameFits, StepFits
<1>2. ToolsIdle(g)
  BY <1>1 DEF IsGui, JobInv, JobFits, FlashFits, McuFits, ToolsIdle
<1>3. g.pullPhase = "Idle" /\ ~g.pullerActive /\ g.puller = "Idle" /\ g.ssh = "Disconnected"
  BY <1>1 DEF IsGui, JobInv, JobFits, PullFits
<1> QED
  BY <1>1, <1>2, <1>3 DEF Rests, FrameFits

LEMMA StepSet ==
    ASSUME NEW g, IsGui(g), NEW stage \in Steps
    PROVE  LET s == [g EXCEPT !.step = stage]
           IN  IsGui(s) /\ s.step = stage /\ \A f \in GuiFields \ {"step"} : s[f] = g[f]
<1> DEFINE s == [g EXCEPT !.step = stage]
<1>1. DOMAIN s = GuiFields /\ s.step = stage /\ \A f \in GuiFields \ {"step"} : s[f] = g[f]
  BY DEF IsGui, GuiFields
<1> HIDE DEF s
<1>2. IsGui(s)
  BY <1>1 DEF IsGui, GuiFields
<1> QED
  BY <1>1, <1>2 DEF s

\* An operation that has begun goes on to its first step.
LEMMA FirstStep ==
    ASSUME NEW g, IsGui(g), Rests(g), g.op \in Operations, g.holds, g.begun # 0, ~g.cancelRequested,
           g.keepSsh => g.op = "pull-flash",
           NEW stage \in Steps, stage = g.op \/ (g.op = "pull-flash" /\ stage = "pull")
    PROVE  Between([g EXCEPT !.step = stage])
<1> DEFINE s == [g EXCEPT !.step = stage]
<1>1. \A f \in GuiFields \ {"step"} : s[f] = g[f]
  BY DEF IsGui
<1>2. s.step = stage
  BY DEF IsGui, GuiFields
<1> HIDE DEF s
<1>3. stage # "none" /\ stage # "pull-flash" /\ s.op # "none"
  BY <1>1 DEF Steps, Operations, GuiFields
<1>4. FrameFits(s)
  BY <1>1, <1>2, <1>3 DEF GuiFields, Rests, FrameFits, StepFits, ChainMade, ResultIsTrue, Needed
<1>5. ToolsIdle(s)
  BY <1>1 DEF GuiFields, Rests, ToolsIdle
<1>6. s.pullPhase = "Idle" /\ ~s.pullerActive /\ s.puller = "Idle" /\ s.ssh = "Disconnected"
  BY <1>1 DEF GuiFields, Rests
<1> QED
  BY <1>2, <1>3, <1>4, <1>5, <1>6 DEF Between, s

\* beginOperation(), and what the operation begins with
LEMMA StartOperationGoes ==
    ASSUME NEW g, IsGui(g), JobInv(g), g.op = "none", g.begun < MaxOperations,
           NEW job \in Operations, NEW way
    PROVE  LET h == StartOperation(g, job, way)
           IN  IsGui(h) /\ Keeps(g, h) /\ JobInv(h)
<1> DEFINE s == [g EXCEPT !.begun = @ + 1, !.op = job, !.step = "none", !.cancelRequested = FALSE]
           k == [s EXCEPT !.holds = TRUE]
           p == [k EXCEPT !.keepSsh = (job = "pull-flash")]
           h == StartOperation(g, job, way)
<1>1. Rests(g) /\ ~g.keepSsh
  BY RestsIfEnded
<1>2. g.begun + 1 \in 0..MaxOperations /\ g.begun + 1 # 0
  BY JobAssumption DEF IsGui
<1>3. /\ IsGui(s) /\ s.begun = g.begun + 1 /\ s.op = job /\ ~s.cancelRequested
      /\ \A f \in GuiFields \ {"begun", "op", "step", "cancelRequested"} : s[f] = g[f]
  BY <1>2 DEF IsGui, GuiFields
<1>4. h = IF lock = "other" THEN EndOperation(s, FALSE, "busy")
          ELSE CASE job \in {"pull", "pull-flash"} -> StartPull(p, way)
                 [] job = "flash" -> StartFlash(k, way)
                 [] job \in {"mcu", "set-role"} -> StartMcuUpdate(k, job, way)
                 [] job = "fleet-flash" -> StartFleet(k, way)
                 [] job = "info" -> StartMcuRead([k EXCEPT !.step = "info"])
  BY DEF StartOperation
<1> HIDE DEF s, h
<1>5. Rests(s) /\ ~s.keepSsh
  BY <1>1, <1>3 DEF GuiFields, Rests, ToolsIdle, ResultIsTrue
<1>6. Keeps(g, s)
  <2>1. /\ s.ssh = "Disconnected" /\ s.ssh = g.ssh /\ s.generation = g.generation /\ s.calls = g.calls
    BY <1>1, <1>3 DEF Rests, GuiFields
  <2> QED
    BY <2>1 DEF Keeps, QueueInv, CallsFit, AnswersFit, ConnectsFit, TransfersFit, Owned
<1>7. /\ IsGui(k) /\ k.op = job /\ k.holds /\ k.begun # 0 /\ ~k.cancelRequested /\ ~k.keepSsh
      /\ k.begun = s.begun /\ k.ssh = s.ssh /\ k.generation = s.generation /\ k.calls = s.calls
  BY <1>2, <1>3, <1>5 DEF IsGui, GuiFields
<1>8. Rests(k)
  BY <1>3, <1>5 DEF IsGui, GuiFields, Rests, ToolsIdle, ResultIsTrue
<1> HIDE DEF k
<1>9. /\ IsGui(p) /\ p.op = job /\ p.holds /\ p.begun # 0 /\ ~p.cancelRequested
      /\ p.keepSsh => job = "pull-flash"
      /\ p.begun = k.begun /\ p.ssh = k.ssh /\ p.generation = k.generation /\ p.calls = k.calls
  BY <1>7 DEF IsGui, GuiFields
<1>10. Rests(p)
  BY <1>7, <1>8 DEF IsGui, GuiFields, Rests, ToolsIdle, ResultIsTrue
<1> HIDE DEF p
<1>11. Onward(s, k) /\ Onward(k, p)
  BY <1>7, <1>9, Stays
<1>12. ASSUME NEW x, Onward(s, x), JobInv(x)
       PROVE  IsGui(x) /\ Keeps(g, x) /\ JobInv(x)
  BY <1>6, <1>12 DEF Onward, Keeps
<1>13. CASE lock = "other"
  <2>1. "busy" \in Reasons
    BY DEF Reasons
  <2>2. Onward(s, EndOperation(s, FALSE, "busy")) /\ JobInv(EndOperation(s, FALSE, "busy"))
    BY <1>3, <1>5, <2>1, EndGoes DEF Rests
  <2> QED
    BY <1>4, <1>12, <1>13, <2>2 DEF h
<1>14. CASE lock # "other" /\ job \in {"pull", "pull-flash"}
  <2>1. h = StartPull(p, way)
    BY <1>4, <1>14
  <2>2. Between([p EXCEPT !.step = "pull"])
    BY <1>9, <1>10, <1>14, FirstStep DEF Steps
  <2>3. Onward(p, StartPull(p, way)) /\ JobInv(StartPull(p, way))
    BY <1>9, <1>10, <1>14, <2>2, StartPullGoes DEF Rests
  <2> QED
    BY <1>11, <1>12, <2>1, <2>3, KeepsOnward DEF h
<1>15. CASE lock # "other" /\ job = "flash"
  <2>1. h = StartFlash(k, way)
    BY <1>4, <1>15
  <2>2. Between([k EXCEPT !.step = "flash"])
    BY <1>7, <1>8, <1>15, FirstStep DEF Steps
  <2>3. Onward(k, StartFlash(k, way)) /\ JobInv(StartFlash(k, way))
    BY <1>7, <1>8, <2>2, StartFlashGoes DEF Rests
  <2> QED
    BY <1>11, <1>12, <2>1, <2>3, KeepsOnward DEF h
<1>16. CASE lock # "other" /\ job \in {"mcu", "set-role"}
  <2>1. h = StartMcuUpdate(k, job, way)
    BY <1>4, <1>16
  <2>2. Between([k EXCEPT !.step = job])
    BY <1>7, <1>8, <1>16, FirstStep DEF Steps
  <2>3. Onward(k, StartMcuUpdate(k, job, way)) /\ JobInv(StartMcuUpdate(k, job, way))
    BY <1>7, <1>8, <1>16, <2>2, StartMcuUpdateGoes DEF Rests
  <2> QED
    BY <1>11, <1>12, <2>1, <2>3, KeepsOnward DEF h
<1>17. CASE lock # "other" /\ job = "fleet-flash"
  <2>1. h = StartFleet(k, way)
    BY <1>4, <1>17
  <2>2. Between([k EXCEPT !.step = "fleet-flash"])
    BY <1>7, <1>8, <1>17, FirstStep DEF Steps
  <2>3. Onward(k, StartFleet(k, way)) /\ JobInv(StartFleet(k, way))
    BY <1>7, <1>8, <2>2, StartFleetGoes DEF Rests
  <2> QED
    BY <1>11, <1>12, <2>1, <2>3, KeepsOnward DEF h
<1>18. CASE lock # "other" /\ job = "info"
  <2> DEFINE i == [k EXCEPT !.step = "info"]
  <2>1. h = StartMcuRead(i)
    BY <1>4, <1>18
  <2>2. Between(i)
    BY <1>7, <1>8, <1>18, FirstStep DEF Steps
  <2>3. /\ IsGui(i) /\ i.puller = "Idle" /\ i.op = "info" /\ i.step = "info"
        /\ i.begun = k.begun /\ i.ssh = k.ssh /\ i.generation = k.generation /\ i.calls = k.calls
    <3>1. "info" \in Steps /\ IsGui(k)
      BY <1>7 DEF Steps
    <3>2. IsGui(i) /\ i.step = "info" /\ \A f \in GuiFields \ {"step"} : i[f] = k[f]
      BY <3>1, StepSet
    <3> HIDE DEF i
    <3> QED
      BY <3>2, <1>7, <1>8, <1>18 DEF Rests, GuiFields
  <2> HIDE DEF i
  <2>4. Onward(k, i) /\ Onward(i, StartMcuRead(i)) /\ JobInv(StartMcuRead(i))
    BY <2>2, <2>3, Stays, StartMcuReadGoes
  <2> QED
    BY <1>11, <1>12, <2>1, <2>4, KeepsOnward DEF h
<1> QED
  BY <1>13, <1>14, <1>15, <1>16, <1>17, <1>18 DEF Operations

-----------------------------------------------------------------------------
\* cancel(): the step ends, or is left as a Cancel leaves it.
LEMMA CancelOperationGoes ==
    ASSUME NEW g, IsGui(g), JobInv(g), g.op # "none"
    PROVE  LET h == CancelOperation(g)
           IN  /\ Onward(g, h) /\ JobInv(h)
               /\ h.step = g.step \/ Ended(h)
               /\ g.step = "pull" => h.puller = "Download" \/ Ended(h)
<1> DEFINE s == [g EXCEPT !.cancelRequested = TRUE]
           h == CancelOperation(g)
           u == HangUp(s)
           f == FlasherCancel(s)
<1>1. /\ IsGui(s) /\ s.cancelRequested
      /\ \A x \in GuiFields \ {"cancelRequested"} : s[x] = g[x]
  BY DEF IsGui, GuiFields
<1>2. h = CASE g.op = "none" \/ (g.step = "flash" /\ ~g.flashCancellable) -> g
            [] g.op = "fleet-flash" -> [s EXCEPT !.fleet = IF @ = "Running" THEN "Draining" ELSE @]
            [] g.step = "pull" /\ g.pullPhase = "Connecting" -> SshDisconnected(u)
            [] g.step = "pull" /\ g.pullPhase # "Connecting" /\ g.pullerActive -> CancelPull(s)
            [] g.step = "flash" /\ g.flashCancellable -> SetTimer(f, "flashCancel")
            [] g.step \in {"mcu", "set-role"} /\ g.updaterActive -> UpdaterFinished(s, FALSE, "cancelled")
            [] g.step \in {"mcu", "set-role"} /\ ~g.updaterActive /\ g.cli = "none" /\ g.linkActive
                   /\ ~g.mcuResultPending -> McuDone(s, FALSE, "cancelled")
            [] OTHER -> s
  BY DEF CancelOperation
<1> HIDE DEF s, h, f
<1>3. Onward(g, s) /\ s.step = g.step
  BY <1>1, Stays DEF GuiFields
<1>4. JobFits(s)
  <2>1. FrameFits(s)
    BY <1>1 DEF GuiFields, JobInv, JobFits, FrameFits, StepFits, ChainMade, ResultIsTrue
  <2>2. PullFits(s) /\ FlashFits(s) /\ McuFits(s)
    BY <1>1 DEF GuiFields, JobInv, JobFits, PullFits, FlashFits, McuFits
  <2> QED
    BY <2>1, <2>2 DEF JobFits
<1>5. FrameFits(g) /\ StepFits(g) /\ PullFits(g) /\ FlashFits(g) /\ McuFits(g) /\ g.begun # 0
  BY DEF JobInv, JobFits, FrameFits
<1>6. "cancelled" \in Reasons
  BY DEF Reasons
<1>7. CASE g.step = "flash" /\ ~g.flashCancellable
  <2>1. h = g
    BY <1>2, <1>5, <1>7 DEF StepFits
  <2> QED
    BY <1>7, <2>1, Stays DEF h
<1>8. CASE g.op = "fleet-flash"
  <2> DEFINE x == IF s.fleet = "Running" THEN "Draining" ELSE s.fleet
             k == [s EXCEPT !.fleet = x]
  <2>1. h = k
    BY <1>1, <1>2, <1>5, <1>8 DEF IsGui, GuiFields, StepFits
  <2>2. x \in {"Idle", "Refused", "Running", "Draining"} /\ (x # "Idle" <=> s.fleet # "Idle")
    BY <1>1 DEF IsGui
  <2> HIDE DEF x
  <2>3. /\ IsGui(k) /\ k.begun = s.begun /\ k.ssh = s.ssh /\ k.generation = s.generation
        /\ k.calls = s.calls /\ k.step = s.step
    <3>1. IsGui(s) /\ x \in {"Idle", "Refused", "Running", "Draining"}
      BY <1>1, <2>2
    <3> QED
      BY <3>1 DEF IsGui, GuiFields
  <2>4. s.step = "fleet-flash"
    BY <1>3, <1>5, <1>8 DEF StepFits
  <2>5. JobInv(k)
    BY <1>1, <1>4, <2>2, <2>4 DEF IsGui, GuiFields, JobInv, JobFits, FrameFits, StepFits, ChainMade,
       ResultIsTrue, PullFits, FlashFits, McuFits, CancelFits
  <2> QED
    BY <1>3, <2>1, <2>3, <2>4, <2>5, Stays, KeepsOnward DEF h
<1>9. CASE g.step = "pull" /\ g.pullPhase = "Connecting"
  <2> DEFINE d == [u EXCEPT !.ssh = "Disconnected"]
  <2>1. h = SshDisconnected(u)
    BY <1>2, <1>5, <1>9 DEF StepFits
  <2>2. /\ Onward(s, u) /\ JobSame(s, u) /\ u.ssh = "Disconnected" /\ u.puller = "Idle"
        /\ u.pullPhase = "Connecting"
    BY <1>1, <1>9, HangUpGoes DEF GuiFields
  <2>3. FrameFits(u) /\ ToolsIdle(u) /\ u.op \in {"pull", "pull-flash"} /\ u.step = "pull" /\ ~u.pullerActive
    <3>1. FrameFits(u)
      BY <1>4, <2>2 DEF JobFits, JobSame, FrameFits, StepFits, ChainMade, ResultIsTrue
    <3>2. ToolsIdle(s)
      BY <1>1, <1>5, <1>9 DEF IsGui, GuiFields, FlashFits, McuFits, ToolsIdle
    <3>3. ToolsIdle(u)
      BY <2>2, <3>2 DEF JobSame, ToolsIdle
    <3>4. s.op \in {"pull", "pull-flash"} /\ s.step = "pull" /\ ~s.pullerActive
      BY <1>1, <1>5, <1>9 DEF IsGui, GuiFields, PullFits, StepFits, Operations
    <3> QED
      BY <2>2, <3>1, <3>3, <3>4 DEF JobSame
  <2> HIDE DEF u
  <2>4. IsGui(u)
    BY <2>2 DEF Onward
  <2>5. Onward(d, SshDisconnected(u)) /\ JobInv(SshDisconnected(u)) /\ Ended(SshDisconnected(u))
    BY <2>2, <2>3, <2>4, DisconnectedUnderPull
  <2>6. Onward(u, d)
    <3>1. IsGui(d) /\ d.begun = u.begun /\ d.ssh = u.ssh /\ d.generation = u.generation /\ d.calls = u.calls
      BY <2>2, <2>4 DEF IsGui, GuiFields
    <3> QED
      BY <3>1, Stays
  <2> HIDE DEF d
  <2> QED
    BY <1>3, <2>1, <2>2, <2>5, <2>6, KeepsOnward DEF h
<1>10. CASE g.step = "pull" /\ g.pullPhase # "Connecting"
  <2> DEFINE c == PullerCancel(s)
  <2>1. g.pullerActive
    BY <1>5, <1>10 DEF IsGui, PullFits
  <2>2. h = SetTimer(c, "pullCancel")
    BY <1>2, <1>5, <1>10, <2>1 DEF StepFits, CancelPull
  <2>3. s.pullerActive /\ s.begun = g.begun
    BY <1>1, <2>1 DEF GuiFields
  <2>4. Onward(s, c) /\ JobInv(c) /\ ((c.step = "pull" /\ c.puller = "Download") \/ Ended(c))
    BY <1>1, <1>4, <2>3, PullerCancelGoes
  <2> HIDE DEF c
  <2>5. IsGui(c) /\ c.begun # 0
    BY <1>5, <2>3, <2>4 DEF Onward
  <2>6. /\ Onward(c, h) /\ JobInv(h) /\ h.op = c.op /\ h.step = c.step /\ h.last = c.last
    BY <2>2, <2>4, <2>5, SetTimerGoes
  <2>7. h.puller = c.puller
    BY <2>2, <2>5 DEF SetTimer, IsGui, GuiFields
  <2> QED
    BY <1>3, <1>10, <2>4, <2>6, <2>7, KeepsOnward DEF h, Ended
<1>11. CASE g.step = "flash" /\ g.flashCancellable
  <2>1. h = SetTimer(f, "flashCancel")
    BY <1>2, <1>5, <1>11 DEF StepFits
  <2>2. Onward(s, f) /\ JobInv(f) /\ (f.step = s.step \/ Ended(f))
    <3>1. CASE s.flasher \in FlashPhases \ {"Flashing"}
      <4>1. f = FlasherEndFlow(s, FALSE, "cancelled", "goes")
        BY <3>1 DEF FlasherCancel, f
      <4>2. s.flasherActive
        BY <1>4, <3>1 DEF JobFits, FlashFits
      <4> QED
        BY <1>1, <1>4, <1>6, <4>1, <4>2, FlasherEndFlowGoes
    <3>2. CASE s.flasher \notin FlashPhases \ {"Flashing"}
      <4>1. f = s
        BY <3>2 DEF FlasherCancel, f
      <4>2. s.flasher \notin FlashPhases
        BY <1>1, <1>5, <1>11, <3>2 DEF GuiFields, FlashFits
      <4>3. CancelFits(s)
        BY <1>3, <1>4, <1>11, <4>2 DEF JobFits, McuFits, CancelFits
      <4> QED
        BY <1>1, <1>4, <4>1, <4>3, Stays DEF JobInv
    <3> QED
      BY <3>1, <3>2
  <2>3. IsGui(f) /\ f.begun # 0
    BY <1>1, <1>5, <2>2 DEF Onward, GuiFields
  <2>4. /\ Onward(f, h) /\ JobInv(h) /\ h.op = f.op /\ h.step = f.step /\ h.last = f.last
    BY <2>1, <2>2, <2>3, SetTimerGoes
  <2> QED
    BY <1>3, <1>11, <2>2, <2>4, KeepsOnward DEF h, Ended
<1>12. CASE g.step \in {"mcu", "set-role"} /\ g.updaterActive
  <2>1. h = UpdaterFinished(s, FALSE, "cancelled")
    BY <1>2, <1>5, <1>12 DEF StepFits
  <2>2. s.updaterActive
    BY <1>1, <1>12 DEF GuiFields
  <2>3. Onward(s, h) /\ JobInv(h) /\ (h.step = s.step \/ Ended(h))
    BY <1>1, <1>4, <1>6, <2>1, <2>2, UpdaterFinishedGoes
  <2> QED
    BY <1>3, <1>12, <2>3, KeepsOnward DEF h
<1>13. CASE /\ g.step \in {"mcu", "set-role"} /\ ~g.updaterActive /\ g.cli = "none" /\ g.linkActive
            /\ ~g.mcuResultPending
  <2>1. h = McuDone(s, FALSE, "cancelled")
    BY <1>2, <1>5, <1>13 DEF StepFits
  <2>2. s.linkActive /\ ~s.updaterActive /\ ~s.mcuResultPending
    BY <1>1, <1>13 DEF GuiFields
  <2>3. Onward(s, h) /\ JobInv(h) /\ (h.step = s.step \/ Ended(h))
    BY <1>1, <1>4, <1>6, <2>1, <2>2, McuDoneGoes
  <2> QED
    BY <1>3, <1>13, <2>3, KeepsOnward DEF h
<1>14. CASE /\ g.step \notin {"pull", "flash"} /\ g.op # "fleet-flash"
            /\ ~(g.step \in {"mcu", "set-role"} /\ g.updaterActive)
            /\ ~(g.step \in {"mcu", "set-role"} /\ ~g.updaterActive /\ g.cli = "none" /\ g.linkActive
                     /\ ~g.mcuResultPending)
  <2>1. h = s
    BY <1>2, <1>14
  <2>2. g.linkActive => g.mcuResultPending
    BY <1>5, <1>14 DEF McuFits
  <2>3. CancelFits(s)
    BY <1>1, <1>14, <2>2 DEF GuiFields, CancelFits
  <2> QED
    BY <1>3, <1>4, <1>14, <2>1, <2>3 DEF JobInv, h
<1> QED
  BY <1>7, <1>8, <1>9, <1>10, <1>11, <1>12, <1>13, <1>14 DEF IsGui

\* disconnectSource(): the pull ends with its connection.
LEMMA DisconnectGoes ==
    ASSUME NEW g, IsGui(g), JobInv(g)
    PROVE  LET h == Disconnect(g)
           IN  Onward(g, h) /\ JobInv(h) /\ (h.step = g.step \/ Ended(h))
<1> DEFINE c == IF g.step = "pull" THEN CancelOperation(g) ELSE g
           s == [c EXCEPT !.keepSsh = FALSE]
           h == Disconnect(g)
<1>1. h = IF s.pullerActive THEN CloseUnderPull(s) ELSE CloseSsh(s)
  BY DEF Disconnect
<1>2. /\ Onward(g, c) /\ JobInv(c) /\ (c.step = g.step \/ Ended(c))
      /\ c.step = "pull" => c.puller = "Download"
  <2>1. CASE g.step = "pull"
    <3>1. g.op # "none"
      BY <2>1 DEF JobInv, JobFits, FrameFits, StepFits
    <3>2. /\ Onward(g, c) /\ JobInv(c) /\ (c.step = g.step \/ Ended(c))
          /\ c.puller = "Download" \/ Ended(c)
      BY <2>1, <3>1, CancelOperationGoes
    <3>3. Ended(c) => c.step = "none"
      BY <3>2 DEF Ended, JobInv, JobFits, FrameFits, StepFits
    <3> QED
      BY <3>2, <3>3
  <2>2. CASE g.step # "pull"
    BY <2>2, Stays
  <2> QED
    BY <2>1, <2>2
<1> HIDE DEF c
<1>3. IsGui(c)
  BY <1>2 DEF Onward
<1>4. /\ IsGui(s) /\ ~s.keepSsh /\ \A x \in GuiFields \ {"keepSsh"} : s[x] = c[x]
  BY <1>3 DEF IsGui, GuiFields
<1> HIDE DEF s, h
<1>5. Onward(c, s)
  BY <1>4, Stays DEF GuiFields
<1>6. JobFits(s) /\ CancelFits(s)
  <2>1. FrameFits(s)
    BY <1>2, <1>4 DEF GuiFields, JobInv, JobFits, FrameFits, StepFits, ChainMade, ResultIsTrue
  <2>2. PullFits(s) /\ FlashFits(s) /\ McuFits(s) /\ CancelFits(s)
    BY <1>2, <1>4 DEF GuiFields, JobInv, JobFits, PullFits, FlashFits, McuFits, CancelFits
  <2> QED
    BY <2>1, <2>2 DEF JobFits
<1>7. CASE s.pullerActive
  <2>1. Onward(s, h) /\ JobInv(h) /\ Ended(h)
    BY <1>1, <1>4, <1>6, <1>7, CloseUnderPullGoes
  <2> QED
    BY <1>2, <1>5, <2>1, KeepsOnward DEF h
<1>8. CASE ~s.pullerActive
  <2>1. s.step # "pull" /\ s.pullPhase = "Idle" /\ s.puller = "Idle"
    <3>1. s.step # "pull"
      BY <1>2, <1>4, <1>6, <1>8 DEF GuiFields, JobFits, PullFits
    <3> QED
      BY <1>4, <1>6, <1>8, <3>1 DEF IsGui, JobFits, PullFits
  <2>2. h = CloseSsh(s)
    BY <1>1, <1>8
  <2>3. /\ Onward(s, h) /\ JobSame(s, h) /\ h.ssh = "Disconnected" /\ h.pullPhase = "Idle"
        /\ h.puller = "Idle"
    BY <1>4, <2>1, <2>2, CloseSshGoes
  <2>4. JobInv(h)
    <3>1. FrameFits(h) /\ FlashFits(h) /\ McuFits(h)
      BY <1>6, <2>3 DEF JobSame, JobFits, FrameFits, StepFits, ChainMade, ResultIsTrue, FlashFits, McuFits
    <3>2. PullFits(h) /\ CancelFits(h)
      BY <1>6, <1>8, <2>1, <2>3 DEF JobSame, JobFits, PullFits, CancelFits
    <3> QED
      BY <3>1, <3>2 DEF JobInv, JobFits
  <2>5. h.step = g.step \/ Ended(h)
    BY <1>2, <1>4, <2>3 DEF GuiFields, JobSame, Ended
  <2> QED
    BY <1>2, <1>5, <2>3, <2>4, <2>5, KeepsOnward DEF h
<1> QED
  BY <1>7, <1>8

-----------------------------------------------------------------------------
(* What fires, and what reports.                                           *)

\* The slot of a single shot, of this operation or of an earlier one
LEMMA TimerFiresGoes ==
    ASSUME NEW g, IsGui(g), JobInv(g), NEW t
    PROVE  LET h == TimerFires(g, t) IN Onward(g, h) /\ JobInv(h) /\ Obeys(g, h)
<1> DEFINE ts == g.timers \ {t}
           s == [g EXCEPT !.timers = ts]
           h == TimerFires(g, t)
           why == IF t.kind = "flashCancel" THEN "cancelled" ELSE "failed"
<1>1. ts \in SUBSET Timers
  BY DEF IsGui
<1>2. h = CASE t.kind = "pullCancel" /\ g.pullerActive -> PullFinished(s, FALSE, "cancelled", "goes")
            [] t.kind = "dropped" /\ g.pullerActive /\ g.ssh = "Disconnected" ->
                   PullFinished(PullerCancel(s), FALSE, "failed", "goes")
            [] t.kind \in {"flashStart", "flashCancel"} /\ g.flasher \notin FlashPhases ->
                   FlashFinished(s, FALSE, why, "goes")
            [] t.kind = "linkClose" -> CompleteMcu(s)
            [] OTHER -> s
  BY DEF TimerFires, IsGui, GuiFields
<1> HIDE DEF ts, h
<1>3. IsGui(s) /\ \A x \in GuiFields \ {"timers"} : s[x] = g[x]
  BY <1>1 DEF IsGui, GuiFields
<1>4. {"failed", "cancelled"} \subseteq Reasons
  BY DEF Reasons
<1> HIDE DEF s
<1>5. Onward(g, s)
  BY <1>3, Stays DEF GuiFields
<1>6. JobFits(s) /\ CancelFits(s)
  <2>1. FrameFits(s)
    BY <1>3 DEF GuiFields, JobInv, JobFits, FrameFits, StepFits, ChainMade, ResultIsTrue
  <2>2. PullFits(s) /\ FlashFits(s) /\ McuFits(s) /\ CancelFits(s)
    BY <1>3 DEF GuiFields, JobInv, JobFits, PullFits, FlashFits, McuFits, CancelFits
  <2> QED
    BY <2>1, <2>2 DEF JobFits
<1>7. s.step = g.step /\ s.mcuResultPending = g.mcuResultPending /\ s.flasherActive = g.flasherActive
      /\ s.pullerActive = g.pullerActive /\ s.flasher = g.flasher
  BY <1>3 DEF GuiFields
<1>8. g.pullerActive => g.ssh = "Connected"
  BY PullRunsIfActive DEF JobInv
<1>9. CASE t.kind = "pullCancel" /\ g.pullerActive
  <2>1. h = PullFinished(s, FALSE, "cancelled", "goes")
    BY <1>2, <1>9
  <2>2. PullRuns(s) /\ s.ssh = "Connected"
    BY <1>3, <1>6, <1>7, <1>9, PullRunsIfActive
  <2>3. Onward(s, h) /\ JobInv(h) /\ Ended(h)
    BY <1>3, <1>4, <2>1, <2>2, PullFinishedGoes
  <2> QED
    BY <1>5, <2>3, KeepsOnward DEF h, Obeys
<1>10. CASE t.kind \in {"flashStart", "flashCancel"} /\ g.flasher \notin FlashPhases
  <2>1. h = FlashFinished(s, FALSE, why, "goes")
    BY <1>2, <1>10
  <2>2. CASE g.flasherActive
    <3>1. Onward(s, h) /\ JobInv(h) /\ Ended(h)
      BY <1>3, <1>4, <1>6, <1>7, <1>10, <2>1, <2>2, FlashFinishedGoes
    <3> QED
      BY <1>5, <3>1, KeepsOnward DEF h, Obeys
  <2>3. CASE ~g.flasherActive
    <3>1. h = s
      BY <1>7, <2>1, <2>3 DEF FlashFinished
    <3> QED
      BY <1>5, <1>6, <1>7, <3>1 DEF h, Obeys, JobInv
  <2> QED
    BY <2>2, <2>3
<1>11. CASE t.kind = "linkClose"
  <2>1. h = CompleteMcu(s)
    BY <1>2, <1>11
  <2>2. CASE g.mcuResultPending
    <3>1. Onward(s, h) /\ JobInv(h)
      BY <1>3, <1>6, <1>7, <2>1, <2>2, McuWaitsIfPending, CompleteGoes
    <3> QED
      BY <1>5, <2>2, <3>1, KeepsOnward DEF h, Obeys
  <2>3. CASE ~g.mcuResultPending
    <3>1. h = s
      BY <1>7, <2>1, <2>3 DEF CompleteMcu
    <3> QED
      BY <1>5, <1>6, <1>7, <3>1 DEF h, Obeys, JobInv
  <2> QED
    BY <2>2, <2>3
<1>12. CASE /\ ~(t.kind = "pullCancel" /\ g.pullerActive)
            /\ ~(t.kind \in {"flashStart", "flashCancel"} /\ g.flasher \notin FlashPhases)
            /\ t.kind # "linkClose"
  <2>1. h = s
    BY <1>2, <1>8, <1>12
  <2> QED
    BY <1>5, <1>6, <1>7, <2>1 DEF h, Obeys, JobInv
<1> QED
  BY <1>9, <1>10, <1>11, <1>12

\* The fleet ends, with its result if it is waited for.
LEMMA FleetEndsGoes ==
    ASSUME NEW g, IsGui(g), JobInv(g), g.fleet # "Idle", NEW ok \in BOOLEAN
    PROVE  LET s == [g EXCEPT !.fleet = "Idle", !.fleetActive = FALSE]
               h == IF ok THEN StepFinished(Made(s, "fleet-flash"), "fleet-flash", TRUE, "done", "goes")
                    ELSE StepFailed(s, "failed")
           IN  Onward(g, h) /\ JobInv(h) /\ g.fleetActive /\ (~ok => Ended(h))
<1> DEFINE s == [g EXCEPT !.fleet = "Idle", !.fleetActive = FALSE]
           m == Made(s, "fleet-flash")
<1>1. g.fleetActive /\ g.step = "fleet-flash" /\ ~g.asking
  BY DEF JobInv, JobFits, FlashFits
<1>2. /\ IsGui(s) /\ \A x \in GuiFields \ {"fleet", "fleetActive"} : s[x] = g[x]
      /\ s.fleet = "Idle" /\ ~s.fleetActive
  <2>1. IsGui(s)
    BY DEF IsGui, GuiFields
  <2>2. \A x \in GuiFields \ {"fleet", "fleetActive"} : s[x] = g[x]
    BY DEF IsGui
  <2>3. s.fleet = "Idle" /\ ~s.fleetActive
    BY DEF IsGui, GuiFields
  <2> QED
    BY <2>1, <2>2, <2>3
<1> HIDE DEF s
<1>3. Between(s) /\ s.puller = "Idle"
  <2>1. FrameFits(s)
    BY <1>2 DEF GuiFields, JobInv, JobFits, FrameFits, StepFits, ChainMade, ResultIsTrue
  <2>2. ToolsIdle(s)
    BY <1>1, <1>2 DEF IsGui, GuiFields, JobInv, JobFits, FlashFits, McuFits, ToolsIdle
  <2>3. /\ s.puller = "Idle" /\ ~s.pullerActive /\ s.pullPhase = "Idle"
        /\ s.ssh # "Disconnected" => s.op = "pull-flash" /\ s.ssh = "Connected"
    BY <1>1, <1>2 DEF IsGui, GuiFields, JobInv, JobFits, FrameFits, StepFits, PullFits
  <2>4. s.op # "none" /\ s.step # "none"
    BY <1>1, <1>2 DEF GuiFields, JobInv, JobFits, FrameFits, StepFits
  <2> QED
    BY <2>1, <2>2, <2>3, <2>4 DEF Between
<1>4. Onward(g, s)
  BY <1>2, Stays DEF GuiFields
<1>5. "fleet-flash" \in Steps /\ {"done", "failed"} \subseteq Reasons
  BY DEF Steps, Reasons
<1>6. /\ Onward(s, m) /\ "fleet-flash" \in m.made /\ FrameFits(m)
      /\ \A f \in GuiFields \ {"made"} : m[f] = s[f]
  BY <1>2, <1>3, <1>5, MadeGoes DEF Between
<1> HIDE DEF m
<1>7. IsGui(m) /\ Between(m) /\ m.puller = "Idle" /\ m.step = "fleet-flash"
  BY <1>1, <1>2, <1>3, <1>6 DEF Onward, GuiFields, Between, ToolsIdle
<1>8. CASE ok
  <2>1. /\ Onward(m, StepFinished(m, "fleet-flash", TRUE, "done", "goes"))
        /\ JobInv(StepFinished(m, "fleet-flash", TRUE, "done", "goes"))
    BY <1>5, <1>6, <1>7, StepFinishedGoes
  <2> QED
    BY <1>1, <1>4, <1>6, <1>8, <2>1, KeepsOnward DEF m, s
<1>9. CASE ~ok
  <2>1. Onward(s, StepFailed(s, "failed")) /\ JobInv(StepFailed(s, "failed")) /\ Ended(StepFailed(s, "failed"))
    BY <1>2, <1>3, <1>5, StepFailedGoes
  <2> QED
    BY <1>1, <1>4, <1>9, <2>1, KeepsOnward DEF s
<1> QED
  BY <1>8, <1>9

\* The owner answers, where the step waits for it.
LEMMA AnswerGoes ==
    ASSUME NEW g, IsGui(g), JobInv(g), g.asking, NEW allowed \in BOOLEAN, NEW way
    PROVE  LET s == [g EXCEPT !.asking = FALSE]
               h == IF g.cancelRequested \/ ~allowed
                    THEN StepFailed(s, IF g.cancelRequested THEN "cancelled" ELSE "failed")
                    ELSE IF g.step = "fleet-flash" THEN RunFleet(s, way) ELSE OpenLink(s)
           IN  Onward(g, h) /\ JobInv(h) /\ Obeys(g, h)
<1> DEFINE s == [g EXCEPT !.asking = FALSE]
           why == IF g.cancelRequested THEN "cancelled" ELSE "failed"
<1>1. g.step \in {"mcu", "set-role", "fleet-flash"} /\ ~g.linkActive /\ g.cli = "none" /\ ~g.fleetActive
  BY DEF JobInv, JobFits, McuFits, FlashFits
<1>2. IsGui(s) /\ ~s.asking /\ \A x \in GuiFields \ {"asking"} : s[x] = g[x]
  BY DEF IsGui, GuiFields
<1> HIDE DEF s
<1>3. Between(s) /\ s.puller = "Idle"
  <2>1. FrameFits(s)
    BY <1>2 DEF GuiFields, JobInv, JobFits, FrameFits, StepFits, ChainMade, ResultIsTrue
  <2>2. ToolsIdle(s)
    BY <1>1, <1>2 DEF IsGui, GuiFields, JobInv, JobFits, FlashFits, McuFits, ToolsIdle
  <2>3. /\ s.puller = "Idle" /\ ~s.pullerActive /\ s.pullPhase = "Idle"
        /\ s.ssh # "Disconnected" => s.op = "pull-flash" /\ s.ssh = "Connected"
    BY <1>1, <1>2 DEF IsGui, GuiFields, JobInv, JobFits, FrameFits, StepFits, PullFits
  <2>4. s.op # "none" /\ s.step # "none"
    BY <1>1, <1>2 DEF GuiFields, JobInv, JobFits, FrameFits, StepFits
  <2> QED
    BY <2>1, <2>2, <2>3, <2>4 DEF Between
<1>4. Onward(g, s) /\ s.step = g.step /\ s.cancelRequested = g.cancelRequested
  BY <1>2, Stays DEF GuiFields
<1>5. why \in Reasons
  BY DEF Reasons
<1>6. CASE g.cancelRequested \/ ~allowed
  <2>1. Onward(s, StepFailed(s, why)) /\ JobInv(StepFailed(s, why)) /\ Ended(StepFailed(s, why))
    BY <1>2, <1>3, <1>5, StepFailedGoes
  <2> QED
    BY <1>4, <1>6, <2>1, KeepsOnward DEF s, Obeys
<1>7. CASE ~(g.cancelRequested \/ ~allowed) /\ g.step = "fleet-flash"
  <2>1. Onward(s, RunFleet(s, way)) /\ JobInv(RunFleet(s, way))
    BY <1>2, <1>3, <1>4, <1>7, RunFleetGoes
  <2> QED
    BY <1>4, <1>7, <2>1, KeepsOnward DEF s, Obeys
<1>8. CASE ~(g.cancelRequested \/ ~allowed) /\ g.step # "fleet-flash"
  <2>1. Onward(s, OpenLink(s)) /\ JobInv(OpenLink(s))
    BY <1>1, <1>2, <1>3, <1>4, <1>8, OpenLinkGoes
  <2> QED
    BY <1>4, <1>8, <2>1, KeepsOnward DEF s, Obeys
<1> QED
  BY <1>6, <1>7, <1>8

\* The read of the MCU goes on to its next command.
LEMMA CliGoesOn ==
    ASSUME NEW g, IsGui(g), JobInv(g), g.cli # "none"
    PROVE  LET h == [g EXCEPT !.cli = IF @ = "stop" THEN "version" ELSE "help"]
           IN  Onward(g, h) /\ JobInv(h) /\ Obeys(g, h)
<1> DEFINE c == IF g.cli = "stop" THEN "version" ELSE "help"
           h == [g EXCEPT !.cli = c]
<1>1. c \in {"version", "help"}
  OBVIOUS
<1> HIDE DEF c
<1>2. /\ IsGui(h) /\ h.begun = g.begun /\ h.ssh = g.ssh /\ h.generation = g.generation
      /\ h.calls = g.calls /\ h.step = g.step
  BY <1>1 DEF IsGui, GuiFields
<1>3. JobInv(h)
  BY <1>1 DEF IsGui, GuiFields, JobInv, JobFits, FrameFits, StepFits, ChainMade, ResultIsTrue,
     PullFits, FlashFits, McuFits, CancelFits
<1>4. h = [g EXCEPT !.cli = IF @ = "stop" THEN "version" ELSE "help"]
  BY DEF c, IsGui, GuiFields
<1> QED
  BY <1>2, <1>3, <1>4, Stays DEF Obeys

\* opened(): onLinkOpened()
LEMMA LinkOpensGoes ==
    ASSUME NEW g, IsGui(g), JobInv(g), g.link = "Opening"
    PROVE  LET s == [g EXCEPT !.link = "Open"]
               h == IF ~s.linkActive \/ s.updaterActive \/ s.mcuResultPending THEN s
                    ELSE [s EXCEPT !.updaterActive = TRUE]
           IN  Onward(g, h) /\ JobInv(h) /\ Obeys(g, h)
<1> DEFINE s == [g EXCEPT !.link = "Open"]
           h == [s EXCEPT !.updaterActive = TRUE]
<1>1. g.linkActive /\ ~g.mcuResultPending /\ ~g.updaterActive /\ ~g.cancelRequested
  BY DEF JobInv, JobFits, McuFits, CancelFits
<1>2. s.linkActive /\ ~s.mcuResultPending /\ ~s.updaterActive
  BY <1>1 DEF IsGui, GuiFields
<1>3. /\ IsGui(h) /\ h.begun = g.begun /\ h.ssh = g.ssh /\ h.generation = g.generation
      /\ h.calls = g.calls /\ h.step = g.step
  BY DEF IsGui, GuiFields
<1>4. JobInv(h)
  BY <1>1 DEF IsGui, GuiFields, JobInv, JobFits, FrameFits, StepFits, ChainMade, ResultIsTrue,
     PullFits, FlashFits, McuFits, CancelFits
<1> QED
  BY <1>2, <1>3, <1>4, Stays DEF Obeys

\* failed() of the link: the operation ends, while the link cleans up.
LEMMA LinkFailsGoes ==
    ASSUME NEW g, IsGui(g), JobInv(g), g.link = "Opening"
    PROVE  LET s == [g EXCEPT !.link = "Closing"]
               h == IF s.linkActive /\ ~s.updaterActive /\ ~s.mcuResultPending
                    THEN StepFailed([s EXCEPT !.linkActive = FALSE], "failed") ELSE s
           IN  Onward(g, h) /\ JobInv(h) /\ Ended(h)
<1> DEFINE s == [g EXCEPT !.link = "Closing"]
           k == [s EXCEPT !.linkActive = FALSE]
<1>1. g.linkActive /\ ~g.mcuResultPending /\ ~g.updaterActive /\ g.step \in {"mcu", "set-role"}
  BY DEF JobInv, JobFits, McuFits
<1>2. s.linkActive /\ ~s.mcuResultPending /\ ~s.updaterActive
  BY <1>1 DEF IsGui, GuiFields
<1>3. /\ IsGui(k) /\ k.link = "Closing" /\ ~k.linkActive
      /\ \A x \in GuiFields \ {"link", "linkActive"} : k[x] = g[x]
  BY DEF IsGui, GuiFields
<1> HIDE DEF k
<1>4. Between(k)
  <2>1. FrameFits(k)
    BY <1>3 DEF GuiFields, JobInv, JobFits, FrameFits, StepFits, ChainMade, ResultIsTrue
  <2>2. ToolsIdle(k)
    BY <1>1, <1>3 DEF IsGui, GuiFields, JobInv, JobFits, FlashFits, McuFits, ToolsIdle
  <2>3. /\ k.puller = "Idle" /\ ~k.pullerActive /\ k.pullPhase = "Idle"
        /\ k.ssh # "Disconnected" => k.op = "pull-flash" /\ k.ssh = "Connected"
    BY <1>1, <1>3 DEF IsGui, GuiFields, JobInv, JobFits, FrameFits, StepFits, PullFits
  <2>4. k.op # "none" /\ k.step # "none"
    BY <1>1, <1>3 DEF GuiFields, JobInv, JobFits, FrameFits, StepFits
  <2> QED
    BY <2>1, <2>2, <2>3, <2>4 DEF Between
<1>5. Onward(g, k) /\ "failed" \in Reasons
  BY <1>3, Stays DEF GuiFields, Reasons
<1>6. Onward(k, StepFailed(k, "failed")) /\ JobInv(StepFailed(k, "failed")) /\ Ended(StepFailed(k, "failed"))
  BY <1>3, <1>4, <1>5, StepFailedGoes
<1> QED
  BY <1>2, <1>5, <1>6, KeepsOnward DEF k

\* linkLost()
LEMMA LinkIsLostGoes ==
    ASSUME NEW g, IsGui(g), JobInv(g), g.link = "Open"
    PROVE  LET h == [g EXCEPT !.link = "Closing"] IN Onward(g, h) /\ JobInv(h) /\ Obeys(g, h)
<1> DEFINE h == [g EXCEPT !.link = "Closing"]
<1>1. /\ IsGui(h) /\ h.begun = g.begun /\ h.ssh = g.ssh /\ h.generation = g.generation
      /\ h.calls = g.calls /\ h.step = g.step
  BY DEF IsGui, GuiFields
<1>2. JobInv(h)
  BY DEF IsGui, GuiFields, JobInv, JobFits, FrameFits, StepFits, ChainMade, ResultIsTrue,
     PullFits, FlashFits, McuFits, CancelFits
<1> QED
  BY <1>1, <1>2, Stays DEF Obeys

\* closed(): a result that waits for it is told, an open() that waits goes on.
LEMMA LinkClosesGoes ==
    ASSUME NEW g, IsGui(g), JobInv(g), g.link \in {"Closing", "Queued"}
    PROVE  LET h == CompleteMcu([g EXCEPT !.link = IF @ = "Queued" THEN "Opening" ELSE "Closed"])
           IN  Onward(g, h) /\ JobInv(h) /\ Obeys(g, h)
<1> DEFINE l == IF g.link = "Queued" THEN "Opening" ELSE "Closed"
           s == [g EXCEPT !.link = l]
<1>1. l \in {"Opening", "Closed"}
  OBVIOUS
<1>2. s = [g EXCEPT !.link = IF @ = "Queued" THEN "Opening" ELSE "Closed"]
  BY DEF IsGui, GuiFields
<1>3. IsGui(s) /\ s.link = l /\ \A x \in GuiFields \ {"link"} : s[x] = g[x]
  BY <1>1 DEF IsGui, GuiFields
<1> HIDE DEF s
<1>4. Onward(g, s)
  BY <1>3, Stays DEF GuiFields
<1>5. CASE g.mcuResultPending
  <2>1. McuWaits(g) /\ l = "Closed"
    BY <1>5, McuWaitsIfPending DEF JobInv, JobFits, McuFits
  <2>2. McuWaits(s)
    BY <1>3, <2>1 DEF GuiFields, McuWaits, FrameFits, StepFits, ChainMade, ResultIsTrue
  <2>3. Onward(s, CompleteMcu(s)) /\ JobInv(CompleteMcu(s))
    BY <1>3, <2>2, CompleteGoes
  <2> QED
    BY <1>2, <1>4, <1>5, <2>3, KeepsOnward DEF Obeys
<1>6. CASE ~g.mcuResultPending
  <2>1. CompleteMcu(s) = s
    BY <1>3, <1>6 DEF GuiFields, CompleteMcu
  <2>2. FrameFits(s)
    BY <1>3 DEF GuiFields, JobInv, JobFits, FrameFits, StepFits, ChainMade, ResultIsTrue
  <2>3. PullFits(s) /\ FlashFits(s) /\ CancelFits(s)
    BY <1>3 DEF GuiFields, JobInv, JobFits, PullFits, FlashFits, CancelFits
  <2>4. McuFits(s)
    BY <1>3, <1>6 DEF GuiFields, JobInv, JobFits, McuFits
  <2>5. s.step = g.step
    BY <1>3 DEF GuiFields
  <2> QED
    BY <1>2, <1>4, <2>1, <2>2, <2>3, <2>4, <2>5 DEF JobInv, JobFits, Obeys
<1> QED
  BY <1>5, <1>6

-----------------------------------------------------------------------------
(* The inductive invariant.                                                *)

IInv ==
    /\ IsGui(gui) /\ JobInv(gui)
    /\ worker \in Workers /\ answers \in Seq(Answers)
    /\ QueueInv(gui, worker, answers)
    /\ lock \in {"free", "job", "other"}
    /\ gui.holds <=> lock = "job"

\* A handler of the GUI thread keeps it, whatever the worker is at.
LEMMA HandleKeeps ==
    ASSUME IInv, NEW h, IsGui(h), Keeps(gui, h), JobInv(h), Handle(h)
    PROVE  IInv'
<1>1. gui' = h /\ worker' = worker /\ answers' = answers
      /\ lock' = IF h.holds THEN "job" ELSE IF lock = "job" THEN "free" ELSE lock
  BY DEF Handle, Now
<1>2. QueueInv(h, worker, answers)
  BY DEF IInv, Keeps
<1>3. lock' \in {"free", "job", "other"} /\ (h.holds <=> lock' = "job")
  BY <1>1 DEF IInv, IsGui
<1> QED
  BY <1>1, <1>2, <1>3 DEF IInv

-----------------------------------------------------------------------------
(* The worker's end of the queues.                                         *)

\* A queue without its first.
LEMMA TailFacts ==
    ASSUME NEW S, NEW s \in Seq(S), s # <<>>
    PROVE  /\ Tail(s) \in Seq(S) /\ Head(s) = s[1] /\ s[1] \in S
           /\ Len(s) \in Nat \ {0} /\ DOMAIN s = 1..Len(s) /\ DOMAIN Tail(s) = 1..(Len(s) - 1)
           /\ \A i \in 1..(Len(s) - 1) : Tail(s)[i] = s[i + 1]
  OBVIOUS

LEMMA ConcatFacts ==
    ASSUME NEW S, NEW s \in Seq(S), NEW x \in S
    PROVE  s \o <<>> = s /\ s \o <<x>> = Append(s, x)
  OBVIOUS

\* The calls without the first: it was not an open(), and no close() of the worker's
\* session that lives on.
LEMMA TailKeeps ==
    ASSUME NEW g, IsGui(g), g.calls # <<>>, NEW w \in Workers, NEW a \in Seq(Answers), QueueInv(g, w, a),
           NEW h, h.calls = Tail(g.calls), h.ssh = g.ssh, h.generation = g.generation, h.begun = g.begun,
           NEW v \in Workers, v.gen = w.gen, v.transfer = 0 \/ v.transfer = w.transfer, v.live => w.live,
           v.live => ~(g.calls[1].name = "close" /\ g.calls[1].gen = w.gen)
    PROVE  QueueInv(h, v, a)
<1> DEFINE n == Len(g.calls)
<1>1. /\ n \in Nat \ {0} /\ DOMAIN g.calls = 1..n /\ DOMAIN h.calls = 1..(n - 1)
      /\ \A i \in 1..(n - 1) : h.calls[i] = g.calls[i + 1]
  BY TailFacts DEF IsGui
<1> HIDE DEF n
<1>2. \A i \in 1..(n - 1) : i + 1 \in 1..n
  BY <1>1
<1>3. \A gen : \A from \in 1..n : Owned(g, gen, from) => Owned(h, gen, from - 1)
  <2> SUFFICES ASSUME NEW gen, NEW from \in 1..n, Owned(g, gen, from) PROVE Owned(h, gen, from - 1)
    OBVIOUS
  <2>1. CASE gen = g.generation
    BY <2>1 DEF Owned
  <2>2. CASE gen # g.generation
    <3>1. PICK i \in 1..n : from < i /\ g.calls[i].name = "close" /\ g.calls[i].gen = gen
      BY <2>2, <1>1 DEF Owned
    <3>2. i - 1 \in 1..(n - 1) /\ h.calls[i - 1] = g.calls[i] /\ from - 1 < i - 1
      BY <3>1, <1>1
    <3> QED
      BY <2>2, <3>1, <3>2, <1>1 DEF Owned
  <2> QED
    BY <2>1, <2>2
<1>4. CallsFit(h, v)
  <2>1. \A i \in DOMAIN h.calls : v.gen <= h.calls[i].gen /\ h.calls[i].gen <= h.generation
    BY <1>1, <1>2 DEF QueueInv, CallsFit
  <2>2. ASSUME NEW i \in 1..(n - 1), NEW j \in 1..(n - 1), i < j
        PROVE  h.calls[i].gen <= h.calls[j].gen
    <3>1. i + 1 \in 1..n /\ j + 1 \in 1..n /\ i + 1 < j + 1
      BY <2>2, <1>1
    <3>2. g.calls[i + 1].gen <= g.calls[j + 1].gen
      BY <3>1, <1>1 DEF QueueInv, CallsFit
    <3> QED
      BY <3>2, <1>1
  <2>3. ASSUME NEW j \in DOMAIN h.calls, h.calls[j].name = "open"
        PROVE  /\ v.gen < h.calls[j].gen
               /\ \A i \in DOMAIN h.calls : i < j => h.calls[i].gen < h.calls[j].gen
               /\ Owned(h, h.calls[j].gen, j)
    <3>1. /\ j + 1 \in 1..n /\ h.calls[j] = g.calls[j + 1] /\ (j + 1) - 1 = j
      BY <1>1, <1>2
    <3>2. /\ w.gen < g.calls[j + 1].gen
          /\ \A i \in 1..n : i < j + 1 => g.calls[i].gen < g.calls[j + 1].gen
          /\ Owned(g, g.calls[j + 1].gen, j + 1)
      BY <2>3, <3>1, <1>1 DEF QueueInv, CallsFit
    <3>3. Owned(h, h.calls[j].gen, j)
      BY <3>1, <3>2, <1>3
    <3>4. ASSUME NEW i \in 1..(n - 1), i < j
          PROVE  h.calls[i].gen < h.calls[j].gen
      <4>1. i + 1 \in 1..n /\ i + 1 < j + 1 /\ h.calls[i] = g.calls[i + 1]
        BY <3>4, <1>1
      <4> QED
        BY <3>1, <3>2, <4>1
    <3> QED
      BY <3>1, <3>2, <3>3, <3>4, <1>1
  <2> QED
    BY <2>1, <2>2, <2>3, <1>1 DEF CallsFit
<1>5. v.live => Owned(h, v.gen, 0)
  <2> SUFFICES ASSUME v.live PROVE Owned(h, w.gen, 0)
    OBVIOUS
  <2>1. Owned(g, w.gen, 0)
    BY DEF QueueInv
  <2>2. Owned(g, w.gen, 1)
    BY <2>1, <1>1 DEF Owned
  <2> QED
    BY <2>2, <1>1, <1>3
<1>6. TransfersFit(h, v, a)
  BY <1>1, <1>2 DEF QueueInv, TransfersFit
<1>7. AnswersFit(v, a) /\ ConnectsFit(h, a) /\ v.gen <= h.generation
  BY DEF QueueInv, AnswersFit, ConnectsFit
<1> QED
  BY <1>4, <1>5, <1>6, <1>7 DEF QueueInv

\* One more report of the worker's session
LEMMA ReportKeeps ==
    ASSUME NEW g, NEW w \in Workers, NEW a \in Seq(Answers), QueueInv(g, w, a),
           NEW x \in Answers, x.gen = w.gen, x.kind # "connected",
           x.kind \in {"disconnected", "dropped"} => ~w.live,
           x.kind = "transfer" /\ g.ssh # "Disconnected" /\ x.gen = g.generation => x.run = g.begun
    PROVE  Append(a, x) \in Seq(Answers) /\ QueueInv(g, w, Append(a, x))
<1> DEFINE b == Append(a, x)
           n == Len(a)
<1>1. /\ b \in Seq(Answers) /\ n \in Nat /\ DOMAIN a = 1..n /\ DOMAIN b = 1..(n + 1)
      /\ \A i \in 1..n : b[i] = a[i]
      /\ b[n + 1] = x
  BY AppendFacts
<1> HIDE DEF b, n
<1>2. AnswersFit(w, b)
  <2>1. w.gen \in Nat
    BY DEF Workers
  <2> QED
    BY <1>1, <2>1 DEF QueueInv, AnswersFit
<1>3. ConnectsFit(g, b) /\ TransfersFit(g, w, b)
  BY <1>1 DEF QueueInv, ConnectsFit, TransfersFit
<1> QED
  BY <1>1, <1>2, <1>3 DEF QueueInv, b

\* finishTransfer(), of a transfer that has been taken from the worker
LEMMA TransferAnswerKeeps ==
    ASSUME IInv, NEW ok \in BOOLEAN, NEW h, h.begun = gui.begun, h.ssh = gui.ssh, h.generation = gui.generation,
           NEW v \in Workers, v.gen = worker.gen, QueueInv(h, v, answers)
    PROVE  /\ answers \o TransferAnswer(ok) \in Seq(Answers)
           /\ QueueInv(h, v, answers \o TransferAnswer(ok))
<1> DEFINE x == Answer("transfer", ok, worker.transfer)
<1>1. CASE worker.transfer = 0
  BY <1>1, ConcatFacts DEF TransferAnswer, IInv
<1>2. CASE worker.transfer # 0
  <2>1. x \in Answers
    BY DEF Answer, Answers, IInv, Workers, Kinds
  <2>2. x.gen = worker.gen /\ x.kind = "transfer" /\ x.run = worker.transfer
    BY DEF Answer
  <2>3. gui.ssh # "Disconnected" /\ worker.gen = gui.generation => worker.transfer = gui.begun
    BY <1>2 DEF IInv, QueueInv, TransfersFit
  <2>4. answers \o TransferAnswer(ok) = answers \o <<x>>
    BY <1>2 DEF TransferAnswer
  <2> HIDE DEF x
  <2>5. answers \o <<x>> = Append(answers, x)
    BY <2>1, ConcatFacts DEF IInv
  <2>6. Append(answers, x) \in Seq(Answers) /\ QueueInv(h, v, Append(answers, x))
    BY <2>1, <2>2, <2>3, ReportKeeps DEF IInv
  <2> QED
    BY <2>4, <2>5, <2>6
<1> QED
  BY <1>1, <1>2

\* teardownLive(), of a session that has ended
LEMMA TeardownKeeps ==
    ASSUME IInv, NEW kind \in {"disconnected", "dropped"}, Teardown(kind),
           NEW h, h.begun = gui.begun, h.ssh = gui.ssh, h.generation = gui.generation,
           QueueInv(h, [worker EXCEPT !.live = FALSE, !.transfer = 0], answers)
    PROVE  /\ worker' \in Workers /\ answers' \in Seq(Answers) /\ QueueInv(h, worker', answers')
<1> DEFINE v == [worker EXCEPT !.live = FALSE, !.transfer = 0]
           b == answers \o TransferAnswer(FALSE)
           x == Answer(kind, FALSE, 0)
<1>1. worker' = v /\ answers' = b \o <<x>>
  BY DEF Teardown
<1>2. v \in Workers /\ v.gen = worker.gen /\ ~v.live
  <2>1. worker \in Workers /\ 0 \in 0..MaxOperations
    BY JobAssumption DEF IInv
  <2> QED
    BY <2>1 DEF Workers
<1>3. x \in Answers /\ x.gen = worker.gen /\ x.kind = kind
  BY JobAssumption DEF Answer, Answers, IInv, Workers, Kinds
<1>4. QueueInv(h, v, answers)
  OBVIOUS
<1> HIDE DEF v, x
<1>5. b \in Seq(Answers) /\ QueueInv(h, v, b)
  BY <1>2, <1>4, TransferAnswerKeeps
<1> HIDE DEF b
<1>6. b \o <<x>> = Append(b, x)
  BY <1>3, <1>5, ConcatFacts
<1>7. Append(b, x) \in Seq(Answers) /\ QueueInv(h, v, Append(b, x))
  BY <1>2, <1>3, <1>5, ReportKeeps
<1> QED
  BY <1>1, <1>2, <1>6, <1>7

\* What the worker takes from the GUI thread is a call, and the mark of its transfer.
LEMMA TookKeeps ==
    ASSUME IInv, NEW ended \in BOOLEAN, Took(ended), gui.calls # <<>>
    PROVE  /\ IsGui(gui') /\ JobInv(gui') /\ JobSame(gui, gui') /\ gui'.holds = gui.holds
           /\ gui'.calls = Tail(gui.calls) /\ gui'.ssh = gui.ssh
           /\ gui'.generation = gui.generation /\ gui'.begun = gui.begun
           /\ lock' = lock
<1> DEFINE t == gui.transfer /\ ~ended
           q == Tail(gui.calls)
           h == [gui EXCEPT !.calls = q, !.transfer = t]
<1>1. q \in Seq(CallsOfGui)
  BY TailFacts DEF IInv, IsGui
<1>2. t \in BOOLEAN
  OBVIOUS
<1>3. gui' = h /\ lock' = lock
  BY DEF Took, IInv, IsGui, GuiFields
<1>4. IsGui(gui)
  BY DEF IInv
<1> HIDE DEF q, t
<1>5. IsGui(h)
  BY <1>1, <1>2, <1>4 DEF IsGui, GuiFields
<1>6. /\ JobSame(gui, h) /\ h.calls = q /\ h.ssh = gui.ssh /\ h.pullPhase = gui.pullPhase
      /\ h.puller = gui.puller /\ h.generation = gui.generation /\ h.begun = gui.begun /\ h.holds = gui.holds
  BY <1>4 DEF IsGui, GuiFields, JobSame
<1> HIDE DEF h
<1>7. JobInv(h)
  BY <1>6, SameFits DEF IInv, JobInv
<1> QED
  BY <1>3, <1>5, <1>6, <1>7 DEF q

-----------------------------------------------------------------------------
\* The invariant after a step of the worker, from its parts.
LEMMA WorkerKeeps ==
    ASSUME IInv, IsGui(gui'), JobInv(gui'), gui'.holds = gui.holds, lock' = lock,
           worker' \in Workers, answers' \in Seq(Answers), QueueInv(gui', worker', answers')
    PROVE  IInv'
  BY DEF IInv

\* open(): what it opens is wanted, or a close() of it follows.
LEMMA WorkerOpensKeeps ==
    ASSUME IInv, NEW ok \in BOOLEAN, WorkerOpens(ok)
    PROVE  IInv' /\ gui'.step = gui.step
<1> DEFINE n == Len(gui.calls)
           m == Len(answers)
           gen == gui.calls[1].gen
           v == [gen |-> gen, live |-> ok, transfer |-> 0]
           x == [gen |-> gen, kind |-> IF ok THEN "connected" ELSE "disconnected", ok |-> ok, run |-> 0]
<1>1. gui.calls # <<>> /\ Head(gui.calls).name = "open" /\ Took(FALSE)
  BY DEF WorkerOpens, TakeCall
<1>2. /\ n \in Nat \ {0} /\ DOMAIN gui.calls = 1..n /\ Head(gui.calls) = gui.calls[1]
      /\ DOMAIN Tail(gui.calls) = 1..(n - 1)
      /\ \A i \in 1..(n - 1) : Tail(gui.calls)[i] = gui.calls[i + 1]
  BY <1>1, TailFacts DEF IInv, IsGui
<1>3. /\ IsGui(gui') /\ JobInv(gui') /\ JobSame(gui, gui') /\ gui'.holds = gui.holds
      /\ gui'.calls = Tail(gui.calls) /\ gui'.ssh = gui.ssh
      /\ gui'.generation = gui.generation /\ gui'.begun = gui.begun
      /\ lock' = lock
  BY <1>1, TookKeeps
<1>4. worker' = v /\ answers' = Append(answers, x)
  BY <1>2 DEF WorkerOpens
<1>5. gen \in Nat /\ 1 \in 1..n
  BY <1>2, CallGens DEF IInv
<1>6. v \in Workers /\ v.gen = gen /\ v.live = ok /\ v.transfer = 0
  BY <1>5, JobAssumption DEF Workers
<1>7. x \in Answers /\ x.gen = gen /\ x.kind = (IF ok THEN "connected" ELSE "disconnected")
  BY <1>5, JobAssumption DEF Answers, Kinds
<1>8. CallsFit(gui, worker) /\ worker.gen \in Nat
  BY DEF IInv, QueueInv, Workers
<1>9. /\ gui.calls[1].name = "open" /\ worker.gen < gen /\ gen <= gui.generation
      /\ Owned(gui, gen, 1)
      /\ \A i \in 1..n : gen <= gui.calls[i].gen /\ gui.calls[i].gen <= gui.generation
  BY <1>1, <1>2, <1>5, <1>8 DEF CallsFit
<1>10. /\ Append(answers, x) \in Seq(Answers) /\ m \in Nat /\ DOMAIN answers = 1..m
       /\ DOMAIN Append(answers, x) = 1..(m + 1)
       /\ \A i \in 1..m : Append(answers, x)[i] = answers[i]
       /\ Append(answers, x)[m + 1] = x
  BY <1>7, AppendFacts DEF IInv
<1> HIDE DEF n, m, gen, v, x
<1>11. \A g2 : \A from \in 1..n : Owned(gui, g2, from) => Owned(gui', g2, from - 1)
  <2> SUFFICES ASSUME NEW g2, NEW from \in 1..n, Owned(gui, g2, from) PROVE Owned(gui', g2, from - 1)
    OBVIOUS
  <2>1. CASE g2 = gui.generation
    BY <2>1, <1>3 DEF Owned
  <2>2. CASE g2 # gui.generation
    <3>1. PICK i \in 1..n : from < i /\ gui.calls[i].name = "close" /\ gui.calls[i].gen = g2
      BY <2>2, <1>2 DEF Owned
    <3>2. i - 1 \in 1..(n - 1) /\ gui'.calls[i - 1] = gui.calls[i] /\ from - 1 < i - 1
      BY <3>1, <1>2, <1>3
    <3> QED
      BY <2>2, <3>1, <3>2, <1>2, <1>3 DEF Owned
  <2> QED
    BY <2>1, <2>2
<1>12. CallsFit(gui', v)
  <2>1. \A i \in 1..(n - 1) : v.gen <= gui'.calls[i].gen /\ gui'.calls[i].gen <= gui'.generation
    BY <1>2, <1>3, <1>6, <1>9
  <2>2. ASSUME NEW i \in 1..(n - 1), NEW j \in 1..(n - 1), i < j
        PROVE  gui'.calls[i].gen <= gui'.calls[j].gen
    <3>1. i + 1 \in 1..n /\ j + 1 \in 1..n /\ i + 1 < j + 1
      BY <2>2, <1>2
    <3> QED
      BY <3>1, <1>2, <1>3, <1>8 DEF CallsFit
  <2>3. ASSUME NEW j \in 1..(n - 1), gui'.calls[j].name = "open"
        PROVE  /\ v.gen < gui'.calls[j].gen
               /\ \A i \in 1..(n - 1) : i < j => gui'.calls[i].gen < gui'.calls[j].gen
               /\ Owned(gui', gui'.calls[j].gen, j)
    <3>1. /\ j + 1 \in 1..n /\ gui'.calls[j] = gui.calls[j + 1] /\ (j + 1) - 1 = j /\ 1 < j + 1
      BY <1>2, <1>3
    <3>2. /\ \A i \in 1..n : i < j + 1 => gui.calls[i].gen < gui.calls[j + 1].gen
          /\ Owned(gui, gui.calls[j + 1].gen, j + 1)
      BY <2>3, <3>1, <1>2, <1>8 DEF CallsFit
    <3>3. v.gen < gui'.calls[j].gen
      BY <3>1, <3>2, <1>5, <1>6 DEF gen
    <3>4. ASSUME NEW i \in 1..(n - 1), i < j
          PROVE  gui'.calls[i].gen < gui'.calls[j].gen
      <4>1. i + 1 \in 1..n /\ i + 1 < j + 1 /\ gui'.calls[i] = gui.calls[i + 1]
        BY <3>4, <1>2, <1>3
      <4> QED
        BY <3>1, <3>2, <4>1
    <3>5. Owned(gui', gui'.calls[j].gen, j)
      BY <3>1, <3>2, <1>11
    <3> QED
      BY <3>3, <3>4, <3>5
  <2> QED
    BY <2>1, <2>2, <2>3, <1>2, <1>3 DEF CallsFit
<1>13. \A i \in 1..m : answers[i].gen <= worker.gen /\ answers[i].gen \in Nat
  BY <1>10, AnswerGens DEF IInv, QueueInv, AnswersFit
<1>14. AnswersFit(v, Append(answers, x))
  <2>1. \A i, j \in 1..m : i < j /\ answers[j].kind = "connected" => answers[i].gen < answers[j].gen
    BY <1>10 DEF IInv, QueueInv, AnswersFit
  <2> QED
    BY <2>1, <1>5, <1>6, <1>7, <1>8, <1>9, <1>10, <1>13 DEF AnswersFit
<1>15. ConnectsFit(gui', Append(answers, x))
  <2>1. x.gen = gui.generation => gui.ssh # "Disconnected"
    BY <1>7, <1>9 DEF Owned
  <2> QED
    BY <2>1, <1>3, <1>10 DEF ConnectsFit, IInv, QueueInv
<1>16. TransfersFit(gui', v, Append(answers, x))
  <2>1. x.kind # "transfer"
    BY <1>7
  <2>2. \A i \in 1..(n - 1) : gui'.calls[i] = gui.calls[i + 1] /\ i + 1 \in 1..n
    BY <1>2, <1>3
  <2>3. DOMAIN gui'.calls = 1..(n - 1)
    BY <1>2, <1>3
  <2> QED
    BY <2>1, <2>2, <2>3, <1>2, <1>3, <1>6, <1>10 DEF TransfersFit, IInv, QueueInv
<1>17. v.live => Owned(gui', v.gen, 0)
  BY <1>5, <1>6, <1>9, <1>11
<1>18. QueueInv(gui', v, Append(answers, x))
  BY <1>3, <1>6, <1>9, <1>12, <1>14, <1>15, <1>16, <1>17 DEF QueueInv
<1> QED
  BY <1>3, <1>4, <1>6, <1>10, <1>18, WorkerKeeps DEF JobSame

\* close(): of the worker's session, or of one that is gone
LEMMA WorkerClosesKeeps ==
    ASSUME IInv, WorkerCloses
    PROVE  IInv' /\ gui'.step = gui.step
<1> DEFINE c == Head(gui.calls)
           v == [worker EXCEPT !.live = FALSE, !.transfer = 0]
           ended == c.gen = worker.gen /\ worker.transfer # 0
<1>1. gui.calls # <<>> /\ Took(ended) /\ ended \in BOOLEAN
  BY DEF WorkerCloses, TakeCall
<1>2. c = gui.calls[1]
  BY <1>1, TailFacts DEF IInv, IsGui
<1> HIDE DEF ended
<1>3. /\ IsGui(gui') /\ JobInv(gui') /\ JobSame(gui, gui') /\ gui'.holds = gui.holds
      /\ gui'.calls = Tail(gui.calls) /\ gui'.ssh = gui.ssh
      /\ gui'.generation = gui.generation /\ gui'.begun = gui.begun
      /\ lock' = lock
  BY <1>1, TookKeeps
<1>4. CASE c.gen = worker.gen
  <2>1. Teardown("disconnected")
    BY <1>4 DEF WorkerCloses
  <2>2. v \in Workers /\ v.gen = worker.gen /\ ~v.live /\ v.transfer = 0
    <3>1. worker \in Workers /\ 0 \in 0..MaxOperations
      BY JobAssumption DEF IInv
    <3> QED
      BY <3>1 DEF Workers
  <2> HIDE DEF v
  <2>3. QueueInv(gui', v, answers)
    BY <1>1, <1>3, <2>2, TailKeeps DEF IInv
  <2>4. /\ worker' \in Workers /\ answers' \in Seq(Answers) /\ QueueInv(gui', worker', answers')
    BY <1>3, <2>1, <2>3, TeardownKeeps DEF v
  <2> QED
    BY <1>3, <2>4, WorkerKeeps DEF JobSame
<1>5. CASE c.gen # worker.gen
  <2>1. worker' = worker /\ answers' = answers
    BY <1>5 DEF WorkerCloses
  <2>2. QueueInv(gui', worker, answers)
    BY <1>1, <1>2, <1>3, <1>5, TailKeeps DEF IInv
  <2>3. worker \in Workers /\ answers \in Seq(Answers)
    BY DEF IInv
  <2> QED
    BY <1>3, <2>1, <2>2, <2>3, WorkerKeeps DEF JobSame
<1> QED
  BY <1>4, <1>5

\* statRemote(), runCommand()
LEMMA WorkerAsksKeeps ==
    ASSUME IInv, NEW name, NEW ok \in BOOLEAN, WorkerAsks(name, ok)
    PROVE  IInv' /\ gui'.step = gui.step
<1> DEFINE c == Head(gui.calls)
           x == Answer(name, ok /\ worker.live, c.run)
<1>1. gui.calls # <<>> /\ name \in {"stat", "command"} /\ c.name = name /\ Took(FALSE) /\ worker' = worker
  BY DEF WorkerAsks, TakeCall
<1>2. c = gui.calls[1] /\ c.run \in 0..MaxOperations
  BY <1>1, TailFacts, CallGens DEF IInv, IsGui
<1>3. /\ IsGui(gui') /\ JobInv(gui') /\ JobSame(gui, gui') /\ gui'.holds = gui.holds
      /\ gui'.calls = Tail(gui.calls) /\ gui'.ssh = gui.ssh
      /\ gui'.generation = gui.generation /\ gui'.begun = gui.begun
      /\ lock' = lock
  BY <1>1, TookKeeps
<1>4. worker \in Workers /\ answers \in Seq(Answers)
  BY DEF IInv
<1>5. QueueInv(gui', worker, answers)
  BY <1>1, <1>2, <1>3, <1>4, TailKeeps DEF IInv
<1>6. answers' = answers \/ answers' = Append(answers, x)
  BY DEF WorkerAsks
<1>7. x \in Answers /\ x.gen = worker.gen /\ x.kind \in {"stat", "command"}
  BY <1>1, <1>2, <1>4 DEF Answer, Answers, Workers, Kinds
<1> HIDE DEF x, c
<1>8. Append(answers, x) \in Seq(Answers) /\ QueueInv(gui', worker, Append(answers, x))
  BY <1>4, <1>5, <1>7, ReportKeeps
<1> QED
  BY <1>1, <1>3, <1>4, <1>5, <1>6, <1>8, WorkerKeeps DEF JobSame

\* startTransfer()
LEMMA WorkerTransfersKeeps ==
    ASSUME IInv, NEW ok \in BOOLEAN, WorkerTransfers(ok)
    PROVE  IInv' /\ gui'.step = gui.step
<1> DEFINE run == Head(gui.calls).run
           goes == ok /\ worker.live /\ worker.transfer = 0
           v == [worker EXCEPT !.transfer = run]
           x == Answer("transfer", FALSE, run)
<1>1. gui.calls # <<>> /\ Head(gui.calls).name = "transfer" /\ Took(~goes)
  BY DEF WorkerTransfers, TakeCall
<1>2. Head(gui.calls) = gui.calls[1] /\ 1 \in DOMAIN gui.calls
  BY <1>1, TailFacts DEF IInv, IsGui
<1>3. run \in 0..MaxOperations /\ gui.calls[1].gen \in Nat
  BY <1>2, CallGens DEF IInv
<1>4. (~goes) \in BOOLEAN
  OBVIOUS
<1>5. /\ worker' = IF goes THEN v ELSE worker
      /\ answers' = IF goes THEN answers ELSE Append(answers, x)
  BY DEF WorkerTransfers
<1> HIDE DEF goes
<1>6. /\ IsGui(gui') /\ JobInv(gui') /\ JobSame(gui, gui') /\ gui'.holds = gui.holds
      /\ gui'.calls = Tail(gui.calls) /\ gui'.ssh = gui.ssh
      /\ gui'.generation = gui.generation /\ gui'.begun = gui.begun
      /\ lock' = lock
  BY <1>1, <1>4, TookKeeps
<1>7. worker \in Workers /\ answers \in Seq(Answers) /\ QueueInv(gui, worker, answers) /\ IsGui(gui)
  BY DEF IInv
<1>8. QueueInv(gui', worker, answers)
  BY <1>1, <1>2, <1>6, <1>7, TailKeeps
<1>9. gui.ssh # "Disconnected" /\ worker.gen = gui.generation => run = gui.begun
  <2>1. worker.gen <= gui.calls[1].gen /\ gui.calls[1].gen <= gui.generation
    BY <1>2, <1>7 DEF QueueInv, CallsFit
  <2>2. worker.gen = gui.generation => gui.calls[1].gen = gui.generation
    BY <2>1, <1>3, <1>7 DEF Workers
  <2> QED
    BY <2>2, <1>1, <1>2, <1>7 DEF QueueInv, TransfersFit
<1>10. x \in Answers /\ x.gen = worker.gen /\ x.kind = "transfer" /\ x.run = run
  BY <1>3, <1>7 DEF Answer, Answers, Workers, Kinds
<1>11. v \in Workers /\ v.gen = worker.gen /\ v.live = worker.live /\ v.transfer = run
  BY <1>3, <1>7 DEF Workers
<1> HIDE DEF run, v, x
<1>12. CASE goes
  <2>1. QueueInv(gui', v, answers)
    BY <1>6, <1>8, <1>9, <1>11 DEF QueueInv, CallsFit, AnswersFit, TransfersFit
  <2> QED
    BY <1>5, <1>6, <1>7, <1>11, <1>12, <2>1, WorkerKeeps DEF JobSame
<1>13. CASE ~goes
  <2>1. Append(answers, x) \in Seq(Answers) /\ QueueInv(gui', worker, Append(answers, x))
    BY <1>6, <1>7, <1>8, <1>9, <1>10, ReportKeeps
  <2> QED
    BY <1>5, <1>6, <1>7, <1>13, <2>1, WorkerKeeps DEF JobSame
<1> QED
  BY <1>12, <1>13

\* cancelTransfer()
LEMMA WorkerCancelsKeeps ==
    ASSUME IInv, WorkerCancels
    PROVE  IInv' /\ gui'.step = gui.step
<1> DEFINE v == [worker EXCEPT !.transfer = 0]
           ended == worker.transfer # 0
<1>1. gui.calls # <<>> /\ Head(gui.calls).name = "cancelTransfer" /\ Took(ended) /\ ended \in BOOLEAN
  BY DEF WorkerCancels, TakeCall
<1>2. Head(gui.calls) = gui.calls[1]
  BY <1>1, TailFacts DEF IInv, IsGui
<1> HIDE DEF ended
<1>3. /\ IsGui(gui') /\ JobInv(gui') /\ JobSame(gui, gui') /\ gui'.holds = gui.holds
      /\ gui'.calls = Tail(gui.calls) /\ gui'.ssh = gui.ssh
      /\ gui'.generation = gui.generation /\ gui'.begun = gui.begun
      /\ lock' = lock
  BY <1>1, TookKeeps
<1>4. worker \in Workers /\ answers \in Seq(Answers) /\ 0 \in 0..MaxOperations
  BY JobAssumption DEF IInv
<1>5. v \in Workers /\ v.gen = worker.gen /\ v.live = worker.live /\ v.transfer = 0
  BY <1>4 DEF Workers
<1>6. worker' = v /\ answers' = answers \o TransferAnswer(FALSE)
  BY DEF WorkerCancels
<1> HIDE DEF v
<1>7. QueueInv(gui', v, answers)
  BY <1>1, <1>2, <1>3, <1>4, <1>5, TailKeeps DEF IInv
<1>8. /\ answers \o TransferAnswer(FALSE) \in Seq(Answers)
      /\ QueueInv(gui', v, answers \o TransferAnswer(FALSE))
  BY <1>3, <1>5, <1>7, TransferAnswerKeeps
<1> QED
  BY <1>3, <1>5, <1>6, <1>8, WorkerKeeps DEF JobSame

\* The mark of the transfer goes down, and nothing else of the GUI thread's changes.
LEMMA MarkKeeps ==
    ASSUME IInv, NEW t \in BOOLEAN, gui' = [gui EXCEPT !.transfer = t]
    PROVE  /\ IsGui(gui') /\ JobInv(gui') /\ JobSame(gui, gui') /\ gui'.holds = gui.holds
           /\ gui'.calls = gui.calls /\ gui'.ssh = gui.ssh
           /\ gui'.generation = gui.generation /\ gui'.begun = gui.begun
           /\ \A w \in Workers, a \in Seq(Answers) : QueueInv(gui, w, a) => QueueInv(gui', w, a)
<1> DEFINE h == [gui EXCEPT !.transfer = t]
<1>1. IsGui(gui)
  BY DEF IInv
<1>2. IsGui(h)
  BY <1>1 DEF IsGui, GuiFields
<1>3. /\ JobSame(gui, h) /\ h.calls = gui.calls /\ h.ssh = gui.ssh /\ h.pullPhase = gui.pullPhase
      /\ h.puller = gui.puller /\ h.generation = gui.generation /\ h.begun = gui.begun /\ h.holds = gui.holds
  BY <1>1 DEF IsGui, GuiFields, JobSame
<1> HIDE DEF h
<1>4. JobInv(h)
  BY <1>3, SameFits DEF IInv, JobInv
<1>5. Keeps(gui, h)
  BY <1>3, KeepsSame
<1> QED
  BY <1>2, <1>3, <1>4, <1>5 DEF h, Keeps

\* The tick's last block, or its error
LEMMA TransferEndsKeeps ==
    ASSUME IInv, NEW ok \in BOOLEAN, TransferEnds(ok)
    PROVE  IInv' /\ gui'.step = gui.step
<1> DEFINE v == [worker EXCEPT !.transfer = 0]
<1>1. /\ worker' = v /\ answers' = answers \o TransferAnswer(ok)
      /\ gui' = [gui EXCEPT !.transfer = FALSE] /\ lock' = lock
  BY DEF TransferEnds
<1>2. worker \in Workers /\ answers \in Seq(Answers) /\ 0 \in 0..MaxOperations /\ QueueInv(gui, worker, answers)
  BY JobAssumption DEF IInv
<1>3. v \in Workers /\ v.gen = worker.gen /\ v.live = worker.live /\ v.transfer = 0
  BY <1>2 DEF Workers
<1> HIDE DEF v
<1>4. /\ IsGui(gui') /\ JobInv(gui') /\ JobSame(gui, gui') /\ gui'.holds = gui.holds
      /\ gui'.ssh = gui.ssh /\ gui'.generation = gui.generation /\ gui'.begun = gui.begun
      /\ \A w \in Workers, a \in Seq(Answers) : QueueInv(gui, w, a) => QueueInv(gui', w, a)
  BY <1>1, MarkKeeps
<1>5. QueueInv(gui, v, answers)
  BY <1>2, <1>3 DEF QueueInv, CallsFit, AnswersFit, TransfersFit
<1>6. /\ answers \o TransferAnswer(ok) \in Seq(Answers)
      /\ QueueInv(gui', v, answers \o TransferAnswer(ok))
  BY <1>2, <1>3, <1>4, <1>5, TransferAnswerKeeps
<1> QED
  BY <1>1, <1>3, <1>4, <1>6, WorkerKeeps DEF JobSame

\* handleConnectionLost(), or the remote shell ends
LEMMA SessionEndsKeeps ==
    ASSUME IInv, NEW kind, SessionEnds(kind)
    PROVE  IInv' /\ gui'.step = gui.step
<1> DEFINE v == [worker EXCEPT !.live = FALSE, !.transfer = 0]
           t == gui.transfer /\ worker.transfer = 0
<1>1. kind \in {"dropped", "disconnected"} /\ Teardown(kind) /\ lock' = lock
  BY DEF SessionEnds
<1>2. t \in BOOLEAN /\ gui' = [gui EXCEPT !.transfer = t]
  BY DEF SessionEnds, IInv, IsGui, GuiFields
<1> HIDE DEF t
<1>3. worker \in Workers /\ answers \in Seq(Answers) /\ 0 \in 0..MaxOperations /\ QueueInv(gui, worker, answers)
  BY JobAssumption DEF IInv
<1>4. v \in Workers /\ v.gen = worker.gen /\ ~v.live /\ v.transfer = 0
  BY <1>3 DEF Workers
<1> HIDE DEF v
<1>5. /\ IsGui(gui') /\ JobInv(gui') /\ JobSame(gui, gui') /\ gui'.holds = gui.holds
      /\ gui'.ssh = gui.ssh /\ gui'.generation = gui.generation /\ gui'.begun = gui.begun
      /\ \A w \in Workers, a \in Seq(Answers) : QueueInv(gui, w, a) => QueueInv(gui', w, a)
  BY <1>2, MarkKeeps
<1>6. QueueInv(gui, v, answers)
  BY <1>3, <1>4 DEF QueueInv, CallsFit, AnswersFit, TransfersFit
<1>7. QueueInv(gui', v, answers)
  BY <1>3, <1>4, <1>5, <1>6
<1>8. worker' \in Workers /\ answers' \in Seq(Answers) /\ QueueInv(gui', worker', answers')
  BY <1>1, <1>5, <1>7, TeardownKeeps DEF v
<1> QED
  BY <1>1, <1>5, <1>8, WorkerKeeps DEF JobSame

-----------------------------------------------------------------------------
\* A signal of the worker reaches the GUI thread.
LEMMA DeliverKeeps ==
    ASSUME IInv, NEW unchanged \in BOOLEAN, NEW way, Deliver(unchanged, way)
    PROVE  IInv' /\ Obeys(gui, gui')
<1> DEFINE a == Head(answers)
           b == Tail(answers)
           h == Heard(gui, a, unchanged, way)
           d == [gui EXCEPT !.ssh = "Disconnected"]
           n == Len(answers)
<1>1. /\ answers # <<>> /\ answers' = b /\ worker' = worker
      /\ gui' = IF a.gen # gui.generation THEN gui ELSE h
      /\ lock' = IF gui'.holds THEN "job" ELSE IF lock = "job" THEN "free" ELSE lock
  BY DEF Deliver, Now
<1>2. /\ b \in Seq(Answers) /\ a = answers[1] /\ a \in Answers /\ n \in Nat \ {0}
      /\ DOMAIN answers = 1..n /\ DOMAIN b = 1..(n - 1)
      /\ \A i \in 1..(n - 1) : b[i] = answers[i + 1]
  BY <1>1, TailFacts DEF IInv
<1>3. /\ IsGui(gui) /\ JobInv(gui) /\ worker \in Workers /\ answers \in Seq(Answers)
      /\ QueueInv(gui, worker, answers)
  BY DEF IInv
<1>4. \A i \in 1..n : answers[i].gen \in Nat
  BY <1>2, <1>3, AnswerGens
<1> HIDE DEF a, b, n
<1>5. \A i \in 1..(n - 1) : i + 1 \in 1..n /\ 1 < i + 1
  BY <1>2
<1>6. QueueInv(gui, worker, b)
  <2>1. AnswersFit(worker, b)
    <3>1. \A i \in 1..(n - 1) : /\ b[i].gen <= worker.gen
                                /\ b[i].kind \in {"disconnected", "dropped"} /\ b[i].gen = worker.gen => ~worker.live
      BY <1>2, <1>3, <1>5 DEF QueueInv, AnswersFit
    <3>2. ASSUME NEW i \in 1..(n - 1), NEW j \in 1..(n - 1), i < j, b[j].kind = "connected"
          PROVE  b[i].gen < b[j].gen
      <4>1. i + 1 \in 1..n /\ j + 1 \in 1..n /\ i + 1 < j + 1
        BY <3>2, <1>2
      <4> QED
        BY <3>2, <4>1, <1>2, <1>3 DEF QueueInv, AnswersFit
    <3> QED
      BY <3>1, <3>2, <1>2 DEF AnswersFit
  <2>2. \A i \in DOMAIN b : \E j \in DOMAIN answers : b[i] = answers[j]
    BY <1>2, <1>5
  <2>3. ConnectsFit(gui, b)
    BY <1>3, <2>2 DEF QueueInv, ConnectsFit
  <2>4. TransfersFit(gui, worker, b)
    BY <1>3, <2>2 DEF QueueInv, TransfersFit
  <2> QED
    BY <2>1, <2>3, <2>4, <1>3 DEF QueueInv
<1>7. CASE a.gen # gui.generation
  <2>1. gui' = gui /\ lock' = lock
    BY <1>1, <1>7 DEF IInv
  <2> QED
    BY <1>1, <1>2, <1>6, <2>1 DEF IInv, Obeys
<1>8. CASE a.gen = gui.generation
  <2>1. gui' = h
    BY <1>1, <1>8
  <2>2. a.kind = "connected" => gui.ssh # "Disconnected"
    BY <1>2, <1>3, <1>8 DEF QueueInv, ConnectsFit
  <2>3. a.kind = "transfer" /\ gui.ssh # "Disconnected" => a.run = gui.begun
    BY <1>2, <1>3, <1>8 DEF QueueInv, TransfersFit
  <2> HIDE DEF h, d
  <2>4. /\ JobInv(h) /\ Obeys(gui, h)
        /\ a.kind = "disconnected" => Onward(d, h)
        /\ a.kind # "disconnected" => Onward(gui, h)
    BY <1>2, <1>3, <2>2, <2>3, HeardGoes DEF h, d
  <2>5. IsGui(h) /\ QueueInv(h, worker, b)
    <3>1. CASE a.kind # "disconnected"
      BY <1>2, <1>3, <1>6, <2>4, <3>1 DEF Onward, Keeps
    <3>2. CASE a.kind = "disconnected"
      <4>1. worker.gen = gui.generation /\ worker.gen \in Nat /\ ~worker.live
        BY <1>2, <1>3, <1>8, <3>2 DEF QueueInv, AnswersFit, Workers, IsGui
      <4>2. /\ d.ssh = "Disconnected" /\ d.calls = gui.calls /\ d.generation = gui.generation
            /\ d.begun = gui.begun
        BY <1>3 DEF d, IsGui, GuiFields
      <4>3. CallsFit(d, worker)
        <5>1. \A j \in DOMAIN gui.calls : /\ gui.calls[j].gen \in Nat /\ gui.calls[j].gen <= gui.generation
                                          /\ gui.calls[j].name = "open" => worker.gen < gui.calls[j].gen
          BY <1>3, CallGens DEF QueueInv, CallsFit
        <5>2. \A j \in DOMAIN gui.calls : gui.calls[j].name # "open"
          BY <5>1, <4>1
        <5> QED
          BY <1>3, <4>2, <5>2 DEF QueueInv, CallsFit
      <4>4. ConnectsFit(d, b)
        <5>1. ASSUME NEW i \in 1..(n - 1), b[i].kind = "connected"
              PROVE  a.gen < b[i].gen
          <6>1. i + 1 \in 1..n /\ 1 \in 1..n /\ 1 < i + 1 /\ b[i] = answers[i + 1]
            BY <1>2, <1>5
          <6> QED
            BY <5>1, <6>1, <1>2, <1>3 DEF QueueInv, AnswersFit
        <5> QED
          BY <1>2, <1>4, <1>5, <1>8, <4>2, <5>1 DEF ConnectsFit
      <4>5. QueueInv(d, worker, b)
        BY <1>6, <4>1, <4>2, <4>3, <4>4 DEF QueueInv, TransfersFit
      <4> QED
        BY <1>2, <1>3, <2>4, <3>2, <4>5 DEF Onward, Keeps
    <3> QED
      BY <3>1, <3>2
  <2>6. lock' \in {"free", "job", "other"} /\ (h.holds <=> lock' = "job")
    BY <1>1, <2>1, <2>5 DEF IInv, IsGui
  <2> QED
    BY <1>1, <1>2, <1>3, <2>1, <2>4, <2>5, <2>6 DEF IInv
<1> QED
  BY <1>7, <1>8

-----------------------------------------------------------------------------
(* The steps of the GUI thread.                                            *)

\* The user's slots
LEMMA OwnerKeeps ==
    ASSUME IInv,
           \/ \E job \in Starters, way \in Ways : Begin(job, way)
           \/ Cancel \/ DisconnectSource \/ OwnerAnswers
    PROVE  IInv' /\ Obeys(gui, gui')
<1>1. IsGui(gui) /\ JobInv(gui)
  BY DEF IInv
<1>2. ASSUME NEW job \in Starters, NEW way \in Ways, Begin(job, way)
      PROVE  IInv' /\ Obeys(gui, gui')
  <2> DEFINE h == StartOperation(gui, job, way)
  <2>1. gui.op = "none" /\ gui.begun < MaxOperations /\ Handle(h) /\ job \in Operations
    BY <1>2, JobAssumption DEF Begin
  <2>2. IsGui(h) /\ Keeps(gui, h) /\ JobInv(h)
    BY <1>1, <2>1, StartOperationGoes
  <2>3. ~gui.cancelRequested
    BY <1>1, <2>1, RestsIfEnded
  <2> QED
    BY <2>1, <2>2, <2>3, HandleKeeps DEF Obeys
<1>3. CASE Cancel
  <2> DEFINE h == CancelOperation(gui)
  <2>1. gui.op # "none" /\ Handle(h) /\ gui' = h
    BY <1>3 DEF Cancel, Handle, Now
  <2>2. Onward(gui, h) /\ JobInv(h) /\ (h.step = gui.step \/ Ended(h))
    BY <1>1, <2>1, CancelOperationGoes
  <2> QED
    BY <2>1, <2>2, HandleKeeps DEF Onward, Obeys
<1>4. CASE DisconnectSource
  <2> DEFINE h == Disconnect(gui)
  <2>1. Handle(h) /\ gui' = h
    BY <1>4 DEF DisconnectSource, Handle, Now
  <2>2. Onward(gui, h) /\ JobInv(h) /\ (h.step = gui.step \/ Ended(h))
    BY <1>1, DisconnectGoes
  <2> QED
    BY <2>1, <2>2, HandleKeeps DEF Onward, Obeys
<1>5. ASSUME NEW allowed \in BOOLEAN, NEW way \in {"goes", "late"}, AnswerQuestion(allowed, way)
      PROVE  IInv' /\ Obeys(gui, gui')
  <2> DEFINE s == [gui EXCEPT !.asking = FALSE]
             h == IF gui.cancelRequested \/ ~allowed
                  THEN StepFailed(s, IF gui.cancelRequested THEN "cancelled" ELSE "failed")
                  ELSE IF gui.step = "fleet-flash" THEN RunFleet(s, way) ELSE OpenLink(s)
  <2>1. gui.asking /\ Handle(h) /\ gui' = h
    BY <1>5 DEF AnswerQuestion, Handle, Now
  <2>2. Onward(gui, h) /\ JobInv(h) /\ Obeys(gui, h)
    BY <1>1, <2>1, AnswerGoes
  <2> QED
    BY <2>1, <2>2, HandleKeeps DEF Onward
<1> QED
  BY <1>2, <1>3, <1>4, <1>5 DEF OwnerAnswers

\* A second program takes the lock file while it is free, and gives it back.
LEMMA OtherKeeps ==
    ASSUME IInv, OtherTakesLock \/ OtherReleasesLock
    PROVE  IInv' /\ Obeys(gui, gui')
<1>1. gui' = gui /\ worker' = worker /\ answers' = answers /\ lock # "job" /\ lock' \in {"other", "free"}
  BY DEF OtherTakesLock, OtherReleasesLock
<1> QED
  BY <1>1 DEF IInv, Obeys

\* The reports of the tools
LEMMA FlasherKeeps ==
    ASSUME IInv,
           \/ \E phase \in FlashPhases : FlasherMoves(phase)
           \/ \E ok \in BOOLEAN, way \in Ways \ {"asks", "late"} : FlasherEnds(ok, way)
    PROVE  IInv' /\ Obeys(gui, gui')
<1>1. IsGui(gui) /\ JobInv(gui)
  BY DEF IInv
<1>2. ASSUME NEW phase \in FlashPhases, FlasherMoves(phase)
      PROVE  IInv' /\ Obeys(gui, gui')
  <2> DEFINE h == FlasherPhase(gui, phase)
  <2>1. gui.flasher \in FlashPhases /\ Handle(h) /\ gui' = h
    BY <1>2 DEF FlasherMoves, Handle, Now
  <2>2. Onward(gui, h) /\ JobInv(h) /\ h.step = gui.step
    BY <1>1, <2>1, FlasherMovesGoes
  <2> QED
    BY <2>1, <2>2, HandleKeeps DEF Onward, Obeys
<1>3. ASSUME NEW ok \in BOOLEAN, NEW way, FlasherEnds(ok, way)
      PROVE  IInv' /\ Obeys(gui, gui')
  <2> DEFINE why == IF ok THEN "done" ELSE "failed"
             h == FlasherEndFlow(gui, ok, why, way)
  <2>1. Handle(h) /\ gui' = h
    BY <1>3 DEF FlasherEnds, Handle, Now
  <2>2. ok => gui.flasher \in FlashPhases
    BY <1>3 DEF FlasherEnds, FlashPhases
  <2>3. ok => gui.flasherActive /\ ~gui.cancelRequested
    BY <1>1, <2>2 DEF JobInv, JobFits, FlashFits, CancelFits
  <2>4. why \in Reasons
    BY DEF Reasons
  <2> HIDE DEF why
  <2>5. Onward(gui, h) /\ JobInv(h) /\ (~ok => Ended(h) \/ h.step = gui.step)
    BY <1>1, <2>3, <2>4, FlasherEndFlowGoes DEF JobInv
  <2> QED
    BY <2>1, <2>3, <2>5, HandleKeeps DEF Onward, Obeys
<1> QED
  BY <1>2, <1>3

LEMMA FleetKeeps ==
    ASSUME IInv, NEW ok \in BOOLEAN, FleetEnds(ok)
    PROVE  IInv' /\ Obeys(gui, gui')
<1> DEFINE s == [gui EXCEPT !.fleet = "Idle", !.fleetActive = FALSE]
           h == IF ok THEN StepFinished(Made(s, "fleet-flash"), "fleet-flash", TRUE, "done", "goes")
                ELSE StepFailed(s, "failed")
<1>1. IsGui(gui) /\ JobInv(gui) /\ gui.fleet # "Idle"
  BY DEF IInv, FleetEnds
<1>2. Onward(gui, h) /\ JobInv(h) /\ gui.fleetActive /\ (~ok => Ended(h))
  BY <1>1, FleetEndsGoes
<1>3. Handle(h) /\ gui' = h
  BY <1>2 DEF FleetEnds, Handle, Now
<1>4. gui.op = "fleet-flash"
  BY <1>1, <1>2 DEF JobInv, JobFits, FlashFits, FrameFits, StepFits
<1> QED
  BY <1>2, <1>3, <1>4, HandleKeeps DEF Onward, Obeys

LEMMA CliKeeps ==
    ASSUME IInv, NEW outcome, NEW way, CliEnds(outcome, way)
    PROVE  IInv' /\ Obeys(gui, gui')
<1>1. IsGui(gui) /\ JobInv(gui)
  BY DEF IInv
<1>2. gui.cli # "none"
  BY DEF CliEnds
<1> DEFINE n == [gui EXCEPT !.cli = IF @ = "stop" THEN "version" ELSE "help"]
           f == FinishCli(gui, outcome, way)
<1>3. CASE outcome = "next" /\ ~gui.cancelRequested
  <2>1. Handle(n) /\ gui' = n
    BY <1>3 DEF CliEnds, Handle, Now
  <2>2. Onward(gui, n) /\ JobInv(n) /\ Obeys(gui, n)
    BY <1>1, <1>2, CliGoesOn
  <2> QED
    BY <2>1, <2>2, HandleKeeps DEF Onward
<1>4. CASE ~(outcome = "next" /\ ~gui.cancelRequested)
  <2>1. Handle(f) /\ gui' = f
    BY <1>4 DEF CliEnds, Handle, Now
  <2>2. Onward(gui, f) /\ JobInv(f) /\ (gui.cancelRequested => Ended(f))
    BY <1>1, <1>2, FinishCliGoes
  <2> QED
    BY <2>1, <2>2, HandleKeeps DEF Onward, Obeys
<1> QED
  BY <1>3, <1>4

LEMMA LinkKeeps ==
    ASSUME IInv, LinkOpens \/ LinkFails \/ LinkIsLost \/ LinkCloses
    PROVE  IInv' /\ Obeys(gui, gui')
<1>1. IsGui(gui) /\ JobInv(gui)
  BY DEF IInv
<1>2. ASSUME NEW h, Handle(h), Onward(gui, h), JobInv(h), Obeys(gui, h)
      PROVE  IInv' /\ Obeys(gui, gui')
  <2>1. gui' = h
    BY <1>2 DEF Handle, Now
  <2> QED
    BY <1>2, <2>1, HandleKeeps DEF Onward
<1>3. CASE LinkOpens
  <2> DEFINE s == [gui EXCEPT !.link = "Open"]
             h == IF ~s.linkActive \/ s.updaterActive \/ s.mcuResultPending THEN s
                  ELSE [s EXCEPT !.updaterActive = TRUE]
  <2>1. gui.link = "Opening" /\ Handle(h)
    BY <1>3 DEF LinkOpens
  <2>2. Onward(gui, h) /\ JobInv(h) /\ Obeys(gui, h)
    BY <1>1, <2>1, LinkOpensGoes
  <2> HIDE DEF h
  <2> QED
    BY <1>2, <2>1, <2>2
<1>4. CASE LinkFails
  <2> DEFINE s == [gui EXCEPT !.link = "Closing"]
             h == IF s.linkActive /\ ~s.updaterActive /\ ~s.mcuResultPending
                  THEN StepFailed([s EXCEPT !.linkActive = FALSE], "failed") ELSE s
  <2>1. gui.link = "Opening" /\ Handle(h)
    BY <1>4 DEF LinkFails
  <2>2. Onward(gui, h) /\ JobInv(h) /\ Ended(h)
    BY <1>1, <2>1, LinkFailsGoes
  <2> HIDE DEF h
  <2> QED
    BY <1>2, <2>1, <2>2 DEF Obeys
<1>5. CASE LinkIsLost
  <2> DEFINE h == [gui EXCEPT !.link = "Closing"]
  <2>1. gui.link = "Open" /\ Handle(h)
    BY <1>5 DEF LinkIsLost
  <2>2. Onward(gui, h) /\ JobInv(h) /\ Obeys(gui, h)
    BY <1>1, <2>1, LinkIsLostGoes
  <2> HIDE DEF h
  <2> QED
    BY <1>2, <2>1, <2>2
<1>6. CASE LinkCloses
  <2> DEFINE h == CompleteMcu([gui EXCEPT !.link = IF @ = "Queued" THEN "Opening" ELSE "Closed"])
  <2>1. gui.link \in {"Closing", "Queued"} /\ Handle(h)
    BY <1>6 DEF LinkCloses
  <2>2. Onward(gui, h) /\ JobInv(h) /\ Obeys(gui, h)
    BY <1>1, <2>1, LinkClosesGoes
  <2> HIDE DEF h
  <2> QED
    BY <1>2, <2>1, <2>2
<1> QED
  BY <1>3, <1>4, <1>5, <1>6

LEMMA UpdaterKeeps ==
    ASSUME IInv, NEW ok \in BOOLEAN, UpdaterEnds(ok)
    PROVE  IInv' /\ Obeys(gui, gui')
<1> DEFINE why == IF ok THEN "done" ELSE "failed"
           h == UpdaterFinished(gui, ok, why)
<1>1. IsGui(gui) /\ JobInv(gui) /\ gui.updaterActive /\ Handle(h) /\ gui' = h
  BY DEF IInv, UpdaterEnds, Handle, Now
<1>2. why \in Reasons
  BY DEF Reasons
<1> HIDE DEF why
<1>3. Onward(gui, h) /\ JobInv(h) /\ (~ok => h.step = gui.step \/ Ended(h))
  BY <1>1, <1>2, UpdaterFinishedGoes DEF JobInv
<1>4. ~gui.cancelRequested
  BY <1>1 DEF JobInv, JobFits, McuFits, CancelFits
<1> QED
  BY <1>1, <1>3, <1>4, HandleKeeps DEF Onward, Obeys

LEMMA FireKeeps ==
    ASSUME IInv, Fire
    PROVE  IInv' /\ Obeys(gui, gui')
<1>1. PICK t \in gui.timers : Handle(TimerFires(gui, t))
  BY DEF Fire
<1> DEFINE h == TimerFires(gui, t)
<1>2. Onward(gui, h) /\ JobInv(h) /\ Obeys(gui, h)
  BY TimerFiresGoes DEF IInv
<1>3. gui' = h
  BY <1>1 DEF Handle, Now
<1> QED
  BY <1>1, <1>2, <1>3, HandleKeeps DEF Onward

\* Every step keeps the invariant, and what a Cancel has taken.
LEMMA StepKeeps ==
    ASSUME IInv, [Next]_vars
    PROVE  IInv' /\ Obeys(gui, gui')
<1>1. CASE UNCHANGED vars
  BY <1>1 DEF vars, IInv, Obeys
<1>2. CASE WorkerStep \/ \E kind \in {"dropped", "disconnected"} : SessionEnds(kind)
  <2>1. IInv' /\ gui'.step = gui.step
    BY <1>2, WorkerOpensKeeps, WorkerTransfersKeeps, TransferEndsKeeps, WorkerAsksKeeps,
       WorkerClosesKeeps, WorkerCancelsKeeps, SessionEndsKeeps DEF WorkerStep
  <2> QED
    BY <2>1 DEF Obeys
<1>3. CASE Delivery
  BY <1>3, DeliverKeeps DEF Delivery
<1>4. CASE ToolStep
  BY <1>4, FlasherKeeps, FleetKeeps, UpdaterKeeps, CliKeeps, LinkKeeps DEF ToolStep
<1> QED
  BY <1>1, <1>2, <1>3, <1>4, OwnerKeeps, OtherKeeps, LinkKeeps, FireKeeps DEF Next

\* The program starts with nothing begun and nothing connected.
LEMMA InitKeeps ==
    ASSUME Init
    PROVE  IInv
<1>1. IsGui(GuiInit)
  <2>1. <<>> \in Seq(CallsOfGui) /\ {} \in SUBSET Timers /\ {} \in SUBSET Steps
    OBVIOUS
  <2>2. NoResult \in Results
    BY DEF NoResult, Results, Reasons
  <2>3. 0 \in 0..MaxOperations
    BY JobAssumption
  <2> QED
    BY <2>1, <2>2, <2>3 DEF GuiInit, IsGui, GuiFields, Reasons
<1>2. JobInv(GuiInit)
  BY DEF GuiInit, NoResult, JobInv, JobFits, FrameFits, StepFits, ChainMade, ResultIsTrue,
     PullFits, FlashFits, McuFits, CancelFits, FlashPhases
<1>3. worker \in Workers /\ answers \in Seq(Answers)
  BY JobAssumption DEF Init, Workers
<1>4. QueueInv(GuiInit, worker, answers)
  BY DEF Init, GuiInit, QueueInv, CallsFit, AnswersFit, ConnectsFit, TransfersFit, Owned
<1>5. ~GuiInit.holds
  BY DEF GuiInit
<1> QED
  BY <1>1, <1>2, <1>3, <1>4, <1>5 DEF Init, IInv

-----------------------------------------------------------------------------
(* The theorems.                                                           *)

\* The job's part, the queues and the lock keep to one another in every state.
THEOREM Invariance == Spec => []IInv
<1>1. Init => IInv
  BY InitKeeps
<1>2. IInv /\ [Next]_vars => IInv'
  BY StepKeeps
<1> QED
  BY <1>1, <1>2, PTL DEF Spec

\* The state keeps its types: the timers that run are ones of the job, a connection
\* is one that was opened, and an answer is about one of them.
THEOREM TypeCorrect == Spec => []TypeOK
<1>1. IInv => TypeOK
  <2> SUFFICES ASSUME IInv
               PROVE  TypeOK
    OBVIOUS
  <2>1. worker \in [gen : 0..gui.generation, live : BOOLEAN, transfer : 0..MaxOperations]
    BY DEF IInv, IsGui, QueueInv, Workers
  <2>2. \A i \in DOMAIN answers : answers[i].gen \in 0..gui.generation
    <3>1. \A i \in DOMAIN answers : answers[i].gen \in Nat
      BY AnswerGens DEF IInv
    <3>2. worker.gen \in Nat /\ gui.generation \in Nat
      BY DEF IInv, IsGui, Workers
    <3> QED
      BY <3>1, <3>2 DEF IInv, QueueInv, AnswersFit
  <2>3. gui.last.why \in Reasons /\ gui.last.op \in Operations \cup {"none"}
    BY DEF IInv, IsGui, Results
  <2> QED
    BY <2>1, <2>2, <2>3 DEF IInv, IsGui, TypeOK
<1> QED
  BY <1>1, Invariance, PTL

\* Whatever works on the board or on the image does so for the running operation
\* and under its lock file: no result, no Cancel and no timer of an earlier
\* operation ends the operation over running work.
THEOREM TheLockCoversTheWork == Spec => []LockCoversTheWork
<1>1. IInv => LockCoversTheWork
  <2> SUFFICES ASSUME IInv, Working
               PROVE  gui.op # "none" /\ lock = "job"
    BY DEF LockCoversTheWork
  <2>1. gui.step # "none"
    <3>1. CASE gui.puller # "Idle"
      BY <3>1 DEF IInv, JobInv, JobFits, PullFits
    <3>2. CASE gui.flasher \in FlashPhases \/ gui.fleet \in {"Running", "Draining"}
      BY <3>2 DEF IInv, JobInv, JobFits, FlashFits
    <3>3. CASE gui.cli # "none" \/ gui.updaterActive \/ gui.link \in {"Opening", "Open"}
      BY <3>3 DEF IInv, JobInv, JobFits, McuFits
    <3> QED
      BY <3>1, <3>2, <3>3 DEF Working
  <2>2. gui.op # "none"
    BY <2>1 DEF IInv, JobInv, JobFits, FrameFits, StepFits
  <2> QED
    BY <2>2 DEF IInv, JobInv, JobFits, FrameFits
<1> QED
  BY <1>1, Invariance, PTL

\* An operation that has ended leaves nothing behind, neither in the job nor at the
\* build machine: a session the worker holds is the running operation's, or is told
\* to close.
THEOREM NothingStays == Spec => []NothingIsLeft
<1>1. IInv => NoLeftovers
  <2> SUFFICES ASSUME IInv, gui.op = "none"
               PROVE  NoLeftovers
    BY DEF NoLeftovers
  <2>1. gui.step = "none" /\ ~gui.holds
    BY DEF IInv, JobInv, JobFits, FrameFits, StepFits
  <2>2. gui.ssh = "Disconnected" /\ gui.pullPhase = "Idle" /\ gui.puller = "Idle" /\ ~gui.pullerActive
    BY <2>1 DEF IInv, IsGui, JobInv, JobFits, PullFits
  <2>3. ~gui.flasherActive /\ ~gui.fleetActive
    BY <2>1 DEF IInv, JobInv, JobFits, FlashFits
  <2>4. ~gui.linkActive /\ ~gui.updaterActive /\ ~gui.mcuResultPending /\ gui.cli = "none" /\ ~gui.asking
    BY <2>1 DEF IInv, JobInv, JobFits, McuFits
  <2> QED
    BY <2>1, <2>2, <2>3, <2>4 DEF NoLeftovers
<1>2. IInv => SessionHasOwner
  BY DEF IInv, QueueInv, Owned, SessionHasOwner
<1> QED
  BY <1>1, <1>2, Invariance, PTL DEF NothingIsLeft

\* A success is of the operation's own parts: no result of an earlier operation,
\* still stored or on its way, is taken for one of them.
THEOREM SuccessHolds == Spec => []SuccessIsComplete
<1>1. IInv => SuccessIsComplete
  BY DEF IInv, JobInv, JobFits, FrameFits, ResultIsTrue, SuccessIsComplete
<1> QED
  BY <1>1, Invariance, PTL

\* Once a Cancel is taken, the operation does not go on to its next step and does
\* not end in success, though the work it cancels may just have succeeded.
THEOREM CancelIsObeyed == Spec => CancelHolds
<1>1. IInv /\ [Next]_vars =>
          [gui.cancelRequested /\ gui.op # "fleet-flash" /\ ~gui.mcuResultPending
               => \/ gui'.step = gui.step
                  \/ gui'.op = "none" /\ ~gui'.last.ok]_vars
  BY StepKeeps DEF Obeys, Ended
<1> QED
  BY <1>1, Invariance, PTL DEF Spec, CancelHolds

-----------------------------------------------------------------------------
(* The plan of the image and the reads of the board (BoardPlan).           *)

BoardViews == [mode : {"adb", "loader", "none"}, serial : {"node", "stacked", ""}]

\* What was asked for is what the tab has; what is in flight, and what came of it, is what was asked
\* for, unless a later one is held up or a flow made it for itself.
PlansFit ==
    /\ image # "none" => requested = Plan!Key
    /\ image = "none" => requested = Plan!NoKey
    /\ inFlight <=> flasher.makes # Plan!NoKey /\ ~flasher.own
    /\ inFlight /\ ~pending /\ image # "none" => flasher.makes = requested
    /\ ~inFlight /\ ~pending /\ image # "none" /\ plan.state = "Ready" /\ ~flasher.own => plan.rows = requested
    /\ flasher.makes # Plan!NoKey \/ operation = "flash" => flasher.image # "none"
    /\ plan.state = "Ready" => plan.image # "none"

\* A read of the stacked board is of the board in view, until something disturbs it; once it was
\* read it was asked for its product string, and gave it.
ReadsFit ==
    "stacked" \notin lost =>
        /\ "stacked" \in {reading, asking} => view = [mode |-> "adb", serial |-> "stacked"] /\ status = view
        /\ "stacked" \in layoutTried => "stacked" \in {reading, asking} \/ products["stacked"] # ""
        /\ "stacked" \in productTried => "stacked" = asking \/ products["stacked"] # ""

\* The stacked board is nobody else: its layout names no profile, and no detection is of another board.
StackedIsItself ==
    /\ tells \in {"", "odd"} /\ memory["stacked"] \in {"", "odd"} /\ kept["stacked"] \in {"", "odd"}
    /\ \A b \in Plan!Boards : products[b] \in {"", b}
    /\ status = [mode |-> "adb", serial |-> "stacked"] /\ flowProfile \notin {"none", "stacked"} => "stacked" \in lost
    /\ unasked # "none" => operation = "mcu"

ReadsTyped ==
    /\ view \in BoardViews /\ status \in BoardViews
    /\ view.mode = "adb" <=> view.serial # ""
    /\ status.mode = "adb" <=> status.serial # ""
    /\ reading \in Plan!Boards \cup {"none"} /\ asking \in Plan!Boards \cup {"none"}
    /\ reading # "none" => asking = "none"
    /\ layoutTried \subseteq Plan!Boards /\ productTried \subseteq Plan!Boards /\ lost \subseteq Plan!Boards
    /\ DOMAIN products = Plan!Boards /\ DOMAIN memory = Plan!Memories /\ DOMAIN kept = Plan!Memories

BoardInv == ReadsTyped /\ ReadsFit /\ StackedIsItself /\ Plan!PowerIsAsked

PlanTyped == DOMAIN plan = {"state", "image", "rows"} /\ DOMAIN flasher = {"runs", "image", "layout", "makes", "own"}
PlanInv == PlanTyped /\ PlansFit /\ BoardInv

LEMMA KeyOfImage == Plan!Key'.image = image' /\ (image' # "none" => Plan!Key' # Plan!NoKey)
<1>1. Plan!Key' = [image |-> image', layout |-> Plan!BoardLayout']
  BY DEF Plan!Key
<1>2. Plan!Key'.image = image'
  BY <1>1
<1>3. Plan!NoKey.image = "none"
  BY DEF Plan!NoKey
<1> QED
  BY <1>2, <1>3

\* Begin(): the plan of what the tab has, now or held up.
LEMMA BeginFits ==
    ASSUME PlanTyped, NEW key, NEW idle \in BOOLEAN, Plan!Begin(key, idle), key = Plan!Key', image' # "none",
           ~idle => /\ inFlight <=> flasher.makes # Plan!NoKey /\ ~flasher.own
                    /\ flasher.makes # Plan!NoKey \/ operation = "flash" => flasher.image # "none"
                    /\ plan.state = "Ready" => plan.image # "none"
                    /\ operation' = "flash" => operation = "flash"
    PROVE  PlanTyped' /\ PlansFit'
<1>1. key.image = image' /\ key # Plan!NoKey
  BY KeyOfImage
<1>2. requested' = key
  BY DEF Plan!Begin
<1>3. CASE idle
  <2>1. /\ pending' = FALSE /\ inFlight' = TRUE /\ plan' = [plan EXCEPT !.state = "Planning"]
        /\ flasher' = [flasher EXCEPT !.image = key.image, !.layout = key.layout, !.makes = key,
                                      !.runs = FALSE, !.own = FALSE]
    BY <1>3 DEF Plan!Begin
  <2>2. /\ PlanTyped' /\ plan'.state = "Planning" /\ flasher'.makes = key /\ flasher'.own = FALSE
        /\ flasher'.image = image'
    BY <1>1, <2>1 DEF PlanTyped
  <2> QED
    BY <1>1, <1>2, <2>1, <2>2 DEF PlansFit
<1>4. CASE ~idle
  <2>1. pending' = TRUE /\ UNCHANGED <<plan, inFlight, flasher>>
    BY <1>4 DEF Plan!Begin
  <2>2. PlanTyped'
    BY <2>1 DEF PlanTyped
  <2> QED
    BY <1>2, <1>4, <2>1, <2>2 DEF PlansFit, Plan!NoKey
<1> QED
  BY <1>3, <1>4

\* requestPlan(): what was asked for follows what the tab has.
LEMMA PlanFollows ==
    ASSUME PlanTyped, PlansFit, Plan!RequestPlan, operation' = "flash" => operation = "flash"
    PROVE  PlanTyped' /\ PlansFit'
<1>1. CASE image' = "none"
  <2>1. /\ requested' = Plan!NoKey /\ plan' = [plan EXCEPT !.state = "NoImage", !.image = "none"]
        /\ UNCHANGED <<inFlight, pending, flasher>>
    BY <1>1 DEF Plan!RequestPlan, Plan!NoPlan
  <2>2. plan'.state = "NoImage" /\ PlanTyped'
    BY <2>1 DEF PlanTyped
  <2> QED
    BY <1>1, <2>1, <2>2 DEF PlansFit, Plan!NoKey
<1>2. CASE image' # "none" /\ Plan!Key' = requested
  <2>1. UNCHANGED <<plan, requested, inFlight, pending, flasher>>
    BY <1>2 DEF Plan!RequestPlan, Plan!plans
  <2>2. Plan!Key'.image = image' /\ Plan!Key' # Plan!NoKey
    BY <1>2, KeyOfImage
  <2>3. image # "none" /\ Plan!Key = requested
    BY <1>2, <2>2 DEF PlansFit
  <2> QED
    BY <1>2, <2>1, <2>3 DEF PlansFit, PlanTyped, Plan!NoKey
<1>3. CASE image' # "none" /\ Plan!Key' # requested
  <2> DEFINE idle == ~inFlight /\ ~flasher.runs /\ flasher.makes = Plan!NoKey
  <2>1. Plan!Begin(Plan!Key', ~inFlight /\ ~flasher.runs /\ flasher.makes = Plan!NoKey)
    BY <1>3 DEF Plan!RequestPlan
  <2>2. idle \in BOOLEAN /\ Plan!Begin(Plan!Key', idle)
    BY <2>1
  <2> HIDE DEF idle
  <2> QED
    BY <1>3, <2>2, BeginFits DEF PlansFit
<1> QED
  BY <1>1, <1>2, <1>3

\* Steps that leave the plan and what it is made from alone.
LEMMA PlanStands ==
    ASSUME PlanTyped, PlansFit, UNCHANGED <<image, memory, kept, serial, plan, requested, inFlight, pending, flasher>>,
           operation' = "flash" => operation = "flash"
    PROVE  PlanTyped' /\ PlansFit'
<1>1. Plan!Key' = Plan!Key
  BY DEF Plan!Key, Plan!BoardLayout, Plan!LayoutFor
<1> QED
  BY <1>1 DEF PlanTyped, PlansFit, Plan!NoKey

\* The plan that ended was asked for, unless another is held up or a flow made it.
LEMMA PlanEndsFit ==
    ASSUME PlanTyped, PlansFit, Plan!PlanEnds
    PROVE  PlanTyped' /\ PlansFit'
<1>1. /\ flasher.makes # Plan!NoKey /\ UNCHANGED <<image, memory, kept, serial, operation>>
      /\ \E ok \in BOOLEAN : Plan!Planned(ok)
  BY DEF Plan!PlanEnds, Plan!knowledge
<1>2. PICK ok \in BOOLEAN : Plan!Planned(ok)
  BY <1>1
<1>3. Plan!Key' = Plan!Key
  BY <1>1 DEF Plan!Key, Plan!BoardLayout, Plan!LayoutFor
<1>4. CASE pending /\ ~flasher.runs /\ image = "none"
  <2>1. /\ requested' = Plan!NoKey /\ plan' = [plan EXCEPT !.state = "NoImage", !.image = "none"]
        /\ pending' = FALSE /\ inFlight' = FALSE /\ flasher' = [flasher EXCEPT !.makes = Plan!NoKey]
    BY <1>2, <1>4 DEF Plan!Planned, Plan!NoPlan
  <2>2. plan'.state = "NoImage" /\ flasher'.makes = Plan!NoKey /\ flasher'.image = flasher.image /\ PlanTyped'
    BY <2>1 DEF PlanTyped
  <2> QED
    BY <1>1, <1>4, <2>1, <2>2 DEF PlansFit, Plan!NoKey
<1>5. CASE pending /\ ~flasher.runs /\ image # "none"
  <2>1. Plan!Begin(Plan!Key, TRUE)
    BY <1>2, <1>5 DEF Plan!Planned
  <2> QED
    BY <1>1, <1>3, <1>5, <2>1, BeginFits
<1>6. CASE ~(pending /\ ~flasher.runs)
  <2>1. /\ inFlight' = FALSE /\ flasher' = [flasher EXCEPT !.makes = Plan!NoKey]
        /\ plan' = [state |-> IF ok THEN "Ready" ELSE "Failed", image |-> flasher.image, rows |-> flasher.makes]
        /\ UNCHANGED <<pending, requested>>
    BY <1>2, <1>6 DEF Plan!Planned
  <2>2. /\ plan'.image = flasher.image /\ plan'.rows = flasher.makes /\ DOMAIN plan' = {"state", "image", "rows"}
    BY <2>1
  <2>3. /\ flasher'.makes = Plan!NoKey /\ flasher'.image = flasher.image /\ flasher'.own = flasher.own
        /\ DOMAIN flasher' = DOMAIN flasher
    BY <2>1 DEF PlanTyped
  <2> QED
    BY <1>1, <1>3, <2>1, <2>2, <2>3 DEF PlansFit, PlanTyped, Plan!NoKey
<1> QED
  BY <1>4, <1>5, <1>6

\* A flash begins, plans for itself, and ends.
LEMMA FlashPlanFits ==
    ASSUME PlanTyped, PlansFit, Plan!StartFlash \/ Plan!FlowPlans \/ Plan!FlashFinished
    PROVE  PlanTyped' /\ PlansFit'
<1>1. CASE Plan!StartFlash
  <2>1. /\ image # "none" /\ flasher' = [flasher EXCEPT !.runs = TRUE, !.image = image, !.layout = Plan!BoardLayout]
        /\ UNCHANGED <<image, memory, kept, serial, plan, requested, inFlight, pending>>
    BY <1>1 DEF Plan!StartFlash, Plan!knowledge
  <2>2. /\ flasher'.image = image /\ flasher'.makes = flasher.makes /\ flasher'.own = flasher.own
        /\ DOMAIN flasher' = DOMAIN flasher
    BY <2>1 DEF PlanTyped
  <2>3. Plan!Key' = Plan!Key
    BY <2>1 DEF Plan!Key, Plan!BoardLayout, Plan!LayoutFor
  <2> QED
    BY <2>1, <2>2, <2>3 DEF PlansFit, PlanTyped, Plan!NoKey
<1>2. CASE Plan!FlowPlans
  <2>1. PICK layout : flasher' = [flasher EXCEPT !.makes = [image |-> flasher.image, layout |-> layout], !.own = TRUE]
    BY <1>2 DEF Plan!FlowPlans
  <2>2. /\ UNCHANGED <<image, memory, kept, serial, plan, requested, inFlight, pending, operation>>
        /\ operation = "flash" /\ flasher.makes = Plan!NoKey
    BY <1>2 DEF Plan!FlowPlans, Plan!knowledge
  <2>3. /\ flasher'.image = flasher.image /\ flasher'.own = TRUE /\ DOMAIN flasher' = DOMAIN flasher
    BY <2>1 DEF PlanTyped
  <2>4. Plan!Key' = Plan!Key
    BY <2>2 DEF Plan!Key, Plan!BoardLayout, Plan!LayoutFor
  <2> QED
    BY <2>2, <2>3, <2>4 DEF PlansFit, PlanTyped, Plan!NoKey
<1>3. CASE Plan!FlashFinished
  <2>1. operation = "flash" /\ operation' = "none" /\ UNCHANGED <<image, memory, kept, serial>>
    BY <1>3 DEF Plan!FlashFinished, Plan!knowledge
  <2>2. Plan!Key' = Plan!Key
    BY <2>1 DEF Plan!Key, Plan!BoardLayout, Plan!LayoutFor
  <2>3. CASE pending /\ image # "none" /\ ~inFlight /\ flasher.makes = Plan!NoKey
    <3>1. Plan!Begin(Plan!Key, TRUE)
      BY <1>3, <2>3 DEF Plan!FlashFinished
    <3> QED
      BY <2>1, <2>2, <2>3, <3>1, BeginFits
  <2>4. CASE ~(pending /\ image # "none" /\ ~inFlight /\ flasher.makes = Plan!NoKey)
    <3>1. flasher' = [flasher EXCEPT !.runs = FALSE] /\ UNCHANGED inFlight
      BY <1>3, <2>4 DEF Plan!FlashFinished
    <3>2. /\ flasher'.image = flasher.image /\ flasher'.makes = flasher.makes /\ flasher'.own = flasher.own
          /\ DOMAIN flasher' = DOMAIN flasher
      BY <3>1 DEF PlanTyped
    <3>3. CASE ~pending
      <4>1. UNCHANGED <<plan, requested, pending>>
        BY <1>3, <2>4, <3>3 DEF Plan!FlashFinished
      <4> QED
        BY <2>1, <2>2, <3>1, <3>2, <4>1 DEF PlansFit, PlanTyped, Plan!NoKey
    <3>4. CASE pending /\ image = "none"
      <4>1. /\ requested' = Plan!NoKey /\ plan' = [plan EXCEPT !.state = "NoImage", !.image = "none"]
            /\ pending' = FALSE
        BY <1>3, <2>4, <3>4 DEF Plan!FlashFinished, Plan!NoPlan
      <4>2. plan'.state = "NoImage" /\ DOMAIN plan' = DOMAIN plan
        BY <4>1 DEF PlanTyped
      <4> QED
        BY <2>1, <3>1, <3>2, <3>4, <4>1, <4>2 DEF PlansFit, PlanTyped, Plan!NoKey
    <3>5. CASE pending /\ image # "none"
      <4>1. requested' = Plan!Key /\ UNCHANGED <<plan, pending>>
        BY <1>3, <2>4, <3>5 DEF Plan!FlashFinished
      <4> QED
        BY <2>1, <2>2, <3>1, <3>2, <3>5, <4>1 DEF PlansFit, PlanTyped, Plan!NoKey
    <3> QED
      BY <3>3, <3>4, <3>5
  <2> QED
    BY <2>3, <2>4
<1> QED
  BY <1>1, <1>2, <1>3

\* The layout of the stacked board names no profile.
LEMMA OddIsUnknown == \A layout \in {"", "odd"} : Plan!Names(layout) = "unknown"
  BY DEF Plan!Names

\* Steps that leave the board and its reads alone.
LEMMA BoardStands ==
    ASSUME BoardInv, UNCHANGED <<tells, view, status, memory, kept, layoutTried, productTried, reading, asking, products,
                                 lost, unasked>>,
           flowProfile' \in {flowProfile, "none"}, operation = "mcu" => operation' = "mcu"
    PROVE  BoardInv'
<1>1. ReadsTyped'
  BY DEF BoardInv, ReadsTyped, BoardViews, Plan!Boards, Plan!Memories
<1>2. ReadsFit'
  BY DEF BoardInv, ReadsFit
<1>3. StackedIsItself'
  BY DEF BoardInv, StackedIsItself, Plan!Boards
<1>4. Plan!PowerIsAsked'
  BY DEF BoardInv, Plan!PowerIsAsked
<1> QED
  BY <1>1, <1>2, <1>3, <1>4 DEF BoardInv

\* A board comes or goes: a read that runs is lost.
LEMMA BoardChangesInv ==
    ASSUME BoardInv, Plan!BoardChanges
    PROVE  BoardInv'
<1>1. /\ view' \in Plan!Views /\ lost' = lost \cup ({reading, asking} \cap Plan!Boards)
      /\ UNCHANGED <<tells, status, memory, kept, layoutTried, productTried, reading, asking, products, flowProfile,
                     operation, unasked>>
  BY DEF Plan!BoardChanges
<1>2. view' \in BoardViews /\ (view'.mode = "adb" <=> view'.serial # "")
  <2>1. PICK v \in Plan!Views : view' = v
    BY <1>1
  <2>2. CASE v = Plan!Nobody
    BY <2>1, <2>2 DEF Plan!Nobody, BoardViews
  <2>3. CASE v = [mode |-> "loader", serial |-> ""]
    BY <2>1, <2>3 DEF BoardViews
  <2>4. CASE v \in [mode : {"adb"}, serial : Plan!Boards]
    BY <2>1, <2>4 DEF BoardViews, Plan!Boards
  <2> QED
    BY <2>2, <2>3, <2>4 DEF Plan!Views
<1>3. ReadsTyped'
  BY <1>1, <1>2 DEF BoardInv, ReadsTyped, BoardViews, Plan!Boards, Plan!Memories
<1>4. ReadsFit'
  BY <1>1 DEF BoardInv, ReadsFit, Plan!Boards
<1>5. StackedIsItself'
  BY <1>1 DEF BoardInv, StackedIsItself, Plan!Boards
<1>6. Plan!PowerIsAsked'
  BY <1>1 DEF BoardInv, Plan!PowerIsAsked
<1> QED
  BY <1>3, <1>4, <1>5, <1>6 DEF BoardInv

\* onStatus(): the board in view is read, when it was not.
LEMMA StatusInv ==
    ASSUME BoardInv, Plan!Status
    PROVE  BoardInv'
<1>1. /\ operation # "mcu" /\ status' = view
      /\ flowProfile' = IF operation = "flash" THEN flowProfile ELSE "none"
      /\ lost' = IF flowProfile' = "none" THEN lost ELSE lost \cup ((Plan!Boards \cap {view.serial}) \ {flowProfile'})
      /\ UNCHANGED <<memory, kept, tells, view, productTried, asking, products, operation, unasked>>
  BY DEF Plan!Status
<1>2. \/ UNCHANGED <<reading, layoutTried>>
      \/ /\ view.mode = "adb" /\ operation = "none" /\ reading = "none" /\ asking = "none"
         /\ view.serial \notin layoutTried
         /\ reading' = view.serial /\ layoutTried' = layoutTried \cup {view.serial}
  BY DEF Plan!Status
<1>3. view.mode = "adb" => view = [mode |-> "adb", serial |-> view.serial] /\ view.serial \in Plan!Boards
  BY DEF BoardInv, ReadsTyped, BoardViews, Plan!Boards
<1>4. ReadsTyped'
  <2>1. lost' \subseteq Plan!Boards
    BY <1>1 DEF BoardInv, ReadsTyped
  <2>2. /\ reading' \in Plan!Boards \cup {"none"} /\ layoutTried' \subseteq Plan!Boards
        /\ reading' # "none" => asking' = "none"
    BY <1>1, <1>2, <1>3 DEF BoardInv, ReadsTyped
  <2>3. status' \in BoardViews /\ (status'.mode = "adb" <=> status'.serial # "")
    BY <1>1 DEF BoardInv, ReadsTyped
  <2> QED
    BY <1>1, <2>1, <2>2, <2>3 DEF BoardInv, ReadsTyped, BoardViews, Plan!Memories
<1>5. ReadsFit'
  <2> SUFFICES ASSUME "stacked" \notin lost'
               PROVE  /\ "stacked" \in {reading', asking'} => view = [mode |-> "adb", serial |-> "stacked"] /\ status' = view
                      /\ "stacked" \in layoutTried' => "stacked" \in {reading', asking'} \/ products["stacked"] # ""
                      /\ "stacked" \in productTried => "stacked" = asking' \/ products["stacked"] # ""
    BY <1>1 DEF ReadsFit
  <2>1. "stacked" \notin lost
    BY <1>1
  <2>2. CASE UNCHANGED <<reading, layoutTried>>
    BY <1>1, <2>1, <2>2 DEF BoardInv, ReadsFit
  <2>3. CASE /\ view.mode = "adb" /\ reading = "none" /\ asking = "none" /\ view.serial \notin layoutTried
             /\ reading' = view.serial /\ layoutTried' = layoutTried \cup {view.serial}
    BY <1>1, <1>3, <2>1, <2>3 DEF BoardInv, ReadsFit
  <2> QED
    BY <1>2, <2>2, <2>3
<1>6. StackedIsItself'
  <2>1. status' = [mode |-> "adb", serial |-> "stacked"] /\ flowProfile' \notin {"none", "stacked"} => "stacked" \in lost'
    <3>1. SUFFICES ASSUME status' = [mode |-> "adb", serial |-> "stacked"], flowProfile' \notin {"none", "stacked"}
                   PROVE  "stacked" \in lost'
      OBVIOUS
    <3>2. view.serial = "stacked"
      BY <1>1, <3>1
    <3> QED
      BY <1>1, <3>1, <3>2 DEF Plan!Boards
  <2> QED
    BY <1>1, <2>1 DEF BoardInv, StackedIsItself, Plan!Boards
<1>7. Plan!PowerIsAsked'
  BY <1>1 DEF BoardInv, StackedIsItself, Plan!PowerIsAsked
<1> QED
  BY <1>4, <1>5, <1>6, <1>7 DEF BoardInv

\* storeLayout(): a layout is stored for the board that told it.
LEMMA StoreInv ==
    ASSUME BoardInv, NEW b, NEW layout, Plan!Store(b, layout), b = "stacked" => layout \in {"", "odd"}
    PROVE  DOMAIN memory' = Plan!Memories /\ memory'["stacked"] \in {"", "odd"}
<1>1. memory' = [m \in Plan!Memories |-> IF m \in {b, "*"} THEN layout ELSE memory[m]]
  BY DEF Plan!Store
<1>2. "stacked" \in Plan!Memories /\ memory["stacked"] \in {"", "odd"}
  BY DEF Plan!Memories, Plan!Boards, BoardInv, StackedIsItself
<1> QED
  BY <1>1, <1>2

\* The end of a read of the board's layout: its product string is next, unless it is known.
LEMMA LayoutReadInv ==
    ASSUME BoardInv, Plan!LayoutRead
    PROVE  BoardInv'
<1>1. /\ reading # "none" /\ reading' = "none" /\ asking = "none" /\ reading \in Plan!Boards
      /\ UNCHANGED <<kept, status, products, flowProfile, tells, view, layoutTried, operation, unasked>>
  BY DEF Plan!LayoutRead, BoardInv, ReadsTyped
<1>2. CASE lost' = lost \cup {reading} /\ UNCHANGED <<memory, serial, asking, productTried>>
  <2>1. ReadsTyped'
    BY <1>1, <1>2 DEF BoardInv, ReadsTyped, BoardViews, Plan!Boards, Plan!Memories
  <2>2. ReadsFit'
    BY <1>1, <1>2 DEF BoardInv, ReadsFit
  <2>3. StackedIsItself' /\ Plan!PowerIsAsked'
    BY <1>1, <1>2 DEF BoardInv, StackedIsItself, Plan!PowerIsAsked, Plan!Boards
  <2> QED
    BY <2>1, <2>2, <2>3 DEF BoardInv
<1>3. ASSUME NEW layout \in {"", IF view.serial = reading THEN Plan!LayoutOf(reading) ELSE ""},
             IF layout = "" THEN UNCHANGED <<memory, serial, plan, requested, inFlight, pending, flasher>>
             ELSE Plan!Store(reading, layout),
             IF Plan!NeedsProduct(reading, layout)
             THEN asking' = reading /\ productTried' = productTried \cup {reading}
             ELSE UNCHANGED <<asking, productTried>>,
             lost' = IF flowProfile # "none" THEN lost \cup {reading} ELSE lost
      PROVE  BoardInv'
  <2>1. reading = "stacked" => layout \in {"", "odd"}
    BY <1>3 DEF Plan!LayoutOf, BoardInv, StackedIsItself
  <2>2. DOMAIN memory' = Plan!Memories /\ memory'["stacked"] \in {"", "odd"}
    <3>1. CASE layout = ""
      BY <1>3, <3>1 DEF BoardInv, ReadsTyped, StackedIsItself
    <3>2. CASE layout # ""
      BY <1>3, <2>1, <3>2, StoreInv
    <3> QED
      BY <3>1, <3>2
  <2>3. \/ asking' = reading /\ productTried' = productTried \cup {reading}
        \/ UNCHANGED <<asking, productTried>>
    BY <1>3
  <2>4. lost \subseteq lost' /\ lost' \subseteq Plan!Boards
    BY <1>1, <1>3 DEF BoardInv, ReadsTyped
  <2>5. ReadsTyped'
    BY <1>1, <2>2, <2>3, <2>4 DEF BoardInv, ReadsTyped, BoardViews, Plan!Boards, Plan!Memories
  <2>6. ReadsFit'
    <3> SUFFICES ASSUME "stacked" \notin lost'
                 PROVE  /\ "stacked" \in {reading', asking'} => view' = [mode |-> "adb", serial |-> "stacked"] /\ status' = view'
                        /\ "stacked" \in layoutTried' => "stacked" \in {reading', asking'} \/ products'["stacked"] # ""
                        /\ "stacked" \in productTried' => "stacked" = asking' \/ products'["stacked"] # ""
      BY DEF ReadsFit
    <3>1. "stacked" \notin lost
      BY <2>4
    <3>2. CASE reading # "stacked"
      BY <1>1, <2>3, <3>1, <3>2 DEF BoardInv, ReadsFit
    <3>3. CASE reading = "stacked"
      <4>1. /\ view = [mode |-> "adb", serial |-> "stacked"] /\ status = view /\ flowProfile = "none"
        BY <1>1, <1>3, <3>1, <3>3 DEF BoardInv, ReadsFit
      <4>2. CASE products["stacked"] # ""
        BY <1>1, <2>3, <3>1, <3>3, <4>1, <4>2 DEF BoardInv, ReadsFit
      <4>3. CASE products["stacked"] = ""
        <5>1. "stacked" \notin productTried
          BY <1>1, <3>1, <4>3 DEF BoardInv, ReadsFit
        <5>2. Plan!boardProfile' = "unknown"
          <6>1. /\ status'.mode = "adb" /\ status'.serial = "stacked" /\ flowProfile' = "none"
                /\ products'["stacked"] = ""
            BY <1>1, <4>1, <4>3
          <6>2. Plan!LayoutFor("stacked")' \in {"", "odd"}
            BY <1>1, <2>2 DEF Plan!LayoutFor, BoardInv, StackedIsItself
          <6>3. Plan!Names(Plan!LayoutFor("stacked")') = "unknown"
            BY <6>2, OddIsUnknown
          <6> QED
            BY <6>1, <6>2, <6>3 DEF Plan!boardProfile, Plan!Names, Plan!LayoutFor
        <5>3. Plan!NeedsProduct(reading, layout)
          BY <2>1, <3>3, <5>1, <5>2, OddIsUnknown DEF Plan!NeedsProduct
        <5>4. asking' = "stacked"
          BY <1>3, <3>3, <5>3
        <5> QED
          BY <1>1, <4>1, <5>4
      <4> QED
        BY <4>2, <4>3
    <3> QED
      BY <3>2, <3>3
  <2>7. StackedIsItself'
    BY <1>1, <2>2, <2>4 DEF BoardInv, StackedIsItself, Plan!Boards
  <2>8. Plan!PowerIsAsked'
    BY <1>1, <2>4 DEF BoardInv, Plan!PowerIsAsked
  <2> QED
    BY <2>5, <2>6, <2>7, <2>8 DEF BoardInv
<1> QED
  BY <1>2, <1>3 DEF Plan!LayoutRead, Plan!plans

\* The product string of the board in view, or nothing.
LEMMA ProductReadInv ==
    ASSUME BoardInv, Plan!ProductRead
    PROVE  BoardInv'
<1>1. /\ asking # "none" /\ asking' = "none" /\ asking \in Plan!Boards
      /\ UNCHANGED <<tells, view, status, memory, kept, layoutTried, productTried, reading, flowProfile, operation, unasked>>
      /\ \/ products' = [products EXCEPT ![asking] = asking] /\ UNCHANGED lost
         \/ lost' = lost \cup {asking} /\ UNCHANGED products
  BY DEF Plan!ProductRead, BoardInv, ReadsTyped
<1>2. /\ DOMAIN products' = Plan!Boards /\ \A b \in Plan!Boards : products'[b] \in {products[b], b}
      /\ lost \subseteq lost' /\ lost' \subseteq Plan!Boards
      /\ asking \in lost' \/ products'[asking] = asking
      /\ \A b \in Plan!Boards : b # "" /\ (products[b] # "" => products'[b] # "")
  BY <1>1 DEF BoardInv, ReadsTyped, StackedIsItself, Plan!Boards
<1>3. ReadsTyped'
  BY <1>1, <1>2 DEF BoardInv, ReadsTyped, BoardViews, Plan!Boards, Plan!Memories
<1>4. ReadsFit'
  BY <1>1, <1>2 DEF BoardInv, ReadsFit, Plan!Boards
<1>5. StackedIsItself'
  BY <1>1, <1>2 DEF BoardInv, StackedIsItself, Plan!Boards
<1>6. Plan!PowerIsAsked'
  BY <1>1, <1>2 DEF BoardInv, Plan!PowerIsAsked
<1> QED
  BY <1>3, <1>4, <1>5, <1>6 DEF BoardInv

\* A flow reads the layout of the board of the status, and detects it.
LEMMA FlowInv ==
    ASSUME BoardInv, Plan!FlowReadsLayout \/ Plan!FlowDetects
    PROVE  BoardInv'
<1>1. CASE Plan!FlowReadsLayout
  <2>1. UNCHANGED <<kept, tells, view, status, layoutTried, productTried, reading, asking, products, lost, flowProfile,
                    operation, unasked>>
    BY <1>1 DEF Plan!FlowReadsLayout
  <2>2. PICK layout \in IF view.mode = "adb" THEN {Plan!LayoutOf(view.serial)} \ {""} ELSE {"node"} :
           Plan!Store(view.serial, layout)
    BY <1>1 DEF Plan!FlowReadsLayout
  <2>3. view.serial = "stacked" => layout \in {"", "odd"}
    BY <2>2 DEF Plan!LayoutOf, BoardInv, StackedIsItself, ReadsTyped
  <2>4. DOMAIN memory' = Plan!Memories /\ memory'["stacked"] \in {"", "odd"}
    BY <2>2, <2>3, StoreInv
  <2>5. ReadsTyped'
    BY <2>1, <2>4 DEF BoardInv, ReadsTyped, BoardViews, Plan!Boards, Plan!Memories
  <2>6. ReadsFit'
    BY <2>1 DEF BoardInv, ReadsFit
  <2>7. StackedIsItself' /\ Plan!PowerIsAsked'
    BY <2>1, <2>4 DEF BoardInv, StackedIsItself, Plan!PowerIsAsked, Plan!Boards
  <2> QED
    BY <2>5, <2>6, <2>7 DEF BoardInv
<1>2. CASE Plan!FlowDetects
  <2>1. /\ status.mode = "adb" /\ view = status /\ flowProfile' \in {view.serial, "unknown"}
        /\ lost' = IF flowProfile' = "unknown" THEN lost \cup {view.serial} ELSE lost
        /\ UNCHANGED <<tells, view, status, memory, kept, layoutTried, productTried, reading, asking, products, operation,
                       unasked>>
    BY <1>2 DEF Plan!FlowDetects
  <2>2. view.serial \in Plan!Boards
    BY <2>1 DEF BoardInv, ReadsTyped, BoardViews, Plan!Boards
  <2>3. lost \subseteq lost' /\ lost' \subseteq Plan!Boards
    BY <2>1, <2>2 DEF BoardInv, ReadsTyped
  <2>4. ReadsTyped'
    BY <2>1, <2>3 DEF BoardInv, ReadsTyped, BoardViews, Plan!Boards, Plan!Memories
  <2>5. ReadsFit'
    BY <2>1, <2>3 DEF BoardInv, ReadsFit
  <2>6. StackedIsItself'
    <3>1. status' = [mode |-> "adb", serial |-> "stacked"] /\ flowProfile' \notin {"none", "stacked"} => "stacked" \in lost'
      <4>1. SUFFICES ASSUME status' = [mode |-> "adb", serial |-> "stacked"], flowProfile' \notin {"none", "stacked"}
                     PROVE  "stacked" \in lost'
        OBVIOUS
      <4>2. view.serial = "stacked"
        BY <2>1, <4>1
      <4> QED
        BY <2>1, <4>1, <4>2
    <3> QED
      BY <2>1, <3>1 DEF BoardInv, StackedIsItself, Plan!Boards
  <2>7. Plan!PowerIsAsked'
    BY <2>1, <2>3 DEF BoardInv, Plan!PowerIsAsked
  <2> QED
    BY <2>4, <2>5, <2>6, <2>7 DEF BoardInv
<1> QED
  BY <1>1, <1>2

\* Rule 4: the update of a stacked board whose reads have ended is asked about.
LEMMA StartMcuInv ==
    ASSUME BoardInv, Plan!StartMcu
    PROVE  BoardInv'
<1>1. /\ reading = "none" /\ asking = "none" /\ operation' = "mcu"
      /\ unasked' = IF Plan!boardProfile = "stacked" THEN "none" ELSE status.serial
      /\ UNCHANGED <<tells, view, status, memory, kept, layoutTried, productTried, reading, asking, products, lost,
                     flowProfile>>
  BY DEF Plan!StartMcu, Plan!knowledge
<1>2. unasked' = "stacked" => "stacked" \in lost \/ "stacked" \notin layoutTried
  <2>1. SUFFICES ASSUME unasked' = "stacked", "stacked" \notin lost, "stacked" \in layoutTried PROVE FALSE
    OBVIOUS
  <2>2. Plan!boardProfile # "stacked" /\ status.serial = "stacked"
    BY <1>1, <2>1
  <2>3. products["stacked"] = "stacked"
    BY <1>1, <2>1 DEF BoardInv, ReadsFit, StackedIsItself, Plan!Boards
  <2>4. status = [mode |-> "adb", serial |-> "stacked"] /\ status.mode = "adb"
    BY <2>2 DEF BoardInv, ReadsTyped, BoardViews
  <2>5. flowProfile \in {"none", "stacked"}
    BY <2>1, <2>4 DEF BoardInv, StackedIsItself
  <2> QED
    BY <2>2, <2>3, <2>4, <2>5 DEF Plan!boardProfile
<1>3. ReadsTyped'
  BY <1>1 DEF BoardInv, ReadsTyped, BoardViews, Plan!Boards, Plan!Memories
<1>4. ReadsFit'
  BY <1>1 DEF BoardInv, ReadsFit
<1>5. StackedIsItself'
  BY <1>1 DEF BoardInv, StackedIsItself, Plan!Boards
<1>6. Plan!PowerIsAsked'
  BY <1>1, <1>2 DEF Plan!PowerIsAsked
<1> QED
  BY <1>3, <1>4, <1>5, <1>6 DEF BoardInv

LEMMA McuEndsInv ==
    ASSUME BoardInv, Plan!McuEnds
    PROVE  BoardInv'
<1>1. /\ unasked' = "none"
      /\ UNCHANGED <<tells, view, status, memory, kept, layoutTried, productTried, reading, asking, products, lost,
                     flowProfile>>
  BY DEF Plan!McuEnds, Plan!knowledge
<1>2. ReadsTyped'
  BY <1>1 DEF BoardInv, ReadsTyped, BoardViews, Plan!Boards, Plan!Memories
<1>3. ReadsFit'
  BY <1>1 DEF BoardInv, ReadsFit
<1>4. StackedIsItself'
  BY <1>1 DEF BoardInv, StackedIsItself, Plan!Boards
<1>5. Plan!PowerIsAsked'
  BY <1>1 DEF Plan!PowerIsAsked
<1> QED
  BY <1>2, <1>3, <1>4, <1>5 DEF BoardInv

\* The tab begins with no image, no board and what the owner remembers.
LEMMA PlanBegins ==
    ASSUME Plan!BoardInit
    PROVE  PlanInv
<1>1. PlanTyped /\ PlansFit
  BY DEF Plan!BoardInit, PlanTyped, PlansFit, Plan!NoKey
<1>2. ReadsTyped
  BY DEF Plan!BoardInit, ReadsTyped, BoardViews, Plan!Nobody, Plan!Boards, Plan!Memories
<1>3. ReadsFit /\ Plan!PowerIsAsked
  BY DEF Plan!BoardInit, ReadsFit, Plan!PowerIsAsked
<1>4. StackedIsItself
  BY DEF Plan!BoardInit, StackedIsItself, Plan!Boards, Plan!Memories, Plan!LayoutOf, Plan!Nobody
<1> QED
  BY <1>1, <1>2, <1>3, <1>4 DEF PlanInv, BoardInv

\* Every step of the tab.
LEMMA PlanNextInv ==
    ASSUME PlanInv, Plan!BoardNext
    PROVE  PlanInv'
<1>1. PlanTyped /\ PlansFit /\ BoardInv
  BY DEF PlanInv
<1>2. CASE Plan!ChooseImage
  <2>1. Plan!RequestPlan /\ UNCHANGED <<tells, view, status, memory, kept, layoutTried, productTried, reading, asking,
                                        products, lost, unasked, flowProfile, operation>>
    BY <1>2 DEF Plan!ChooseImage
  <2> QED
    BY <1>1, <2>1, PlanFollows, BoardStands DEF PlanInv
<1>3. CASE Plan!PlanEnds
  <2>1. UNCHANGED <<tells, view, status, memory, kept, layoutTried, productTried, reading, asking, products, lost, unasked,
                    flowProfile, operation>>
    BY <1>3 DEF Plan!PlanEnds, Plan!knowledge
  <2> QED
    BY <1>1, <1>3, <2>1, PlanEndsFit, BoardStands DEF PlanInv
<1>4. CASE Plan!BoardChanges
  <2>1. UNCHANGED <<image, memory, kept, serial, plan, requested, inFlight, pending, flasher, operation>>
    BY <1>4 DEF Plan!BoardChanges, Plan!plans
  <2> QED
    BY <1>1, <1>4, <2>1, PlanStands, BoardChangesInv DEF PlanInv
<1>5. CASE Plan!Status
  <2>1. /\ UNCHANGED <<image, memory, kept, operation>>
        /\ Plan!RequestPlan \/ UNCHANGED <<serial, plan, requested, inFlight, pending, flasher>>
    BY <1>5 DEF Plan!Status, Plan!plans
  <2> QED
    BY <1>1, <1>5, <2>1, PlanStands, PlanFollows, StatusInv DEF PlanInv
<1>6. CASE Plan!LayoutRead
  <2>1. /\ UNCHANGED <<image, kept, operation>>
        /\ Plan!RequestPlan \/ UNCHANGED <<memory, serial, plan, requested, inFlight, pending, flasher>>
    BY <1>6 DEF Plan!LayoutRead, Plan!Store, Plan!plans
  <2> QED
    BY <1>1, <1>6, <2>1, PlanStands, PlanFollows, LayoutReadInv DEF PlanInv
<1>7. CASE Plan!ProductRead
  <2>1. UNCHANGED <<image, memory, kept, serial, plan, requested, inFlight, pending, flasher, operation>>
    BY <1>7 DEF Plan!ProductRead, Plan!plans
  <2> QED
    BY <1>1, <1>7, <2>1, PlanStands, ProductReadInv DEF PlanInv
<1>8. CASE Plan!StartFlash \/ Plan!FlowPlans \/ Plan!FlashFinished
  <2>1. /\ UNCHANGED <<tells, view, status, memory, kept, layoutTried, productTried, reading, asking, products, lost, unasked>>
        /\ flowProfile' \in {flowProfile, "none"} /\ operation # "mcu"
    BY <1>8 DEF Plan!StartFlash, Plan!FlowPlans, Plan!FlashFinished, Plan!knowledge
  <2> QED
    BY <1>1, <1>8, <2>1, FlashPlanFits, BoardStands DEF PlanInv
<1>9. CASE Plan!FlowReadsLayout
  <2>1. Plan!RequestPlan /\ operation' = operation
    BY <1>9 DEF Plan!FlowReadsLayout, Plan!Store
  <2> QED
    BY <1>1, <1>9, <2>1, PlanFollows, FlowInv DEF PlanInv
<1>10. CASE Plan!FlowDetects
  <2>1. UNCHANGED <<image, memory, kept, serial, plan, requested, inFlight, pending, flasher, operation>>
    BY <1>10 DEF Plan!FlowDetects, Plan!plans
  <2> QED
    BY <1>1, <1>10, <2>1, PlanStands, FlowInv DEF PlanInv
<1>11. CASE Plan!StartMcu \/ Plan!McuEnds
  <2>1. /\ UNCHANGED <<image, memory, kept, serial, plan, requested, inFlight, pending, flasher>>
        /\ operation' # "flash"
    BY <1>11 DEF Plan!StartMcu, Plan!McuEnds, Plan!knowledge, Plan!plans
  <2> QED
    BY <1>1, <1>11, <2>1, PlanStands, StartMcuInv, McuEndsInv DEF PlanInv
<1> QED
  BY <1>2, <1>3, <1>4, <1>5, <1>6, <1>7, <1>8, <1>9, <1>10, <1>11 DEF Plan!BoardNext

\* The plan the tab shows is made from the image and the layout in view, whatever is chosen, plugged
\* in or flashed meanwhile, and the owner is asked before the power of a stacked board is taken
\* (FirmwareJob).
THEOREM PlanHoldsAlways == BoardSpec => []PlanHolds
<1>1. BoardInit => PlanInv
  BY PlanBegins DEF BoardInit
<1>2. PlanInv /\ [BoardNext]_<<which, vars, ofMcu, ofPlan>> => PlanInv'
  <2> SUFFICES ASSUME PlanInv, [BoardNext]_<<which, vars, ofMcu, ofPlan>> PROVE PlanInv'
    OBVIOUS
  <2>1. Plan!BoardNext \/ UNCHANGED ofPlan
    BY DEF BoardNext
  <2>2. CASE UNCHANGED ofPlan
    <3>1. UNCHANGED <<image, tells, view, status, memory, kept, serial, layoutTried, productTried, reading, asking, products,
                      flowProfile, operation, unasked, lost, plan, requested, inFlight, pending, flasher>>
      BY <2>2 DEF ofPlan
    <3> QED
      BY <3>1, PlanStands, BoardStands DEF PlanInv
  <2> QED
    BY <2>1, <2>2, PlanNextInv
<1>3. PlanInv => PlanHolds
  BY DEF PlanHolds, PlanInv, PlansFit, BoardInv, Plan!PlanIsOfItsInputs
<1> QED
  BY <1>1, <1>2, <1>3, PTL DEF BoardSpec

===============================================================================
