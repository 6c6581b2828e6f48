------------------------------- MODULE SocProofs -------------------------------
(***************************************************************************)
(* What TLAPS proves about the flash of one Rockchip board (SocFlash), on  *)
(* a bench of any boards, for any choices of the owner and any number of   *)
(* flashes, plans and rebuilds of the image: the invariants of a flow, and *)
(* that no board gets an image that contradicts it.  The last section has  *)
(* the external commands a flow runs (ToolRun).                            *)
(***************************************************************************)
EXTENDS MCTools, SequenceTheorems, TLAPS

\* A board whose PID names a profile has that profile's layout, and its cmdline tells it or
\* nothing; the layout an owner remembers is a profile's; some row is to be written.
BenchAssumption ==
    /\ nobody \notin Boards
    /\ BoardOf \in [Boards -> [pid : Profiles \cup {Unknown}, layout : Layouts, cmdline : Layouts,
                               product : Profiles \cup {Unknown}]]
    /\ \A b \in Boards : /\ BoardOf[b].pid \in Profiles => BoardOf[b].layout = BoardOf[b].pid
                         /\ BoardOf[b].cmdline \in {BoardOf[b].layout, "none"}
    /\ Settings \subseteq [override : Profiles \cup {Unknown}, force : BOOLEAN, handler : BOOLEAN, verify : BOOLEAN,
                           wait : BOOLEAN, memory : Profiles \cup {"none"}, rows : Seq({"env", "boot"}) \ {<<>>}]

-----------------------------------------------------------------------------
(* The evidence for a profile (BoardProfile). *)

LEMMA FourPieces ==
    ASSUME NEW a, NEW b, NEW c, NEW d
    PROVE  FirstKnown(<<a, b, c, d>>) =
              IF a \in Profiles THEN a ELSE IF b \in Profiles THEN b ELSE IF c \in Profiles THEN c
              ELSE IF d \in Profiles THEN d ELSE Unknown
<1> DEFINE e == <<a, b, c, d>>
           known == {i \in DOMAIN e : e[i] \in Profiles}
           first == CHOOSE i \in known : \A j \in known : i <= j
<1>1. DOMAIN e = 1..4 /\ e[1] = a /\ e[2] = b /\ e[3] = c /\ e[4] = d
  OBVIOUS
<1>2. FirstKnown(e) = IF known = {} THEN Unknown ELSE e[first]
  BY DEF FirstKnown
<1> HIDE DEF e
<1>3. \A k \in known : (\A j \in known : k <= j) => first = k
  <2> TAKE k \in known
  <2> HAVE \A j \in known : k <= j
  <2>1. first \in known /\ \A j \in known : first <= j
    OBVIOUS
  <2>2. known \subseteq 1..4
    BY <1>1
  <2> QED
    BY <2>1, <2>2
<1> QED
  BY <1>1, <1>2, <1>3 DEF e

LEMMA TwoPieces ==
    ASSUME NEW a, NEW b
    PROVE  FirstKnown(<<a, b>>) = IF a \in Profiles THEN a ELSE IF b \in Profiles THEN b ELSE Unknown
<1> DEFINE e == <<a, b>>
           known == {i \in DOMAIN e : e[i] \in Profiles}
           first == CHOOSE i \in known : \A j \in known : i <= j
<1>1. DOMAIN e = 1..2 /\ e[1] = a /\ e[2] = b
  OBVIOUS
<1>2. FirstKnown(e) = IF known = {} THEN Unknown ELSE e[first]
  BY DEF FirstKnown
<1> HIDE DEF e
<1>3. \A k \in known : (\A j \in known : k <= j) => first = k
  <2> TAKE k \in known
  <2> HAVE \A j \in known : k <= j
  <2>1. first \in known /\ \A j \in known : first <= j
    OBVIOUS
  <2>2. known \subseteq 1..2
    BY <1>1
  <2> QED
    BY <2>1, <2>2
<1> QED
  BY <1>1, <1>2, <1>3 DEF e

\* A PID that the override does not contradict is the profile; and a profile is one.
LEMMA DetectsThePid ==
    ASSUME NEW override, NEW pid, NEW product, NEW layout
    PROVE  /\ detectBoard(override, pid, product, layout) \in Profiles \cup {Unknown}
           /\ pid \in Profiles /\ ~overrideRefusal(override, pid) => detectBoard(override, pid, product, layout) = pid
  BY FourPieces DEF detectBoard, overrideRefusal, Contradict

\* An image with a chip tag is of that profile.
LEMMA DetectsTheTag ==
    ASSUME NEW tag, NEW layout, tag \in Profiles
    PROVE  detectImage(tag, layout) = tag
  BY TwoPieces DEF detectImage

-----------------------------------------------------------------------------
(* The invariant of a flow. *)

Running == {"Detecting", "RebootingToLoader", "WaitingForLoader", "Flashing", "WaitingForAdb", "ReadingBoardInfo"}
Ends == {"Done", "Failed", "Cancelled"}
Rows == {"env", "boot"}

\* What a flow can know.
Known ==
    [mtd : Layouts, boardRead : BOOLEAN, loaderRead : BOOLEAN, viaTwo : BOOLEAN,
     product : Profiles \cup {Unknown}, asked : BOOLEAN, profile : Profiles \cup {Unknown},
     pid : Profiles \cup {Unknown}, board : Boards \cup {nobody}, at : Boards \cup {nobody}, any : BOOLEAN,
     polls : Nat, layoutAnswer : {"open", "yes", "no"}, loaderAnswer : {"open", "yes", "no"}]

\* The commands of each phase.
StepOf(what, command) ==
    \/ what = "Detecting" /\ command \in {"LD", "devices"}
    \/ what = "RebootingToLoader" /\ command \in {"cmdline", "product", "plan", "answer", "reboot"}
    \/ what = "WaitingForLoader" /\ command \in {"LD", "devices", "poll", "RL env", "PL"}
    \/ what = "Flashing" /\ command \in {"plan", "answer", "UF", "WL", "RL", "RD"}
    \/ what = "WaitingForAdb" /\ command = "poll"
    \/ what = "ReadingBoardInfo" /\ command = "info"

\* A board in Loader mode was adopted: its PID is known, and nothing contradicts it.
Adopted(known) ==
    /\ known.at \in Boards /\ known.pid = BoardOf[known.at].pid /\ ~overrideRefusal(set.override, known.pid)
    /\ known.pid \in Profiles => known.profile = known.pid

\* The layout is the adopted board's, as far as its PID tells.
OwnLayout(known) ==
    known.pid \in Profiles /\ known.mtd # "none" /\ known.board \in {nobody, known.at}
    => known.mtd = BoardOf[known.at].layout

\* What a flow knows fits the command it waits for: the layout it has is the PC's memory until a
\* board was asked, and of that board from then on.
Suits(known, what, command) ==
    /\ known \in Known
    /\ known.board # nobody /\ command # "cmdline" =>
          known.viaTwo /\ known.mtd \in {BoardOf[known.board].layout, "none"}
    /\ known.viaTwo => known.board # nobody
    /\ known.board = nobody /\ what \in {"Detecting", "WaitingForLoader"} /\ command \notin {"RL env", "PL"} =>
          known.mtd = set.memory
    /\ what = "RebootingToLoader" => known.board # nobody
    /\ command \in {"RL env", "PL"} => known.board = nobody /\ known.mtd = "none"
    /\ command \in {"RL env", "PL"} \/ (what = "Flashing" /\ command # "UF") => Adopted(known)
    /\ what = "Flashing" => OwnLayout(known)

BenchModes == {"away", "adb"} \cup Download
Plans == [at : {"idle", "EXF", "later"}, build : Nat, key : Layouts, flow : Nat,
          phase : {"Idle", "RebootingToLoader", "Flashing"}, own : BOOLEAN, round : Nat]
ExtractFolders == [key : Nat, holds : Nat]

SocTyped ==
    /\ bench \in [Boards -> BenchModes]
    /\ flash \in [Boards -> [Rows -> Nat]]
    /\ built \in Seq(ImageKinds) /\ Disk \in Nat \ {0}
    /\ set \in Settings
    /\ phase \in Running \cup Ends \cup {"Idle"} /\ flow \in Nat
    /\ f \in Known
    /\ run \in Plans /\ folder \in ExtractFolders
    /\ asking \in [rule : {0, 2, 3}, flow : Nat] /\ asking.flow <= flow
    /\ writing \in [rows : Seq(Rows), at : Nat \ {0}, build : Nat]
    /\ log \in [starts : Nat, ends : Nat, changes : Nat, judged : Nat]

\* A flow that runs waits for one command, of its phase; its end is told once.
FlowFits ==
    /\ phase \in Running => StepOf(phase, step) /\ Suits(f, phase, step) /\ query = "idle"
    /\ phase \notin Running => step \in {"idle", "refuse"} /\ writing = NoWrites
    /\ log.ends + (IF phase \in Running \/ step = "refuse" THEN 1 ELSE 0) = log.starts
    /\ asking.rule # 0 /\ asking.flow = flow => phase \in Running /\ step = "answer"

\* The folder holds the build it is said to hold, or, rebuilt while it was unpacked, a later one;
\* the plan kept is of the folder, and only one that unpacks changes what the folder holds.
FilesFit ==
    /\ folder.key <= folder.holds /\ folder.holds <= Disk
    /\ kept.valid => kept.build = folder.key
    /\ run.at # "idle" => run.build \in 1..Disk
    /\ run.at = "EXF" => folder.key < run.build
    /\ run.at = "later" => folder.key = run.build

\* The build rule 1 read does not contradict the profile.
JudgedFits == ~Contradict(f.profile, built[log.judged].tag)

\* What was judged is what will be written and what is written.
WritesFit ==
    /\ writing # NoWrites => step \in {"WL", "RL", "RD"} \/ phase \in {"WaitingForAdb", "ReadingBoardInfo"}
    /\ writing.rows # <<>> => writing.build = log.judged
    /\ phase = "Flashing" /\ step \in {"answer", "WL", "RL", "RD"} => log.judged \in 1..Disk /\ JudgedFits
    /\ phase = "Flashing" /\ step = "answer" => folder.holds = log.judged /\ run.at # "EXF"
    /\ step \in {"WL", "RL", "RD"} => writing.rows # <<>>
    /\ step \in {"WL", "RL"} => writing.at <= Len(writing.rows)

\* The rows read back so far: a row that is written again is read back again.
RowHeld(i) == flash[f.at][writing.rows[i]] = writing.build
RowsFit ==
    set.verify =>
       /\ step = "WL" => \A i \in 1..Len(writing.rows) : i < writing.at => RowHeld(i)
       /\ step = "RL" => \A i \in 1..Len(writing.rows) :
                            i < writing.at /\ writing.rows[i] # writing.rows[writing.at] => RowHeld(i)
       /\ step = "RD" => \A i \in 1..Len(writing.rows) : RowHeld(i)

SocInv == SocTyped /\ FlowFits /\ FilesFit /\ WritesFit /\ RowsFit

-----------------------------------------------------------------------------
(* What a step of a flow can be: its end, its next command, the rules, a plan. *)

\* What such a step leaves of the bench and of the files.
Beside ==
    /\ bench' \in [Boards -> BenchModes] /\ flash' \in [Boards -> [Rows -> Nat]] /\ UNCHANGED <<built, set>>
    /\ run' \in Plans /\ folder' \in ExtractFolders /\ FilesFit'

LEMMA Remembers ==
    ASSUME SocInv, BenchAssumption
    PROVE  set.memory \in Layouts /\ set.rows \in Seq(Rows) /\ set.rows # <<>> /\ NewFlow(set.memory) \in Known
  BY DEF SocInv, SocTyped, BenchAssumption, NewFlow, Known, Layouts, Rows

LEMMA SocBegins ==
    ASSUME Init, BenchAssumption
    PROVE  SocInv
<1>1. /\ bench \in [Boards -> BenchModes] /\ flash = [b \in Boards |-> [r \in {"env", "boot"} |-> 0]]
      /\ set \in Settings /\ phase = "Idle" /\ flow = 0 /\ query = "idle" /\ step = "idle" /\ f = NewFlow(set.memory)
      /\ kept = NoPlan /\ run = NoRun /\ folder = [key |-> 0, holds |-> 0] /\ asking = NoQuestion
      /\ writing = NoWrites /\ log = [starts |-> 0, ends |-> 0, changes |-> 0, judged |-> 0]
  BY DEF Init, Idle, BenchModes
<1>2. built \in Seq(ImageKinds) /\ Len(built) = 1
  <2>1. PICK k \in ImageKinds : built = <<k>>
    BY DEF Init
  <2> QED
    BY <2>1
<1>3. NewFlow(set.memory) \in Known
  BY <1>1 DEF BenchAssumption, NewFlow, Known, Layouts
<1>4. run \in Plans /\ folder \in ExtractFolders /\ asking \in [rule : {0, 2, 3}, flow : Nat] /\ asking.flow <= flow
  BY <1>1 DEF NoRun, Idle, Plans, ExtractFolders, NoQuestion, Layouts
<1>5. writing \in [rows : Seq(Rows), at : Nat \ {0}, build : Nat]
  <2>1. <<>> \in Seq(Rows)
    OBVIOUS
  <2> QED
    BY <1>1, <2>1 DEF NoWrites
<1>6. SocTyped
  BY <1>1, <1>2, <1>3, <1>4, <1>5 DEF SocTyped, Disk, Rows
<1>7. FlowFits
  BY <1>1 DEF FlowFits, Running, NoQuestion
<1>8. FilesFit
  BY <1>1, <1>2 DEF FilesFit, NoPlan, NoRun, Disk, Idle
<1>9. WritesFit /\ RowsFit
  BY <1>1 DEF WritesFit, RowsFit, NoWrites
<1> QED
  BY <1>6, <1>7, <1>8, <1>9 DEF SocInv

\* A flow ends, and nothing of it is left.
LEMMA FlowOver ==
    ASSUME SocInv, BenchAssumption, NEW end \in Ends, EndFlow(end), phase \in Running \/ step = "refuse",
           asking' \in {asking, NoQuestion}, Beside
    PROVE  SocInv'
<1>1. /\ phase' = end /\ flow' = flow + 1 /\ query' = "idle" /\ step' = "idle" /\ writing' = NoWrites
      /\ f' = NewFlow(set.memory) /\ log' = [log EXCEPT !.ends = @ + 1]
  BY DEF EndFlow, Idle
<1>2. end \notin Running
  BY DEF Ends, Running
<1>3. asking' \in [rule : {0, 2, 3}, flow : Nat] /\ asking'.flow < flow'
  BY <1>1 DEF SocInv, SocTyped, NoQuestion
<1>4. writing' \in [rows : Seq(Rows), at : Nat \ {0}, build : Nat]
  <2>1. <<>> \in Seq(Rows)
    OBVIOUS
  <2> QED
    BY <1>1, <2>1 DEF NoWrites
<1>5. log' \in [starts : Nat, ends : Nat, changes : Nat, judged : Nat] /\ log'.ends = log.ends + 1 /\ log'.starts = log.starts
  <2>1. log \in [starts : Nat, ends : Nat, changes : Nat, judged : Nat]
    BY DEF SocInv, SocTyped
  <2>2. log' = [log EXCEPT !.ends = @ + 1]
    BY <1>1
  <2> QED
    BY <2>1, <2>2
<1>6. SocTyped'
  <2>1. f' \in Known /\ flow' \in Nat /\ phase' \in Ends
    BY <1>1, Remembers DEF SocInv, SocTyped
  <2>2. bench' \in [Boards -> BenchModes] /\ flash' \in [Boards -> [Rows -> Nat]] /\ run' \in Plans /\ folder' \in ExtractFolders
    BY DEF Beside
  <2>3. built' \in Seq(ImageKinds) /\ Disk' \in Nat \ {0} /\ set' \in Settings
    BY DEF Beside, SocInv, SocTyped, Disk
  <2> QED
    BY <1>3, <1>4, <1>5, <2>1, <2>2, <2>3 DEF SocTyped
<1>7. FlowFits'
  <2>1. log'.ends = log'.starts
    BY <1>5 DEF SocInv, FlowFits, SocTyped
  <2>2. asking'.flow # flow'
    BY <1>1, <1>3 DEF SocInv, SocTyped
  <2>3. log'.ends + 0 = log'.ends
    BY <1>5
  <2> QED
    BY <1>1, <1>2, <2>1, <2>2, <2>3 DEF FlowFits
<1>8. WritesFit' /\ RowsFit'
  BY <1>1, <1>2 DEF WritesFit, RowsFit, NoWrites, Running
<1> QED
  BY <1>6, <1>7, <1>8 DEF SocInv, Beside

\* The next command of a flow.
LEMMA FlowGoes ==
    ASSUME SocInv, BenchAssumption, phase \in Running, step # "answer",
           NEW next \in Running, NEW command, command \notin {"answer", "WL", "RL", "RD"}, NEW known,
           Go(next, command, known), StepOf(next, command), Suits(known, next, command),
           writing = NoWrites \/ next \in {"WaitingForAdb", "ReadingBoardInfo"}, Beside
    PROVE  SocInv'
<1>1. phase' = next /\ step' = command /\ f' = known /\ UNCHANGED <<flow, query, asking, writing, log>>
  BY DEF Go
<1>2. known \in Known /\ command \notin {"idle", "refuse"}
  BY DEF Suits, StepOf
<1>3. Suits(f, phase, step)'
  BY <1>1 DEF Suits, Adopted, OwnLayout, Beside
<1>4. SocTyped'
  <2>1. bench' \in [Boards -> BenchModes] /\ flash' \in [Boards -> [Rows -> Nat]] /\ run' \in Plans /\ folder' \in ExtractFolders
    BY DEF Beside
  <2>2. built' \in Seq(ImageKinds) /\ Disk' \in Nat \ {0} /\ set' \in Settings
    BY DEF Beside, SocInv, SocTyped, Disk
  <2> QED
    BY <1>1, <1>2, <2>1, <2>2 DEF SocInv, SocTyped
<1>5. FlowFits'
  <2>1. query = "idle" /\ log.ends + 1 = log.starts
    BY DEF SocInv, FlowFits
  <2>2. ~(asking.rule # 0 /\ asking.flow = flow)
    BY DEF SocInv, FlowFits
  <2> QED
    BY <1>1, <1>2, <1>3, <2>1, <2>2 DEF FlowFits
<1>6. WritesFit' /\ RowsFit'
  BY <1>1 DEF SocInv, WritesFit, RowsFit, Beside, NoWrites
<1> QED
  BY <1>4, <1>5, <1>6 DEF SocInv, Beside

\* Rules 1 to 3: they refuse, they ask, or what they let happen is of the build rule 1 read, which
\* does not contradict the profile.
LEMMA RulesJudge ==
    ASSUME SocInv, BenchAssumption, phase \in Running, writing = NoWrites, Beside,
           NEW next \in {"RebootingToLoader", "Flashing"}, NEW first \in {1, 2, 3}, NEW known,
           Suits(known, next, "answer"), applyProfileRules(next, first, known),
           next = "Flashing" =>
              /\ folder'.holds = (IF first = 1 THEN Disk ELSE log.judged) /\ run'.at # "EXF"
              /\ first # 1 => log.judged \in 1..Disk /\ ~Contradict(known.profile, built[log.judged].tag)
    PROVE  SocInv'
<1> DEFINE objections == Objections(first, known)
           rule == CHOOSE r \in objections : \A q \in objections : r <= q
           judged == IF first = 1 THEN Disk ELSE log.judged
<1>1. objections \subseteq first..3
  BY DEF Objections
<1>2. 1 \in objections => rule = 1
  <2> HAVE 1 \in objections
  <2>1. \A q \in objections : 1 <= q
    BY <1>1
  <2>2. rule \in objections /\ \A q \in objections : rule <= q
    BY <2>1
  <2> HIDE DEF objections, rule
  <2>3. rule \in 1..3 /\ rule <= 1
    BY <1>1, <2>2
  <2> QED
    BY <2>3
<1>3. first = 1 /\ 1 \notin objections => ~Contradict(known.profile, built[Disk].tag)
  <2> SUFFICES ASSUME first = 1, 1 \notin objections
               PROVE  ~Contradict(known.profile, built[Disk].tag)
    OBVIOUS
  <2>1. ~Contradict(known.profile, computeImageProfile)
    BY DEF Objections, imageRefusal
  <2>2. built[Disk].tag \in Profiles => computeImageProfile = built[Disk].tag
    BY DetectsTheTag DEF computeImageProfile
  <2> QED
    BY <2>1, <2>2 DEF Contradict
<1>4. 1 \notin objections /\ next = "Flashing" => judged \in 1..Disk /\ ~Contradict(known.profile, built[judged].tag)
  <2>1. Disk \in 1..Disk
    BY DEF SocInv, SocTyped
  <2> QED
    BY <1>3, <2>1
<1>5. /\ \/ objections = {} /\ Passed(next, known, judged) /\ asking' = NoQuestion
         \/ /\ objections # {} /\ MayAsk(rule, known)
            /\ asking' = [rule |-> rule, flow |-> flow]
            /\ phase' = next /\ f' = known /\ step' = "answer"
            /\ log' = [log EXCEPT !.judged = judged]
            /\ UNCHANGED <<flow, query, writing>>
         \/ /\ objections # {} /\ ~MayAsk(rule, known)
            /\ EndFlow("Failed") /\ asking' = NoQuestion
  BY DEF applyProfileRules
<1>6. /\ known \in Known /\ judged \in Nat
      /\ bench' \in [Boards -> BenchModes] /\ flash' \in [Boards -> [Rows -> Nat]] /\ run' \in Plans /\ folder' \in ExtractFolders
      /\ built' \in Seq(ImageKinds) /\ Disk' = Disk /\ Disk' \in Nat \ {0} /\ set' \in Settings
  BY DEF Beside, SocInv, SocTyped, Disk, Suits
<1>7. query = "idle" /\ log.ends + 1 = log.starts /\ Running # {} /\ next \in Running
  BY DEF SocInv, FlowFits, Running
<1>8. [log EXCEPT !.judged = judged] \in [starts : Nat, ends : Nat, changes : Nat, judged : Nat]
  <2>1. log \in [starts : Nat, ends : Nat, changes : Nat, judged : Nat]
    BY DEF SocInv, SocTyped
  <2> HIDE DEF judged
  <2> QED
    BY <1>6, <2>1
<1>9. NoQuestion \in [rule : {0, 2, 3}, flow : Nat] /\ NoQuestion.flow <= flow /\ NoQuestion.rule = 0
  BY DEF NoQuestion, SocInv, SocTyped
<1> HIDE DEF objections, rule, judged
<1>10. CASE objections = {} /\ Passed(next, known, judged) /\ asking' = NoQuestion /\ next = "RebootingToLoader"
  <2>1. /\ phase' = next /\ f' = known /\ log' = [log EXCEPT !.judged = judged] /\ step' = "reboot"
        /\ UNCHANGED <<flow, query, writing>>
    BY <1>10 DEF Passed
  <2>2. Suits(f, phase, step)' /\ StepOf(phase, step)'
    BY <1>10, <2>1 DEF Suits, StepOf, Beside
  <2>3. SocTyped'
    BY <1>6, <1>7, <1>8, <1>9, <1>10, <2>1 DEF SocInv, SocTyped
  <2>4. FlowFits'
    BY <1>7, <1>8, <1>9, <1>10, <2>1, <2>2 DEF FlowFits, SocInv, SocTyped
  <2>5. WritesFit' /\ RowsFit'
    BY <1>10, <2>1 DEF WritesFit, RowsFit, NoWrites
  <2> QED
    BY <2>3, <2>4, <2>5 DEF SocInv, Beside
<1>11. CASE objections = {} /\ Passed(next, known, judged) /\ asking' = NoQuestion /\ next = "Flashing"
  <2>1. /\ phase' = next /\ f' = known /\ log' = [log EXCEPT !.judged = judged] /\ step' = "WL"
        /\ writing' = [rows |-> set.rows, at |-> 1, build |-> folder'.holds] /\ UNCHANGED <<flow, query>>
    BY <1>11 DEF Passed
  <2>2. Suits(f, phase, step)' /\ StepOf(phase, step)'
    BY <1>11, <2>1 DEF Suits, StepOf, Beside, Adopted, OwnLayout
  <2>3. /\ writing' \in [rows : Seq(Rows), at : Nat \ {0}, build : Nat] /\ writing'.rows # <<>> /\ writing'.at = 1
        /\ 1 <= Len(writing'.rows)
    BY <1>6, <2>1, Remembers DEF ExtractFolders
  <2>4. SocTyped'
    BY <1>6, <1>7, <1>8, <1>9, <1>11, <2>1, <2>3 DEF SocInv, SocTyped
  <2>5. FlowFits'
    BY <1>7, <1>8, <1>9, <1>11, <2>1, <2>2 DEF FlowFits, SocInv, SocTyped
  <2>6. WritesFit'
    <3>1. judged \in 1..Disk /\ ~Contradict(known.profile, built[judged].tag)
      BY <1>4, <1>11
    <3>2. log'.judged = judged /\ writing'.build = judged
      BY <1>8, <1>11, <2>1 DEF SocInv, SocTyped, judged
    <3>3. JudgedFits'
      BY <2>1, <3>1, <3>2 DEF JudgedFits, Beside
    <3> QED
      BY <1>6, <1>11, <2>1, <2>3, <3>1, <3>2, <3>3 DEF WritesFit
  <2>7. RowsFit'
    BY <2>1, <2>3 DEF RowsFit
  <2> QED
    BY <2>4, <2>5, <2>6, <2>7 DEF SocInv, Beside
<1>12. CASE /\ objections # {} /\ MayAsk(rule, known)
            /\ asking' = [rule |-> rule, flow |-> flow]
            /\ phase' = next /\ f' = known /\ step' = "answer"
            /\ log' = [log EXCEPT !.judged = judged]
            /\ UNCHANGED <<flow, query, writing>>
  <2>1. rule \in {2, 3} /\ 1 \notin objections
    BY <1>2, <1>12 DEF MayAsk
  <2>2. Suits(f, phase, step)' /\ StepOf(phase, step)'
    BY <1>12 DEF Suits, StepOf, Beside, Adopted, OwnLayout
  <2>3. asking' \in [rule : {0, 2, 3}, flow : Nat] /\ asking'.flow = flow
    BY <1>12, <2>1 DEF SocInv, SocTyped
  <2>4. SocTyped'
    BY SMTT(30), <1>6, <1>7, <1>8, <1>12, <2>3 DEF SocInv, SocTyped
  <2>5. FlowFits'
    BY <1>7, <1>8, <1>12, <2>2 DEF FlowFits, SocInv, SocTyped
  <2>6. WritesFit'
    <3>1. log'.judged = judged
      BY <1>8, <1>12 DEF SocInv, SocTyped
    <3>2. next = "Flashing" => JudgedFits' /\ log'.judged \in 1..Disk' /\ folder'.holds = log'.judged
      BY <1>4, <1>6, <1>12, <2>1, <3>1 DEF JudgedFits, Beside, judged
    <3> QED
      BY <1>12, <3>2 DEF WritesFit, NoWrites
  <2>7. RowsFit'
    BY <1>12 DEF RowsFit
  <2> QED
    BY <2>4, <2>5, <2>6, <2>7 DEF SocInv, Beside
<1>13. CASE objections # {} /\ ~MayAsk(rule, known) /\ EndFlow("Failed") /\ asking' = NoQuestion
  BY <1>13, FlowOver DEF Ends
<1> QED
  BY <1>5, <1>10, <1>11, <1>12, <1>13

\* The flow needs a current plan.
LEMMA PlanIsEnsured ==
    ASSUME SocInv, BenchAssumption, phase \in Running, step # "answer", writing = NoWrites,
           NEW next \in {"RebootingToLoader", "Flashing"}, NEW known, NEW round, NEW running \in Plans,
           Suits(known, next, "plan"), round \in Nat,
           UNCHANGED world, folder' \in ExtractFolders,
           folder'.key <= folder'.holds /\ folder'.holds <= Disk,
           kept'.valid => kept'.build = folder'.key,
           running.at # "idle" => running.build \in 1..Disk,
           running.at = "EXF" => folder'.key < running.build,
           running.at = "later" => folder'.key = running.build,
           ensurePlan(next, known, round, running)
    PROVE  SocInv'
<1>1. UNCHANGED <<bench, flash, built, set>> /\ Disk' = Disk /\ Disk \in Nat \ {0} /\ next \in Running
  BY DEF world, Disk, SocInv, SocTyped, Running
<1>2. run' = running => Beside
  BY <1>1 DEF Beside, SocInv, SocTyped, FilesFit
<1>3. CASE planIsCurrent(known) /\ WithPlan(next, known) /\ run' = running
  <2>1. kept'.build = Disk /\ kept'.valid
    BY <1>3 DEF planIsCurrent
  <2>2. folder'.holds = Disk /\ running.at # "EXF"
    <3>1. folder'.key = Disk /\ folder'.key \in Nat /\ folder'.holds \in Nat /\ running.build \in Nat
      BY <2>1 DEF ExtractFolders, Plans
    <3> QED
      BY <1>1, <3>1
  <2>3. Suits(known, next, "answer")
    BY DEF Suits
  <2>4. CASE Fail
    BY <1>2, <1>3, <2>4, FlowOver DEF Fail, Ends
  <2>5. CASE applyProfileRules(next, 1, known)
    BY <1>2, <1>3, <2>2, <2>3, <2>5, RulesJudge
  <2> QED
    BY <1>3, <2>4, <2>5 DEF WithPlan, writePartitions
<1>4. CASE Fail /\ run' = running
  BY <1>2, <1>4, FlowOver DEF Fail, Ends
<1>5. CASE Go(next, "plan", known) /\ run' = IF running.at = "idle" THEN startPlan(known.mtd, next, round, TRUE)
                ELSE [running EXCEPT !.flow = flow, !.phase = next, !.own = FALSE, !.round = round]
  <2>1. known.mtd \in Layouts /\ flow \in Nat
    BY DEF Suits, Known, SocInv, SocTyped
  <2>2. CASE running.at = "idle"
    <3>1. run' = [at |-> IF folder'.key = Disk THEN "later" ELSE "EXF", build |-> Disk, key |-> known.mtd,
                  flow |-> flow, phase |-> next, own |-> TRUE, round |-> round]
      BY <1>5, <2>2 DEF startPlan
    <3>2. run' \in Plans
      BY <1>1, <2>1, <3>1 DEF Plans
    <3>3. folder'.key \in Nat /\ folder'.holds \in Nat
      BY DEF ExtractFolders
    <3>4. FilesFit'
      BY <1>1, <3>1, <3>3 DEF FilesFit
    <3>5. Beside
      BY <1>1, <3>2, <3>4 DEF Beside, SocInv, SocTyped
    <3> QED
      BY <1>1, <1>5, <3>5, FlowGoes DEF StepOf
  <2>3. CASE running.at # "idle"
    <3>1. run' = [running EXCEPT !.flow = flow, !.phase = next, !.own = FALSE, !.round = round]
      BY <1>5, <2>3
    <3>2. run' \in Plans /\ run'.at = running.at /\ run'.build = running.build
      BY <2>1, <3>1 DEF Plans
    <3>3. FilesFit'
      BY <1>1, <3>2 DEF FilesFit
    <3>4. Beside
      BY <1>1, <3>2, <3>3 DEF Beside, SocInv, SocTyped
    <3> QED
      BY <1>1, <1>5, <3>4, FlowGoes DEF StepOf
  <2> QED
    BY <2>2, <2>3
<1> QED
  BY <1>3, <1>4, <1>5 DEF ensurePlan, Idle

-----------------------------------------------------------------------------
(* One command of a flow after the other. *)

\* Nothing of the bench or the files is touched.
LEMMA NothingBeside ==
    ASSUME SocInv, UNCHANGED world, UNCHANGED <<kept, run, folder>>
    PROVE  Beside
  BY DEF SocInv, SocTyped, Beside, FilesFit, world, Disk

\* The plan that runs, if a flow needs one.
LEMMA RunningPlan ==
    ASSUME SocInv, UNCHANGED <<kept, folder>>
    PROVE  /\ run \in Plans /\ folder' \in ExtractFolders
           /\ folder'.key <= folder'.holds /\ folder'.holds <= Disk
           /\ kept'.valid => kept'.build = folder'.key
           /\ run.at # "idle" => run.build \in 1..Disk
           /\ run.at = "EXF" => folder'.key < run.build
           /\ run.at = "later" => folder'.key = run.build
  BY DEF SocInv, SocTyped, FilesFit

LEMMA PlanIsEnsuredBeside ==
    ASSUME SocInv, BenchAssumption, phase \in Running, step # "answer", writing = NoWrites,
           NEW next \in {"RebootingToLoader", "Flashing"}, NEW known,
           Suits(known, next, "plan"), UNCHANGED world, UNCHANGED <<kept, folder>>,
           ensurePlan(next, known, 0, run)
    PROVE  SocInv'
<1>1. 0 \in Nat /\ run \in Plans
  BY RunningPlan
<1> QED
  BY <1>1, RunningPlan, PlanIsEnsured

\* A command that is not of a write finds nothing being written.
LEMMA NotWriting ==
    ASSUME SocInv, step \notin {"WL", "RL", "RD"}, phase \notin {"WaitingForAdb", "ReadingBoardInfo"}
    PROVE  writing = NoWrites
  BY DEF SocInv, WritesFit

\* What a step of a flow waits for tells the phase.
LEMMA StepTells ==
    ASSUME SocInv, step \notin {"idle", "refuse"}
    PROVE  /\ phase \in Running /\ StepOf(phase, step) /\ Suits(f, phase, step)
           /\ f \in Known /\ set \in Settings /\ query = "idle"
  BY DEF SocInv, FlowFits, SocTyped

LEMMA PidTyped ==
    ASSUME BenchAssumption, NEW b \in Boards
    PROVE  /\ LoaderPid(b) \in Profiles \cup {Unknown} /\ (LoaderPid(b) \in Profiles => LoaderPid(b) = BoardOf[b].pid)
           /\ BoardOf[b].layout \in Layouts /\ BoardOf[b].cmdline \in {BoardOf[b].layout, "none"}
           /\ BoardOf[b].product \in Profiles \cup {Unknown}
           /\ BoardOf[b].pid \in Profiles => BoardOf[b].layout = BoardOf[b].pid
  BY DEF BenchAssumption, LoaderPid, Unknown, Profiles, Node, Stacked

\* What a flow knows with a detection.
LEMMA DetectedFits ==
    ASSUME NEW known \in Known
    PROVE  /\ Detected(known) \in Known
           /\ Detected(known) = [known EXCEPT !.profile = Detected(known).profile]
           /\ known.pid \in Profiles /\ ~overrideRefusal(set.override, known.pid) => Detected(known).profile = known.pid
<1>1. detectBoard(set.override, known.pid, known.product, layoutEvidence(known)) \in Profiles \cup {Unknown}
  BY DetectsThePid
<1>2. known.pid \in Profiles /\ ~overrideRefusal(set.override, known.pid) =>
      detectBoard(set.override, known.pid, known.product, layoutEvidence(known)) = known.pid
  BY DetectsThePid
<1> QED
  BY <1>1, <1>2 DEF Detected, Known

\* A board in download mode is adopted.
LEMMA Adopts ==
    ASSUME SocInv, BenchAssumption, NEW b \in Boards
    PROVE  /\ adoptDownloadDevice(b) \in Known
           /\ adoptDownloadDevice(b) = [f EXCEPT !.pid = LoaderPid(b), !.profile = adoptDownloadDevice(b).profile]
           /\ Adoptable(b) /\ LoaderPid(b) \in Profiles => adoptDownloadDevice(b).profile = LoaderPid(b)
<1>1. [f EXCEPT !.pid = LoaderPid(b)] \in Known
  BY PidTyped DEF SocInv, SocTyped, Known
<1>2. [f EXCEPT !.pid = LoaderPid(b)].pid = LoaderPid(b)
  BY DEF SocInv, SocTyped, Known
<1> QED
  BY <1>1, <1>2, DetectedFits DEF adoptDownloadDevice, Adoptable, SocInv, SocTyped, Known

\* The board goes on to step 5.
LEMMA StepFive ==
    ASSUME SocInv, BenchAssumption, phase = "WaitingForLoader", step \in {"LD", "poll"},
           NEW b \in Boards, bench[b] \in Download, Adoptable(b),
           toStepFive(adoptDownloadDevice(b), b), UNCHANGED world, UNCHANGED <<kept, folder>>
    PROVE  SocInv'
<1> DEFINE known == adoptDownloadDevice(b)
           mtd == Remembered(known)
<1>1. /\ phase \in Running /\ Suits(f, phase, step) /\ f \in Known /\ step # "answer" /\ writing = NoWrites
      /\ set.memory \in Profiles \cup {"none"} /\ nobody \notin Boards
  BY StepTells, NotWriting DEF BenchAssumption, SocInv, SocTyped, Running
<1>2. /\ known \in Known /\ known.pid = LoaderPid(b) /\ known.mtd = f.mtd /\ known.board = f.board /\ known.viaTwo = f.viaTwo
      /\ Adoptable(b) /\ LoaderPid(b) \in Profiles => known.profile = LoaderPid(b)
  <2>1. known = [f EXCEPT !.pid = LoaderPid(b), !.profile = known.profile] /\ known \in Known
    BY Adopts
  <2> HIDE DEF known
  <2>2. known.pid = LoaderPid(b) /\ known.mtd = f.mtd /\ known.board = f.board /\ known.viaTwo = f.viaTwo
    BY <1>1, <2>1 DEF Known
  <2> USE DEF known
  <2> QED
    BY <2>1, <2>2, Adopts
<1>3. /\ known.board # nobody => known.viaTwo /\ known.mtd \in {BoardOf[known.board].layout, "none"}
      /\ known.viaTwo => known.board # nobody
      /\ known.board = nobody => known.mtd = set.memory
  BY <1>1, <1>2 DEF Suits
<1>4. toStepFive(known, b)
  OBVIOUS
<1> HIDE DEF known
<1>5. mtd \in Layouts /\ mtd \in {known.mtd, "none"}
  BY <1>2 DEF Remembered, Known, Layouts
<1>6. CASE bench[b] = "loader" /\ ~known.viaTwo /\ mtd = "none"
  <2> DEFINE next == [known EXCEPT !.mtd = mtd, !.at = b]
  <2>1. Go(phase, "RL env", next) /\ run' = run
    BY <1>4, <1>6 DEF toStepFive
  <2>2. /\ next \in Known /\ next.mtd = "none" /\ next.at = b /\ next.pid = known.pid /\ next.board = known.board
        /\ next.viaTwo = known.viaTwo /\ next.profile = known.profile
    BY <1>2, <1>5, <1>6 DEF Known
  <2>3. LoaderPid(b) = BoardOf[b].pid
    BY <1>6 DEF LoaderPid
  <2> HIDE DEF next
  <2>4. Adopted(next)
    BY <1>2, <2>2, <2>3 DEF Adopted, Adoptable
  <2>5. Suits(next, phase, "RL env")
    BY <1>1, <1>3, <1>6, <2>2, <2>4 DEF Suits
  <2>6. Beside
    BY <2>1, NothingBeside
  <2> QED
    BY <1>1, <2>1, <2>5, <2>6, FlowGoes DEF StepOf
<1>7. CASE ~(bench[b] = "loader" /\ ~known.viaTwo /\ mtd = "none")
  <2> DEFINE next == [known EXCEPT !.at = b]
  <2>1. startFlash(next, b)
    BY <1>4, <1>7 DEF toStepFive
  <2>2. /\ next \in Known /\ next.mtd = known.mtd /\ next.at = b /\ next.pid = known.pid /\ next.board = known.board
        /\ next.viaTwo = known.viaTwo /\ next.profile = known.profile
    BY <1>2 DEF Known
  <2> HIDE DEF next
  <2>3. CASE bench[b] = "maskrom"
    <3>1. next.pid = Unknown /\ Unknown \notin Profiles
      BY <1>2, <2>2, <2>3 DEF LoaderPid, Unknown, Profiles, Node, Stacked
    <3>2. Suits(next, "Flashing", "UF")
      BY <1>1, <1>3, <2>2, <3>1 DEF Suits, OwnLayout
    <3>3. CASE Fail /\ run' = run
      <4>1. Beside
        BY <3>3, NothingBeside
      <4> QED
        BY <1>1, <3>3, <4>1, FlowOver DEF Fail, Ends
    <3>4. CASE /\ phase' = "Flashing" /\ step' = "UF" /\ f' = next /\ run' = run
               /\ log' = [log EXCEPT !.judged = Disk]
               /\ UNCHANGED <<flow, query, asking, writing>>
      <4>1. Beside
        BY <3>4, NothingBeside
      <4>2. UNCHANGED <<bench, flash, built, set>> /\ Disk' = Disk
        BY DEF world, Disk
      <4>3. log' \in [starts : Nat, ends : Nat, changes : Nat, judged : Nat] /\ log'.ends = log.ends /\ log'.starts = log.starts
        <5>1. log \in [starts : Nat, ends : Nat, changes : Nat, judged : Nat] /\ Disk \in Nat
          BY DEF SocInv, SocTyped
        <5>2. log' = [log EXCEPT !.judged = Disk]
          BY <3>4
        <5> QED
          BY <5>1, <5>2
      <4>4. SocTyped'
        BY <2>2, <3>4, <4>1, <4>2, <4>3 DEF SocInv, SocTyped, Beside, Running
      <4>5. Suits(f, phase, step)' /\ StepOf(phase, step)'
        BY <3>2, <3>4, <4>2 DEF Suits, StepOf, OwnLayout
      <4>6. FlowFits'
        BY <1>1, <3>4, <4>3, <4>5 DEF SocInv, FlowFits, Running
      <4>7. WritesFit' /\ RowsFit'
        BY <1>1, <3>4 DEF WritesFit, RowsFit, NoWrites
      <4> QED
        BY <4>1, <4>4, <4>6, <4>7 DEF SocInv, Beside
    <3> QED
      BY <2>1, <2>3, <3>3, <3>4 DEF startFlash
  <2>4. CASE bench[b] = "loader"
    <3>1. LoaderPid(b) = BoardOf[b].pid
      BY <2>4 DEF LoaderPid
    <3>2. Adopted(next)
      BY <1>2, <2>2, <3>1 DEF Adopted, Adoptable
    <3>3. OwnLayout(next)
      <4> SUFFICES ASSUME next.pid \in Profiles, next.mtd # "none", next.board \in {nobody, next.at}
                   PROVE  next.mtd = BoardOf[b].layout
        BY <2>2 DEF OwnLayout
      <4>1. CASE next.board = b
        BY <1>1, <1>3, <2>2, <4>1
      <4>2. CASE next.board = nobody
        <5>1. ~known.viaTwo /\ known.mtd = set.memory /\ known.mtd # "none"
          BY <1>3, <2>2, <4>2
        <5>2. mtd # "none"
          BY <1>7, <2>4, <5>1
        <5>3. ~Contradict(byLayout(known.mtd), known.pid) /\ known.mtd \in Profiles
          BY <1>1, <5>1, <5>2 DEF Remembered
        <5>4. known.mtd = known.pid
          BY <2>2, <5>3 DEF Contradict, byLayout
        <5> QED
          BY <1>2, <2>2, <3>1, <5>4, PidTyped
      <4> QED
        BY <2>2, <4>1, <4>2
    <3>4. Suits(next, "Flashing", "plan")
      BY <1>1, <1>3, <2>2, <3>2, <3>3 DEF Suits
    <3>5. ensurePlan("Flashing", next, 0, run)
      BY <2>1, <2>4 DEF startFlash
    <3> QED
      BY <1>1, <3>4, <3>5, PlanIsEnsuredBeside
  <2> QED
    BY <2>3, <2>4 DEF Download
<1> QED
  BY <1>6, <1>7

\* A flow fails, or ends otherwise, and touches nothing beside.
LEMMA FlowOverBeside ==
    ASSUME SocInv, BenchAssumption, NEW end \in Ends, EndFlow(end), phase \in Running \/ step = "refuse",
           UNCHANGED asking, UNCHANGED world, UNCHANGED <<kept, run, folder>>
    PROVE  SocInv'
<1>1. Beside
  BY NothingBeside
<1> QED
  BY <1>1, FlowOver

LEMMA FlowFails ==
    ASSUME SocInv, BenchAssumption, Fail, phase \in Running, UNCHANGED world, UNCHANGED <<kept, run, folder>>
    PROVE  SocInv'
<1>1. "Failed" \in Ends
  BY DEF Ends
<1> QED
  BY <1>1, FlowOverBeside DEF Fail

LEMMA FlowGoesBeside ==
    ASSUME SocInv, BenchAssumption, phase \in Running, step # "answer", UNCHANGED world, UNCHANGED <<kept, run, folder>>,
           NEW next \in Running, NEW command, command \notin {"answer", "WL", "RL", "RD"}, NEW known,
           Go(next, command, known), StepOf(next, command), Suits(known, next, command),
           writing = NoWrites \/ next \in {"WaitingForAdb", "ReadingBoardInfo"}
    PROVE  SocInv'
<1>1. Beside
  BY NothingBeside
<1> QED
  BY <1>1, FlowGoes

\* The wait for a board.
LEMMA Waits ==
    ASSUME NEW known \in Known, NEW any \in BOOLEAN
    PROVE  LET next == [known EXCEPT !.any = any, !.polls = 0]
           IN  /\ next \in Known /\ next.mtd = known.mtd /\ next.board = known.board /\ next.viaTwo = known.viaTwo
               /\ next.at = known.at /\ next.pid = known.pid /\ next.profile = known.profile
  BY DEF Known

LEMMA PollInv ==
    ASSUME SocInv, BenchAssumption, phase \in {"WaitingForLoader", "WaitingForAdb"}, step \in {"LD", "devices", "poll"},
           NEW poll \in {"LD", "poll"}, phase = "WaitingForAdb" => poll = "poll",
           pollAgain(poll), UNCHANGED world, UNCHANGED <<kept, run, folder>>
    PROVE  SocInv'
<1>1. phase \in Running /\ Suits(f, phase, step) /\ f \in Known
  BY StepTells
<1>2. CASE EndFlow(IF phase = "WaitingForAdb" THEN "Done" ELSE "Failed") /\ UNCHANGED asking
  <2>1. (IF phase = "WaitingForAdb" THEN "Done" ELSE "Failed") \in Ends
    BY DEF Ends
  <2> QED
    BY <1>1, <1>2, <2>1, FlowOverBeside
<1>3. CASE Go(phase, poll, [f EXCEPT !.polls = @ + 1])
  <2> DEFINE next == [f EXCEPT !.polls = @ + 1]
  <2>1. /\ next \in Known /\ next.mtd = f.mtd /\ next.board = f.board /\ next.viaTwo = f.viaTwo
        /\ next.at = f.at /\ next.pid = f.pid /\ next.profile = f.profile
    BY <1>1 DEF Known
  <2>2. Go(phase, poll, next)
    BY <1>3
  <2> HIDE DEF next
  <2>3. Suits(next, phase, poll)
    BY <1>1, <2>1 DEF Suits
  <2>4. StepOf(phase, poll) /\ (writing = NoWrites \/ phase = "WaitingForAdb")
    BY NotWriting DEF StepOf
  <2> QED
    BY <1>1, <2>2, <2>3, <2>4, FlowGoesBeside
<1> QED
  BY <1>2, <1>3 DEF pollAgain

\* LD: what is on USB.
LEMMA ListDevicesInv ==
    ASSUME SocInv, BenchAssumption, ListDevices
    PROVE  SocInv'
<1>1. /\ step = "LD" /\ UNCHANGED world /\ UNCHANGED <<kept, folder>> /\ phase \in {"Detecting", "WaitingForLoader"}
      /\ phase \in Running /\ Suits(f, phase, step) /\ f \in Known /\ writing = NoWrites
  BY StepTells, NotWriting DEF ListDevices, StepOf
<1>2. CASE Go(phase, "devices", f) /\ UNCHANGED run
  <2>1. Suits(f, phase, "devices") /\ StepOf(phase, "devices")
    BY <1>1 DEF Suits, StepOf
  <2> QED
    BY <1>1, <1>2, <2>1, FlowGoesBeside
<1>3. CASE Fail /\ UNCHANGED run
  BY <1>1, <1>3, FlowFails
<1>4. ASSUME NEW b \in InMode(Download), Adoptable(b), phase = "Detecting",
             enterWaitingForLoader(adoptDownloadDevice(b), FALSE), UNCHANGED run
      PROVE  SocInv'
  <2> DEFINE known == adoptDownloadDevice(b)
             next == [known EXCEPT !.any = FALSE, !.polls = 0]
  <2>1. /\ known \in Known /\ known = [f EXCEPT !.pid = LoaderPid(b), !.profile = known.profile]
    BY Adopts DEF InMode
  <2>2. Go("WaitingForLoader", "poll", next)
    BY <1>4 DEF enterWaitingForLoader
  <2> HIDE DEF known
  <2>3. known.mtd = f.mtd /\ known.board = f.board /\ known.viaTwo = f.viaTwo
    BY <1>1, <2>1 DEF Known
  <2>4. next \in Known /\ next.mtd = f.mtd /\ next.board = f.board /\ next.viaTwo = f.viaTwo
    BY <2>1, <2>3, Waits
  <2> HIDE DEF next
  <2>5. Suits(next, "WaitingForLoader", "poll") /\ StepOf("WaitingForLoader", "poll") /\ "WaitingForLoader" \in Running
    BY <1>1, <1>4, <2>4 DEF Suits, StepOf, Running
  <2> QED
    BY <1>1, <1>4, <2>2, <2>5, FlowGoesBeside
<1>5. ASSUME NEW b \in InMode(Download), Adoptable(b), phase = "WaitingForLoader", toStepFive(adoptDownloadDevice(b), b)
      PROVE  SocInv'
  BY <1>1, <1>5, StepFive DEF InMode
<1> QED
  BY <1>1, <1>2, <1>3, <1>4, <1>5 DEF ListDevices, FlowFinds, refuseSeveralDevices, refuseDownloadDevice

\* adb devices: a board that runs is asked, then rebooted.
LEMMA AdbDevicesInv ==
    ASSUME SocInv, BenchAssumption, AdbDevices
    PROVE  SocInv'
<1>1. /\ step = "devices" /\ UNCHANGED world /\ UNCHANGED <<kept, run, folder>> /\ phase \in {"Detecting", "WaitingForLoader"}
      /\ phase \in Running /\ Suits(f, phase, step) /\ f \in Known /\ writing = NoWrites /\ nobody \notin Boards
  BY StepTells, NotWriting DEF AdbDevices, NoBoard, StepOf, BenchAssumption
<1>2. CASE phase = "Detecting" /\ enterWaitingForLoader(Detected(f), TRUE)
  <2> DEFINE known == Detected(f)
             next == [known EXCEPT !.any = TRUE, !.polls = 0]
  <2>1. known \in Known /\ known = [f EXCEPT !.profile = known.profile]
    BY <1>1, DetectedFits
  <2>2. Go("WaitingForLoader", "LD", next)
    BY <1>2 DEF enterWaitingForLoader
  <2> HIDE DEF known
  <2>3. known.mtd = f.mtd /\ known.board = f.board /\ known.viaTwo = f.viaTwo
    BY <1>1, <2>1 DEF Known
  <2>4. next \in Known /\ next.mtd = f.mtd /\ next.board = f.board /\ next.viaTwo = f.viaTwo
    BY <2>1, <2>3, Waits
  <2> HIDE DEF next
  <2>5. Suits(next, "WaitingForLoader", "LD") /\ StepOf("WaitingForLoader", "LD") /\ "WaitingForLoader" \in Running
    BY <1>1, <1>2, <2>4 DEF Suits, StepOf, Running
  <2> QED
    BY <1>1, <2>2, <2>5, FlowGoesBeside
<1>3. CASE phase # "Detecting" /\ pollAgain("LD")
  BY <1>1, <1>3, PollInv
<1>4. ASSUME NEW b \in InMode({"adb"}), rebootToLoader(b)
      PROVE  SocInv'
  <2>1. PICK product \in {Unknown, BoardOf[b].product} :
           Go("RebootingToLoader", "cmdline", [Detected([f EXCEPT !.product = product]) EXCEPT !.board = b])
    BY <1>4 DEF rebootToLoader
  <2>2. b \in Boards /\ [f EXCEPT !.product = product] \in Known /\ [f EXCEPT !.product = product].viaTwo = f.viaTwo
    BY <1>1, PidTyped DEF InMode, Known
  <2> DEFINE known == Detected([f EXCEPT !.product = product])
             next == [known EXCEPT !.board = b]
  <2>3. known \in Known
    BY <2>2, DetectedFits
  <2>4. Go("RebootingToLoader", "cmdline", next)
    BY <2>1
  <2> HIDE DEF known
  <2>5. next \in Known /\ next.board = b
    BY <2>2, <2>3 DEF Known
  <2> HIDE DEF next
  <2>6. Suits(next, "RebootingToLoader", "cmdline") /\ StepOf("RebootingToLoader", "cmdline") /\ "RebootingToLoader" \in Running
    BY <1>1, <2>2, <2>5 DEF Suits, StepOf, Running
  <2> QED
    BY <1>1, <2>4, <2>6, FlowGoesBeside
<1> QED
  BY <1>1, <1>2, <1>3, <1>4 DEF AdbDevices, NoBoard

\* The layout of the running board.
LEMMA ReadFlashLayoutInv ==
    ASSUME SocInv, BenchAssumption, ReadFlashLayout
    PROVE  SocInv'
<1>1. /\ step = "cmdline" /\ UNCHANGED world /\ UNCHANGED <<kept, folder>> /\ phase = "RebootingToLoader"
      /\ phase \in Running /\ Suits(f, phase, step) /\ f \in Known /\ writing = NoWrites
  BY StepTells, NotWriting DEF ReadFlashLayout, StepOf
<1>2. f.board \in Boards /\ f.board # nobody /\ BoardOf[f.board].layout \in Layouts /\ "none" \in Layouts
  BY <1>1, PidTyped DEF Suits, Known, Layouts
<1>3. PICK read \in {"none"} \cup {BoardOf[b].cmdline : b \in {f.board} \cap InMode({"adb"})},
           own \in {"none", BoardOf[f.board].layout} :
          LET known == Detected([f EXCEPT !.mtd = IF read # "none" THEN read ELSE own,
                                          !.boardRead = read # "none", !.viaTwo = TRUE])
          IN IF known.profile = Unknown /\ ~known.asked
             THEN Go(phase, "product", [known EXCEPT !.asked = TRUE]) /\ UNCHANGED run
             ELSE ensurePlan(phase, known, 0, run)
  BY DEF ReadFlashLayout
<1> DEFINE mtd == IF read # "none" THEN read ELSE own
           said == read # "none"
           asked == [f EXCEPT !.mtd = mtd, !.boardRead = said, !.viaTwo = TRUE]
           known == Detected(asked)
<1>4. mtd \in {BoardOf[f.board].layout, "none"}
  BY <1>2, PidTyped
<1>5. /\ asked \in Known /\ asked.mtd = mtd /\ asked.viaTwo = TRUE /\ asked.board = f.board
  BY <1>1, <1>2, <1>4 DEF Known
<1>6. IF known.profile = Unknown /\ ~known.asked
         THEN Go(phase, "product", [known EXCEPT !.asked = TRUE]) /\ UNCHANGED run
         ELSE ensurePlan(phase, known, 0, run)
  BY <1>3
<1> HIDE DEF asked
<1>7. known \in Known /\ known = [asked EXCEPT !.profile = known.profile]
  BY <1>5, DetectedFits
<1> HIDE DEF known
<1>8. known.mtd = mtd /\ known.viaTwo = TRUE /\ known.board = f.board
  BY <1>5, <1>7 DEF Known
<1>9. CASE Go(phase, "product", [known EXCEPT !.asked = TRUE]) /\ UNCHANGED run
  <2> DEFINE next == [known EXCEPT !.asked = TRUE]
  <2>1. next \in Known /\ next.mtd = mtd /\ next.viaTwo = TRUE /\ next.board = f.board
    BY <1>7, <1>8 DEF Known
  <2>2. Go(phase, "product", next)
    BY <1>9
  <2> HIDE DEF next, mtd
  <2>3. Suits(next, phase, "product") /\ StepOf(phase, "product")
    BY <1>1, <1>2, <1>4, <2>1 DEF Suits, StepOf
  <2> QED
    BY <1>1, <1>9, <2>2, <2>3, FlowGoesBeside
<1>10. CASE ensurePlan(phase, known, 0, run)
  <2> HIDE DEF mtd
  <2>1. Suits(known, phase, "plan")
    BY <1>1, <1>2, <1>4, <1>7, <1>8 DEF Suits
  <2> QED
    BY <1>1, <1>10, <2>1, PlanIsEnsuredBeside
<1> QED
  BY <1>6, <1>9, <1>10

\* The product string.
LEMMA ReadBoardProductInv ==
    ASSUME SocInv, BenchAssumption, ReadBoardProduct
    PROVE  SocInv'
<1>1. /\ step = "product" /\ UNCHANGED world /\ UNCHANGED <<kept, folder>> /\ phase = "RebootingToLoader"
      /\ phase \in Running /\ Suits(f, phase, step) /\ f \in Known /\ writing = NoWrites
  BY StepTells, NotWriting DEF ReadBoardProduct, StepOf
<1>2. PICK product \in {Unknown} \cup {BoardOf[b].product : b \in {f.board} \cap InMode({"adb"})} :
          ensurePlan(phase, Detected([f EXCEPT !.product = product]), 0, run)
  BY DEF ReadBoardProduct
<1> DEFINE asked == [f EXCEPT !.product = product]
           known == Detected(asked)
<1>3. product \in Profiles \cup {Unknown}
  BY PidTyped DEF InMode
<1>4. asked \in Known /\ asked.mtd = f.mtd /\ asked.viaTwo = f.viaTwo /\ asked.board = f.board
  BY <1>1, <1>3 DEF Known
<1>5. ensurePlan(phase, known, 0, run)
  BY <1>2
<1> HIDE DEF asked
<1>6. known \in Known /\ known = [asked EXCEPT !.profile = known.profile]
  BY <1>4, DetectedFits
<1> HIDE DEF known
<1>7. known.mtd = f.mtd /\ known.viaTwo = f.viaTwo /\ known.board = f.board
  BY <1>4, <1>6 DEF Known
<1>8. Suits(known, phase, "plan")
  BY <1>1, <1>6, <1>7 DEF Suits
<1> QED
  BY <1>1, <1>5, <1>8, PlanIsEnsuredBeside

\* reboot loader.
LEMMA RebootIntoLoaderInv ==
    ASSUME SocInv, BenchAssumption, RebootIntoLoader
    PROVE  SocInv'
<1>1. /\ step = "reboot" /\ UNCHANGED <<flash, built, set, kept, run, folder>> /\ phase = "RebootingToLoader"
      /\ phase \in Running /\ Suits(f, phase, step) /\ f \in Known /\ writing = NoWrites
  BY StepTells, NotWriting DEF RebootIntoLoader, StepOf
<1>2. bench' \in [Boards -> BenchModes]
  <2>1. bench \in [Boards -> BenchModes] /\ {"loader", "away"} \subseteq BenchModes
    BY DEF SocInv, SocTyped, BenchModes, Download
  <2>2. CASE bench' = bench
    BY <2>1, <2>2
  <2>3. ASSUME NEW b \in {f.board} \cap InMode({"adb"}), NEW m \in {"loader", "away"}, bench' = [bench EXCEPT ![b] = m]
        PROVE  bench' \in [Boards -> BenchModes]
    BY <2>1, <2>3
  <2> QED
    BY <2>2, <2>3 DEF RebootIntoLoader
<1>3. Beside
  BY <1>1, <1>2 DEF Beside, SocInv, SocTyped, FilesFit, Disk
<1> DEFINE next == [f EXCEPT !.any = FALSE, !.polls = 0]
<1>4. Go("WaitingForLoader", "poll", next)
  BY DEF RebootIntoLoader, enterWaitingForLoader
<1>5. next \in Known /\ next.mtd = f.mtd /\ next.board = f.board /\ next.viaTwo = f.viaTwo
  BY <1>1, Waits
<1> HIDE DEF next
<1>6. Suits(next, "WaitingForLoader", "poll") /\ StepOf("WaitingForLoader", "poll") /\ "WaitingForLoader" \in Running
  BY <1>1, <1>5 DEF Suits, StepOf, Running
<1> QED
  BY <1>1, <1>3, <1>4, <1>6, FlowGoes

\* The poll for the board in download mode.
LEMMA PollLoaderInv ==
    ASSUME SocInv, BenchAssumption, PollLoader
    PROVE  SocInv'
<1>1. /\ step = "poll" /\ phase = "WaitingForLoader" /\ UNCHANGED world /\ UNCHANGED <<kept, folder>>
      /\ phase \in Running
  BY StepTells DEF PollLoader
<1>2. CASE Fail /\ UNCHANGED run
  BY <1>1, <1>2, FlowFails
<1>3. CASE pollAgain("poll") /\ UNCHANGED run
  BY <1>1, <1>3, PollInv
<1>4. ASSUME NEW b \in InMode(Download), Adoptable(b), toStepFive(adoptDownloadDevice(b), b)
      PROVE  SocInv'
  BY <1>1, <1>4, StepFive DEF InMode
<1> QED
  BY <1>2, <1>3, <1>4 DEF PollLoader, refuseSeveralDevices, refuseDownloadDevice

\* The layout of a board met in Loader mode.
LEMMA ReadLayoutInLoaderModeInv ==
    ASSUME SocInv, BenchAssumption, ReadLayoutInLoaderMode
    PROVE  SocInv'
<1>1. /\ step \in {"RL env", "PL"} /\ UNCHANGED world /\ UNCHANGED <<kept, folder>> /\ phase = "WaitingForLoader"
      /\ phase \in Running /\ Suits(f, phase, step) /\ f \in Known /\ writing = NoWrites
  BY StepTells, NotWriting DEF ReadLayoutInLoaderMode, StepOf
<1>2. f.board = nobody /\ f.mtd = "none" /\ Adopted(f) /\ f.at \in Boards /\ ~f.viaTwo
  BY <1>1 DEF Suits, Adopted, Known
<1>3. CASE LoaderLayoutFound(BoardOf[f.at].layout)
  <2> DEFINE found == [f EXCEPT !.mtd = BoardOf[f.at].layout, !.loaderRead = TRUE]
             known == Detected(found)
  <2>1. /\ found \in Known /\ found.mtd = BoardOf[f.at].layout /\ found.board = nobody /\ found.at = f.at
        /\ found.pid = f.pid /\ ~found.viaTwo
    BY <1>1, <1>2, PidTyped DEF Known
  <2>2. \/ Fail /\ UNCHANGED run
        \/ ~overrideRefusal(set.override, f.pid) /\ ensurePlan("Flashing", known, 0, run)
    BY <1>3 DEF LoaderLayoutFound
  <2> HIDE DEF found
  <2>3. /\ known \in Known /\ known = [found EXCEPT !.profile = known.profile]
        /\ found.pid \in Profiles /\ ~overrideRefusal(set.override, found.pid) => known.profile = found.pid
    BY <2>1, DetectedFits
  <2> HIDE DEF known
  <2>4. /\ known.mtd = BoardOf[f.at].layout /\ known.board = nobody /\ known.at = f.at /\ known.pid = f.pid /\ ~known.viaTwo
    BY <2>1, <2>3 DEF Known
  <2>5. ~overrideRefusal(set.override, f.pid) => Suits(known, "Flashing", "plan")
    BY <1>2, <2>1, <2>3, <2>4 DEF Suits, Adopted, OwnLayout
  <2> QED
    BY <1>1, <2>2, <2>5, FlowFails, PlanIsEnsuredBeside
<1>4. CASE step = "RL env" /\ Go(phase, "PL", f) /\ UNCHANGED run
  <2>1. Suits(f, phase, "PL") /\ StepOf(phase, "PL")
    BY <1>1, <1>4 DEF Suits, StepOf
  <2> QED
    BY <1>1, <1>4, <2>1, FlowGoesBeside
<1>5. CASE ensurePlan("Flashing", f, 0, run)
  <2>1. Suits(f, "Flashing", "plan")
    BY <1>1, <1>2 DEF Suits, OwnLayout
  <2> QED
    BY <1>1, <1>5, <2>1, PlanIsEnsuredBeside
<1> QED
  BY <1>3, <1>4, <1>5 DEF ReadLayoutInLoaderMode

-----------------------------------------------------------------------------
(* The owner's own commands, and the plans. *)

\* A query of the owner's runs only while no flow does.
LEMMA QueryInv ==
    ASSUME SocInv, phase \notin Running,
           UNCHANGED <<world, phase, flow, step, f, kept, run, folder, asking, writing, log>>
    PROVE  SocInv'
<1>1. UNCHANGED <<bench, flash, built, set, phase, flow, step, f, kept, run, folder, asking, writing, log>>
  BY DEF world
<1>2. SocTyped' /\ FilesFit'
  BY <1>1 DEF SocInv, SocTyped, FilesFit, Disk
<1>3. FlowFits'
  BY <1>1 DEF SocInv, FlowFits
<1>4. WritesFit' /\ RowsFit'
  BY <1>1 DEF SocInv, WritesFit, RowsFit, Running, RowHeld
<1> QED
  BY <1>2, <1>3, <1>4 DEF SocInv

LEMMA OwnersQueryInv ==
    ASSUME SocInv, OwnersQuery \/ queryStatus
    PROVE  SocInv'
<1>1. phase \notin Running
  BY DEF OwnersQuery, queryStatus, isRunning, Running, Idle, SocInv, FlowFits
<1> QED
  BY <1>1, QueryInv DEF OwnersQuery, queryStatus

\* A refused start is told.
LEMMA RefuseInv ==
    ASSUME SocInv, BenchAssumption, Refuse
    PROVE  SocInv'
  BY FlowOverBeside DEF Refuse, Ends

\* A flash begins, or is refused.
LEMMA StartInv ==
    ASSUME SocInv, BenchAssumption, Start
    PROVE  SocInv'
<1>1. /\ phase \notin Running /\ asking = NoQuestion /\ flow' = flow + 1 /\ query' = "idle"
      /\ UNCHANGED <<bench, flash, built, set, kept, run, folder, asking, writing>>
      /\ log' = [log EXCEPT !.starts = @ + 1, !.ends = IF step = "refuse" THEN @ + 1 ELSE @]
  BY DEF Start, world, isRunning, Running, Idle
<1>2. /\ log' \in [starts : Nat, ends : Nat, changes : Nat, judged : Nat]
      /\ log'.ends + 1 = log'.starts /\ writing = NoWrites
  <2>1. /\ log.ends + (IF step = "refuse" THEN 1 ELSE 0) = log.starts /\ writing = NoWrites
        /\ log \in [starts : Nat, ends : Nat, changes : Nat, judged : Nat]
    BY <1>1 DEF SocInv, SocTyped, FlowFits
  <2> DEFINE ends == IF step = "refuse" THEN log.ends + 1 ELSE log.ends
             next == [log EXCEPT !.starts = @ + 1, !.ends = ends]
  <2>2. ends \in Nat /\ ends = log.starts
    BY <2>1
  <2>3. log' = next
    BY <1>1
  <2> HIDE DEF ends
  <2>4. next \in [starts : Nat, ends : Nat, changes : Nat, judged : Nat] /\ next.starts = log.starts + 1 /\ next.ends = ends
    <3> DEFINE begun == [log EXCEPT !.starts = @ + 1]
    <3>1. begun \in [starts : Nat, ends : Nat, changes : Nat, judged : Nat] /\ begun.starts = log.starts + 1
      BY <2>1
    <3>2. next = [begun EXCEPT !.ends = ends]
      BY <2>1
    <3> HIDE DEF begun, next
    <3> QED
      BY <2>2, <3>1, <3>2
  <2> HIDE DEF next
  <2> QED
    BY <2>1, <2>2, <2>3, <2>4
<1>3. CASE phase' = "Detecting" /\ step' = "LD" /\ f' = NewFlow(set.memory)
  <2>1. /\ f'.board = nobody /\ f'.viaTwo = FALSE /\ f'.mtd = set.memory /\ f' \in Known
    BY <1>3, Remembers DEF NewFlow
  <2>2. Suits(f, phase, step)'
    BY <1>1, <1>3, <2>1 DEF Suits
  <2>3. FlowFits'
    BY <1>1, <1>2, <1>3, <2>2 DEF FlowFits, StepOf, Running, NoQuestion
  <2>4. SocTyped'
    BY <1>1, <1>2, <1>3, <2>1 DEF SocInv, SocTyped, Running, NoQuestion, Disk
  <2>5. WritesFit' /\ RowsFit' /\ FilesFit'
    BY <1>1, <1>2, <1>3 DEF SocInv, WritesFit, RowsFit, FilesFit, NoWrites, Disk
  <2> QED
    BY <2>3, <2>4, <2>5 DEF SocInv
<1>4. CASE step' = "refuse" /\ UNCHANGED <<phase, f>>
  <2>1. FlowFits'
    BY <1>1, <1>2, <1>4 DEF FlowFits, NoQuestion
  <2>2. SocTyped'
    BY <1>1, <1>2, <1>4 DEF SocInv, SocTyped, NoQuestion, Disk
  <2>3. WritesFit' /\ RowsFit' /\ FilesFit'
    BY <1>1, <1>2, <1>4 DEF SocInv, WritesFit, RowsFit, FilesFit, NoWrites, Disk, Running
  <2> QED
    BY <2>1, <2>2, <2>3 DEF SocInv
<1> QED
  BY <1>3, <1>4 DEF Start

\* The owner's own plan.
LEMMA PlanPartitionsInv ==
    ASSUME SocInv, BenchAssumption, planPartitions
    PROVE  SocInv'
<1>1. /\ phase \notin Running /\ folder' = folder /\ f' = [f EXCEPT !.mtd = set.memory]
      /\ run' = startPlan(set.memory, "Idle", 0, FALSE)
      /\ UNCHANGED <<bench, flash, built, set, phase, flow, query, step, kept, asking, writing, log>>
  BY DEF planPartitions, world, isRunning, Running
<1>2. set.memory \in Layouts /\ f' \in Known
  BY <1>1, Remembers DEF SocInv, SocTyped, Known
<1>3. run' = [at |-> IF folder'.key = Disk THEN "later" ELSE "EXF", build |-> Disk, key |-> set.memory,
              flow |-> 0, phase |-> "Idle", own |-> FALSE, round |-> 0]
  BY <1>1 DEF startPlan
<1>4. run' \in Plans
  BY <1>2, <1>3 DEF Plans, SocInv, SocTyped
<1>5. FilesFit'
  <2>1. /\ folder.key \in Nat /\ folder.holds \in Nat /\ Disk \in Nat /\ Disk # 0 /\ Disk' = Disk
        /\ folder.key <= folder.holds /\ folder.holds <= Disk
    BY <1>1 DEF SocInv, SocTyped, FilesFit, ExtractFolders, Disk
  <2>2. /\ folder.key # Disk => folder.key < Disk
        /\ Disk \in 1..Disk
    BY <2>1
  <2>3. run'.build = Disk /\ run'.at = IF folder'.key = Disk THEN "later" ELSE "EXF"
    BY <1>3
  <2>4. kept'.valid => kept'.build = folder.key
    BY <1>1 DEF SocInv, FilesFit
  <2> QED
    BY <1>1, <2>1, <2>2, <2>3, <2>4 DEF FilesFit
<1>6. SocTyped'
  BY <1>1, <1>2, <1>4 DEF SocInv, SocTyped, Disk
<1>7. FlowFits'
  BY <1>1 DEF SocInv, FlowFits
<1>8. WritesFit' /\ RowsFit'
  BY <1>1 DEF SocInv, FlowFits, WritesFit, RowsFit, NoWrites, Running
<1> QED
  BY <1>5, <1>6, <1>7, <1>8 DEF SocInv

LEMMA CancelInv ==
    ASSUME SocInv, BenchAssumption, Cancel
    PROVE  SocInv'
  BY FlowOverBeside DEF Cancel, Ends, isRunning, Running

\* The dialog is closed.
LEMMA AnswerInv ==
    ASSUME SocInv, BenchAssumption, Answer
    PROVE  SocInv'
<1>1. asking.rule # 0 /\ asking.rule \in {0, 2, 3} /\ UNCHANGED <<world, kept, run, folder>>
  BY DEF Answer, SocInv, SocTyped
<1>2. Beside
  BY <1>1, NothingBeside
<1>3. ASSUME NEW yes \in {"yes", "no"}, asking.flow = flow,
             applyProfileRules(phase, asking.rule,
                               IF asking.rule = 2 THEN [f EXCEPT !.layoutAnswer = yes]
                                                  ELSE [f EXCEPT !.loaderAnswer = yes])
      PROVE  SocInv'
  <2> DEFINE known == IF asking.rule = 2 THEN [f EXCEPT !.layoutAnswer = yes] ELSE [f EXCEPT !.loaderAnswer = yes]
  <2>1. phase \in Running /\ step = "answer"
    BY <1>1, <1>3 DEF SocInv, FlowFits
  <2>2. phase \in {"RebootingToLoader", "Flashing"} /\ Suits(f, phase, "answer") /\ f \in Known /\ writing = NoWrites
    BY <2>1, StepTells, NotWriting DEF StepOf
  <2>3. /\ known \in Known /\ known.mtd = f.mtd /\ known.board = f.board /\ known.viaTwo = f.viaTwo
        /\ known.at = f.at /\ known.pid = f.pid /\ known.profile = f.profile
    BY <2>2 DEF Known
  <2>4. applyProfileRules(phase, asking.rule, known)
    BY <1>3
  <2> HIDE DEF known
  <2>5. Suits(known, phase, "answer")
    BY <2>2, <2>3 DEF Suits, Adopted, OwnLayout
  <2>6. phase = "Flashing" =>
           /\ folder'.holds = log.judged /\ run'.at # "EXF"
           /\ log.judged \in 1..Disk /\ ~Contradict(known.profile, built[log.judged].tag)
    BY <1>1, <2>1, <2>3 DEF SocInv, WritesFit, JudgedFits
  <2> QED
    BY <1>1, <1>2, <2>1, <2>2, <2>4, <2>5, <2>6, RulesJudge
<1>4. CASE asking.flow # flow /\ asking' = NoQuestion /\ UNCHANGED <<phase, flow, query, step, f, writing, log>>
  <2>1. UNCHANGED <<bench, flash, built, set, kept, run, folder, phase, flow, query, step, f, writing, log>>
    BY <1>1, <1>4 DEF world
  <2>2. NoQuestion \in [rule : {0, 2, 3}, flow : Nat] /\ NoQuestion.flow = 0 /\ NoQuestion.rule = 0
    BY DEF NoQuestion
  <2>3. SocTyped' /\ FilesFit'
    BY <1>4, <2>1, <2>2 DEF SocInv, SocTyped, FilesFit, Disk
  <2>4. FlowFits'
    BY <1>4, <2>1, <2>2 DEF SocInv, FlowFits, Suits, Adopted, OwnLayout
  <2>5. WritesFit' /\ RowsFit'
    BY <2>1 DEF SocInv, WritesFit, RowsFit, JudgedFits, RowHeld, Disk
  <2> QED
    BY <2>3, <2>4, <2>5 DEF SocInv
<1> QED
  BY <1>3, <1>4 DEF Answer

\* A plan is over, and whoever waits for it goes on.
LEMMA PlanReportsInv ==
    ASSUME SocInv, BenchAssumption, NEW ok \in BOOLEAN, PlanReports(ok), UNCHANGED world,
           folder' \in ExtractFolders, folder'.key <= folder'.holds, folder'.holds <= Disk,
           kept'.valid => kept'.build = folder'.key,
           run.at # "EXF" => folder'.holds = folder.holds
    PROVE  SocInv'
<1>1. /\ UNCHANGED <<bench, flash, built, set>> /\ Disk' = Disk /\ NoRun \in Plans /\ NoRun.at = "idle"
      /\ run \in Plans /\ run.round + 1 \in Nat
  BY DEF world, Disk, NoRun, Idle, Plans, Layouts, SocInv, SocTyped
<1>2. run' = NoRun => Beside
  <2>1. run' = NoRun => FilesFit'
    BY <1>1 DEF FilesFit
  <2> QED
    BY <1>1, <2>1 DEF Beside, SocInv, SocTyped
<1>3. ASSUME phase = run.phase, step = "plan", \/ Fail /\ run' = NoRun
                                               \/ ensurePlan(phase, f, run.round + 1, NoRun)
      PROVE  SocInv'
  <2>1. /\ phase \in Running /\ Suits(f, phase, "plan") /\ phase \in {"RebootingToLoader", "Flashing"} /\ writing = NoWrites
    BY <1>3, StepTells, NotWriting DEF StepOf
  <2>2. CASE Fail /\ run' = NoRun
    BY <1>2, <2>1, <2>2, FlowOver DEF Fail, Ends
  <2>3. CASE ensurePlan(phase, f, run.round + 1, NoRun)
    BY <1>1, <1>3, <2>1, <2>3, PlanIsEnsured
  <2> QED
    BY <1>3, <2>2, <2>3
<1>4. CASE run' = NoRun /\ UNCHANGED <<phase, flow, query, step, f, asking, writing, log>>
  <2>1. SocTyped'
    BY <1>1, <1>4 DEF SocInv, SocTyped
  <2>2. FlowFits'
    BY <1>1, <1>4 DEF SocInv, FlowFits, Suits, Adopted, OwnLayout
  <2>3. WritesFit' /\ RowsFit'
    BY <1>1, <1>4 DEF SocInv, WritesFit, RowsFit, JudgedFits, RowHeld
  <2> QED
    BY <1>2, <1>4, <2>1, <2>2, <2>3 DEF SocInv, Beside
<1> QED
  BY <1>3, <1>4 DEF PlanReports

LEMMA FinishPlanInv ==
    ASSUME SocInv, BenchAssumption, finishPlan
    PROVE  SocInv'
<1>1. run.at # "idle" /\ PlanReports(TRUE) /\ UNCHANGED world
  BY DEF finishPlan, Idle
<1>2. PICK holds \in IF run.at = "later" THEN {folder.holds} ELSE {run.build, Disk} :
          /\ folder' = [key |-> run.build, holds |-> holds]
          /\ kept' = [valid |-> TRUE, build |-> run.build, key |-> run.key, layout |-> ResolvedLayout(holds, run.key),
                      fromImage |-> EnvLayout(holds) # "none"]
  BY DEF finishPlan
<1>3. /\ run.build \in 1..Disk /\ Disk \in Nat /\ folder.holds \in Nat /\ folder.holds <= Disk
      /\ run.at = "later" => folder.key = run.build /\ folder.key <= folder.holds
      /\ run.at \in {"EXF", "later"}
  BY <1>1 DEF SocInv, SocTyped, FilesFit, ExtractFolders, Plans
<1>4. /\ folder' \in ExtractFolders /\ folder'.key <= folder'.holds /\ folder'.holds <= Disk
      /\ kept'.build = folder'.key /\ (run.at # "EXF" => folder'.holds = folder.holds)
  BY <1>2, <1>3 DEF ExtractFolders
<1> QED
  BY <1>1, <1>4, PlanReportsInv

LEMMA FailPlanInv ==
    ASSUME SocInv, BenchAssumption, failPlan
    PROVE  SocInv'
<1>1. run.at = "EXF" /\ PlanReports(FALSE) /\ UNCHANGED world /\ folder' = [key |-> 0, holds |-> 0] /\ kept' = NoPlan
  BY DEF failPlan
<1>2. folder' \in ExtractFolders /\ folder'.key <= folder'.holds /\ folder'.holds <= Disk /\ ~kept'.valid
  BY <1>1 DEF ExtractFolders, NoPlan, SocInv, SocTyped
<1> QED
  BY <1>1, <1>2, PlanReportsInv

-----------------------------------------------------------------------------
(* Step 5 and the end of a flow. *)

\* Written, flashed or reset, a board stays a board.
LEMMA BoardMoves ==
    ASSUME SocInv, NEW b \in Boards, NEW mode \in {"adb", "away"}
    PROVE  [bench EXCEPT ![b] = mode] \in [Boards -> BenchModes]
<1>1. bench \in [Boards -> BenchModes] /\ mode \in BenchModes
  BY DEF SocInv, SocTyped, BenchModes
<1> QED
  BY <1>1

\* What comes after a flash: the wait for adb, or the end.
LEMMA AfterFlash ==
    ASSUME SocInv, BenchAssumption, phase = "Flashing", step \in {"UF", "RD"}, afterFlash, Beside
    PROVE  SocInv'
<1>1. phase \in Running /\ Suits(f, phase, step) /\ f \in Known
  BY StepTells
<1>2. CASE Go("WaitingForAdb", "poll", [f EXCEPT !.any = FALSE, !.polls = 0])
  <2> DEFINE next == [f EXCEPT !.any = FALSE, !.polls = 0]
  <2>1. next \in Known /\ next.mtd = f.mtd /\ next.board = f.board /\ next.viaTwo = f.viaTwo
    BY <1>1, Waits
  <2>2. Go("WaitingForAdb", "poll", next)
    BY <1>2
  <2> HIDE DEF next
  <2>3. Suits(next, "WaitingForAdb", "poll") /\ StepOf("WaitingForAdb", "poll") /\ "WaitingForAdb" \in Running
    BY <1>1, <2>1 DEF Suits, StepOf, Running
  <2> QED
    BY <1>1, <2>2, <2>3, FlowGoes
<1>3. CASE EndFlow("Done") /\ UNCHANGED asking
  BY <1>1, <1>3, FlowOver DEF Ends
<1> QED
  BY <1>2, <1>3 DEF afterFlash

\* UF is over.
LEMMA OnFlashFinishedInv ==
    ASSUME SocInv, BenchAssumption, onFlashFinished
    PROVE  SocInv'
<1>1. /\ step = "UF" /\ UNCHANGED <<built, set, kept, run, folder>> /\ phase \in Running /\ phase = "Flashing"
      /\ Disk' = Disk /\ Disk \in Nat
  BY StepTells DEF onFlashFinished, StepOf, Disk, SocInv, SocTyped
<1>2. bench' \in [Boards -> BenchModes] /\ flash' \in [Boards -> [Rows -> Nat]] => Beside
  BY <1>1 DEF SocInv, SocTyped, Beside, FilesFit
<1>3. ASSUME NEW b \in InMode(Download), flash' = [flash EXCEPT ![b] = [r \in DOMAIN @ |-> Disk]],
             bench' \in {[bench EXCEPT ![b] = m] : m \in {"adb", "away"}}, afterFlash
      PROVE  SocInv'
  <2>1. b \in Boards /\ flash \in [Boards -> [Rows -> Nat]]
    BY DEF InMode, SocInv, SocTyped
  <2>2. flash' = [flash EXCEPT ![b] = [r \in Rows |-> Disk]]
    BY <1>3, <2>1
  <2>3. flash' \in [Boards -> [Rows -> Nat]]
    BY <1>1, <2>1, <2>2
  <2> QED
    BY <1>1, <1>2, <1>3, <2>1, <2>3, BoardMoves, AfterFlash
<1>4. CASE UNCHANGED <<bench, flash>> /\ Fail
  BY <1>1, <1>4, FlowFails DEF world
<1> QED
  BY <1>3, <1>4 DEF onFlashFinished

\* A row of a board is written.
LEMMA RowWritten ==
    ASSUME SocInv, NEW b \in Boards, NEW row \in Rows, NEW build \in Nat, Written(b, row, build)
    PROVE  /\ flash' \in [Boards -> [Rows -> Nat]]
           /\ \A a \in Boards, r \in Rows : r # row => flash'[a][r] = flash[a][r]
<1>1. flash \in [Boards -> [Rows -> Nat]] /\ flash' = [flash EXCEPT ![b][row] = build]
  BY DEF Written, SocInv, SocTyped
<1> QED
  BY <1>1

\* The next row.
LEMMA WriteNextInv ==
    ASSUME SocInv, BenchAssumption, phase = "Flashing", step \in {"WL", "RL"}, NEW passed \in BOOLEAN, writeNext(passed), Beside,
           UNCHANGED <<bench, built, set, kept, run, folder>>, set.verify /\ passed => step = "RL", ~passed => step = "WL",
           passed /\ step = "RL" => UNCHANGED flash /\ RowHeld(writing.at),
           ~passed => \A i \in 1..Len(writing.rows) :
                       writing.rows[i] # writing.rows[writing.at] => flash'[f.at][writing.rows[i]] = flash[f.at][writing.rows[i]]
    PROVE  SocInv'
<1> DEFINE next == IF passed THEN writing.at + 1 ELSE writing.at
           command == IF ~passed THEN "RL" ELSE IF next > Len(writing.rows) THEN "RD" ELSE "WL"
<1>1. /\ writing' = [writing EXCEPT !.at = next] /\ step' = command
      /\ UNCHANGED <<phase, flow, query, f, asking, log, built, set, run, folder, kept, bench>> /\ Disk' = Disk
  BY DEF writeNext, Disk
<1>2. /\ writing \in [rows : Seq(Rows), at : Nat \ {0}, build : Nat] /\ writing.at <= Len(writing.rows)
      /\ Len(writing.rows) \in Nat /\ writing.rows # <<>> /\ next \in Nat \ {0}
  BY DEF SocInv, SocTyped, WritesFit
<1>3. writing'.rows = writing.rows /\ writing'.at = next /\ writing'.build = writing.build /\ writing' \in [rows : Seq(Rows), at : Nat \ {0}, build : Nat]
  BY <1>1, <1>2
<1>4. SocTyped'
  BY <1>1, <1>3 DEF SocInv, SocTyped, Beside
<1>5. FlowFits'
  <2>1. phase \in Running /\ Suits(f, phase, step) /\ command \in {"WL", "RL", "RD"}
    BY StepTells
  <2>2. StepOf(phase, step)' /\ Suits(f, phase, step)'
    BY <1>1, <2>1 DEF StepOf, Suits, Adopted, OwnLayout
  <2> QED
    BY <1>1, <2>1, <2>2 DEF SocInv, FlowFits
<1>6. WritesFit'
  <2>1. command \in {"WL", "RL"} => next <= Len(writing.rows)
    BY <1>2
  <2>2. writing.build = log.judged /\ log.judged \in 1..Disk /\ JudgedFits
    BY <1>2 DEF SocInv, WritesFit
  <2>3. JudgedFits'
    BY <1>1, <2>2 DEF JudgedFits
  <2> HIDE DEF next
  <2> QED
    BY <1>1, <1>2, <1>3, <2>1, <2>2, <2>3 DEF WritesFit
<1>7. ASSUME set.verify
      PROVE  RowsFit'
  <2>1. CASE ~passed
    <3>1. step = "WL" /\ step' = "RL" /\ next = writing.at
      BY <1>1, <2>1
    <3>2. \A i \in 1..Len(writing.rows) : i < writing.at => RowHeld(i)
      BY <1>7, <3>1 DEF SocInv, RowsFit
    <3>3. \A i \in 1..Len(writing.rows) :
             i < writing.at /\ writing.rows[i] # writing.rows[writing.at] => flash'[f.at][writing.rows[i]] = writing.build
      BY <2>1, <3>2 DEF RowHeld
    <3> QED
      BY <1>1, <1>3, <3>1, <3>3 DEF RowsFit, RowHeld
  <2>2. CASE passed
    <3>1. step = "RL" /\ UNCHANGED flash /\ RowHeld(writing.at) /\ next = writing.at + 1
      BY <1>7, <2>2
    <3>2. \A i \in 1..Len(writing.rows) :
             i < writing.at /\ writing.rows[i] # writing.rows[writing.at] => RowHeld(i)
      BY <1>7, <3>1 DEF SocInv, RowsFit
    <3>3. \A i \in 1..Len(writing.rows) : i < next => flash[f.at][writing.rows[i]] = writing.build
      <4> TAKE i \in 1..Len(writing.rows)
      <4> HAVE i < next
      <4>1. i < writing.at \/ i = writing.at
        BY <1>2, <3>1
      <4> QED
        BY <3>1, <3>2, <4>1 DEF RowHeld
    <3>4. step' \in {"WL", "RD"} /\ (step' = "RD" => \A i \in 1..Len(writing.rows) : i < next)
      BY <1>1, <1>2, <2>2, <3>1
    <3> HIDE DEF next, command
    <3> QED
      BY <1>1, <1>3, <3>1, <3>3, <3>4 DEF RowsFit, RowHeld
  <2> QED
    BY <2>1, <2>2
<1>8. ~set.verify => RowsFit'
  BY <1>1 DEF RowsFit
<1> QED
  BY <1>4, <1>5, <1>6, <1>7, <1>8 DEF SocInv, Beside

\* WL is over.
LEMMA OnWriteFinishedInv ==
    ASSUME SocInv, BenchAssumption, onWriteFinished
    PROVE  SocInv'
<1>1. /\ step = "WL" /\ UNCHANGED <<bench, built, set, kept, run, folder>> /\ phase \in Running /\ phase = "Flashing"
      /\ Disk' = Disk /\ set.verify \in BOOLEAN
  BY StepTells DEF onWriteFinished, StepOf, Disk, BenchAssumption
<1>2. flash' \in [Boards -> [Rows -> Nat]] => Beside
  BY <1>1 DEF SocInv, SocTyped, Beside, FilesFit
<1>3. /\ writing.at \in 1..Len(writing.rows) /\ writing.build \in Nat
      /\ \A i \in 1..Len(writing.rows) : writing.rows[i] \in Rows
      /\ f.at \in Boards
  <2>1. Suits(f, phase, step)
    BY <1>1, StepTells
  <2> QED
    BY <1>1, <2>1 DEF SocInv, SocTyped, WritesFit, Suits, Adopted
<1>4. ASSUME NEW b \in InMode({"loader"}), NEW build \in {0, writing.build},
             Written(b, writing.rows[writing.at], build), writeNext(~set.verify)
      PROVE  SocInv'
  <2>1. b \in Boards /\ build \in Nat
    BY <1>3 DEF InMode
  <2>2. /\ flash' \in [Boards -> [Rows -> Nat]]
        /\ \A a \in Boards, r \in Rows : r # writing.rows[writing.at] => flash'[a][r] = flash[a][r]
    BY <1>3, <1>4, <2>1, RowWritten
  <2>3. \A i \in 1..Len(writing.rows) :
           writing.rows[i] # writing.rows[writing.at] => flash'[f.at][writing.rows[i]] = flash[f.at][writing.rows[i]]
    BY <1>3, <2>2
  <2> DEFINE passed == ~set.verify
  <2>4. /\ passed \in BOOLEAN /\ writeNext(passed) /\ (set.verify /\ passed => step = "RL") /\ (~passed => step = "WL")
        /\ (passed /\ step = "RL" => UNCHANGED flash /\ RowHeld(writing.at))
    BY <1>1, <1>4
  <2> HIDE DEF passed
  <2> QED
    BY <1>1, <1>2, <2>2, <2>3, <2>4, WriteNextInv
<1>5. ASSUME NEW b \in InMode({"loader"}), Written(b, writing.rows[writing.at], 0), Fail
      PROVE  SocInv'
  <2>1. b \in Boards /\ 0 \in Nat
    BY DEF InMode
  <2>2. flash' \in [Boards -> [Rows -> Nat]]
    BY <1>3, <1>5, <2>1, RowWritten
  <2> QED
    BY <1>1, <1>2, <1>5, <2>2, FlowOver DEF Fail, Ends
<1>6. CASE UNCHANGED flash /\ Fail
  BY <1>1, <1>6, FlowFails DEF world
<1> QED
  BY <1>4, <1>5, <1>6 DEF onWriteFinished

\* The read-back is over.
LEMMA OnVerifyFinishedInv ==
    ASSUME SocInv, BenchAssumption, onVerifyFinished
    PROVE  SocInv'
<1>1. /\ step = "RL" /\ UNCHANGED world /\ UNCHANGED <<kept, run, folder>> /\ phase \in Running /\ phase = "Flashing"
  BY StepTells DEF onVerifyFinished, StepOf
<1>2. CASE flash[f.at][writing.rows[writing.at]] = writing.build /\ writeNext(TRUE)
  <2>1. Beside /\ UNCHANGED <<bench, flash, built, set, kept, run, folder>>
    BY <1>1, NothingBeside DEF world
  <2> DEFINE passed == TRUE
  <2>2. /\ passed \in BOOLEAN /\ passed /\ writeNext(passed) /\ UNCHANGED flash /\ RowHeld(writing.at)
    BY <1>2, <2>1 DEF RowHeld
  <2> HIDE DEF passed
  <2> QED
    BY <1>1, <2>1, <2>2, WriteNextInv
<1>3. CASE Fail
  BY <1>1, <1>3, FlowFails
<1> QED
  BY <1>2, <1>3 DEF onVerifyFinished

\* RD is over.
LEMMA ResetBoardInv ==
    ASSUME SocInv, BenchAssumption, resetBoard
    PROVE  SocInv'
<1>1. /\ step = "RD" /\ UNCHANGED <<flash, built, set, kept, run, folder>> /\ phase \in Running /\ phase = "Flashing"
      /\ Disk' = Disk
  BY StepTells DEF resetBoard, StepOf, Disk
<1>2. ASSUME NEW b \in InMode({"loader"}), bench' \in {[bench EXCEPT ![b] = m] : m \in {"adb", "away"}}, afterFlash
      PROVE  SocInv'
  <2>1. b \in Boards
    BY DEF InMode
  <2>2. bench' \in [Boards -> BenchModes]
    BY <1>2, <2>1, BoardMoves
  <2>3. Beside
    BY <1>1, <2>2 DEF SocInv, SocTyped, Beside, FilesFit
  <2> QED
    BY <1>1, <1>2, <2>3, AfterFlash
<1>3. CASE UNCHANGED bench /\ Fail
  BY <1>1, <1>3, FlowFails DEF world
<1> QED
  BY <1>2, <1>3 DEF resetBoard

\* Steps 6 and 7.
LEMMA PollAdbInv ==
    ASSUME SocInv, BenchAssumption, PollAdb
    PROVE  SocInv'
<1>1. /\ step = "poll" /\ phase = "WaitingForAdb" /\ UNCHANGED world /\ UNCHANGED <<kept, run, folder>>
      /\ phase \in Running /\ Suits(f, phase, step)
  BY StepTells DEF PollAdb
<1>2. CASE Go("ReadingBoardInfo", "info", f)
  <2>1. Suits(f, "ReadingBoardInfo", "info") /\ StepOf("ReadingBoardInfo", "info") /\ "ReadingBoardInfo" \in Running
    BY <1>1 DEF Suits, StepOf, Running
  <2> QED
    BY <1>1, <1>2, <2>1, FlowGoesBeside
<1>3. CASE EndFlow("Done") /\ UNCHANGED asking
  BY <1>1, <1>3, FlowOverBeside DEF Ends
<1>4. CASE pollAgain("poll")
  BY <1>1, <1>4, PollInv
<1> QED
  BY <1>2, <1>3, <1>4 DEF PollAdb

LEMMA ReadBoardInfoInv ==
    ASSUME SocInv, BenchAssumption, ReadBoardInfo
    PROVE  SocInv'
<1>1. phase \in Running
  BY StepTells DEF ReadBoardInfo
<1> QED
  BY <1>1, FlowOverBeside DEF ReadBoardInfo, Ends

-----------------------------------------------------------------------------
(* The bench and the build server; then every step. *)

LEMMA MoveInv ==
    ASSUME SocInv, NEW b \in Boards, NEW mode \in BenchModes, Move(b, mode)
    PROVE  SocInv'
<1>1. /\ bench' = [bench EXCEPT ![b] = mode] /\ log' = [log EXCEPT !.changes = @ + 1]
      /\ UNCHANGED <<flash, built, set, phase, flow, query, step, f, kept, run, folder, asking, writing>> /\ Disk' = Disk
  BY DEF Move, Disk
<1>2. /\ log' \in [starts : Nat, ends : Nat, changes : Nat, judged : Nat]
      /\ log'.ends = log.ends /\ log'.starts = log.starts /\ log'.judged = log.judged
  <2>1. log \in [starts : Nat, ends : Nat, changes : Nat, judged : Nat]
    BY DEF SocInv, SocTyped
  <2>2. log' = [log EXCEPT !.changes = @ + 1]
    BY <1>1
  <2> QED
    BY <2>1, <2>2
<1>3. SocTyped'
  <2>1. bench' \in [Boards -> BenchModes]
    BY <1>1 DEF SocInv, SocTyped
  <2> QED
    BY <1>1, <1>2, <2>1 DEF SocInv, SocTyped
<1>4. FlowFits'
  BY <1>1, <1>2 DEF SocInv, FlowFits, Suits, Adopted, OwnLayout
<1>5. FilesFit' /\ WritesFit' /\ RowsFit'
  BY <1>1, <1>2 DEF SocInv, FilesFit, WritesFit, RowsFit, JudgedFits, RowHeld
<1> QED
  BY <1>3, <1>4, <1>5 DEF SocInv

\* A rebuilt image is a new build; the ones before it stay what they were.
LEMMA RebuildInv ==
    ASSUME SocInv, NEW kind \in ImageKinds, Rebuild(kind)
    PROVE  SocInv'
<1>1. /\ built' = Append(built, kind) /\ log' = [log EXCEPT !.changes = @ + 1]
      /\ UNCHANGED <<bench, flash, set, phase, flow, query, step, f, kept, run, folder, asking, writing>>
  BY DEF Rebuild
<1>2. /\ log' \in [starts : Nat, ends : Nat, changes : Nat, judged : Nat]
      /\ log'.ends = log.ends /\ log'.starts = log.starts /\ log'.judged = log.judged
  <2>1. log \in [starts : Nat, ends : Nat, changes : Nat, judged : Nat]
    BY DEF SocInv, SocTyped
  <2>2. log' = [log EXCEPT !.changes = @ + 1]
    BY <1>1
  <2> QED
    BY <2>1, <2>2
<1>3. /\ built' \in Seq(ImageKinds) /\ Disk' = Disk + 1 /\ Disk \in Nat /\ Disk' \in Nat \ {0}
      /\ \A i \in 1..Disk : built'[i] = built[i]
  BY <1>1 DEF SocInv, SocTyped, Disk
<1>4. SocTyped'
  BY <1>1, <1>2, <1>3 DEF SocInv, SocTyped
<1>5. FlowFits'
  BY <1>1, <1>2 DEF SocInv, FlowFits, Suits, Adopted, OwnLayout
<1>6. FilesFit'
  <2>1. folder.holds \in Nat /\ (folder.holds <= Disk => folder.holds <= Disk') /\ 1..Disk \subseteq 1..Disk'
    BY <1>3 DEF SocInv, SocTyped, ExtractFolders
  <2> QED
    BY <1>1, <2>1 DEF SocInv, FilesFit
<1>7. WritesFit'
  <2>1. 1..Disk \subseteq 1..Disk'
    BY <1>3
  <2>2. log.judged \in 1..Disk /\ JudgedFits => JudgedFits'
    BY <1>1, <1>2, <1>3 DEF JudgedFits
  <2> QED
    BY <1>1, <1>2, <2>1, <2>2 DEF SocInv, WritesFit
<1>8. RowsFit'
  BY <1>1 DEF SocInv, RowsFit, RowHeld
<1> QED
  BY <1>4, <1>5, <1>6, <1>7, <1>8 DEF SocInv

LEMMA SocRests ==
    ASSUME SocInv, UNCHANGED vars
    PROVE  SocInv'
<1>1. UNCHANGED <<bench, flash, built, set, phase, flow, query, step, f, kept, run, folder, asking, writing, log>> /\ Disk' = Disk
  BY DEF vars, Disk
<1>2. SocTyped' /\ FilesFit'
  BY <1>1 DEF SocInv, SocTyped, FilesFit
<1>3. FlowFits'
  BY <1>1 DEF SocInv, FlowFits, Suits, Adopted, OwnLayout
<1>4. WritesFit' /\ RowsFit'
  BY <1>1 DEF SocInv, WritesFit, RowsFit, JudgedFits, RowHeld
<1> QED
  BY <1>2, <1>3, <1>4 DEF SocInv

LEMMA SocNextInv ==
    ASSUME SocInv, BenchAssumption, Next
    PROVE  SocInv'
<1>1. CASE Commands
  <2>1. CASE OwnersQuery
    BY <2>1, OwnersQueryInv
  <2>2. CASE Refuse
    BY <2>2, RefuseInv
  <2>3. CASE ListDevices
    BY <2>3, ListDevicesInv
  <2>4. CASE AdbDevices
    BY <2>4, AdbDevicesInv
  <2>5. CASE ReadFlashLayout
    BY <2>5, ReadFlashLayoutInv
  <2>6. CASE ReadBoardProduct
    BY <2>6, ReadBoardProductInv
  <2>7. CASE RebootIntoLoader
    BY <2>7, RebootIntoLoaderInv
  <2>8. CASE PollLoader
    BY <2>8, PollLoaderInv
  <2>9. CASE ReadLayoutInLoaderMode
    BY <2>9, ReadLayoutInLoaderModeInv
  <2>10. CASE finishPlan
    BY <2>10, FinishPlanInv
  <2>11. CASE failPlan
    BY <2>11, FailPlanInv
  <2>12. CASE onFlashFinished
    BY <2>12, OnFlashFinishedInv
  <2>13. CASE onWriteFinished
    BY <2>13, OnWriteFinishedInv
  <2>14. CASE onVerifyFinished
    BY <2>14, OnVerifyFinishedInv
  <2>15. CASE resetBoard
    BY <2>15, ResetBoardInv
  <2>16. CASE PollAdb
    BY <2>16, PollAdbInv
  <2>17. CASE ReadBoardInfo
    BY <2>17, ReadBoardInfoInv
  <2> QED
    BY <1>1, <2>1, <2>2, <2>3, <2>4, <2>5, <2>6, <2>7, <2>8, <2>9, <2>10, <2>11, <2>12, <2>13, <2>14, <2>15, <2>16, <2>17
    DEF Commands
<1>2. CASE queryStatus
  BY <1>2, OwnersQueryInv
<1>3. CASE Start
  BY <1>3, StartInv
<1>4. CASE planPartitions
  BY <1>4, PlanPartitionsInv
<1>5. CASE Cancel
  BY <1>5, CancelInv
<1>6. CASE Answer
  BY <1>6, AnswerInv
<1>7. ASSUME NEW b \in Boards, NEW mode \in {"away", "adb"} \cup Download, Move(b, mode)
      PROVE  SocInv'
  BY <1>7, MoveInv DEF BenchModes
<1>8. ASSUME NEW kind \in ImageKinds, Rebuild(kind)
      PROVE  SocInv'
  BY <1>8, RebuildInv
<1> QED
  BY <1>1, <1>2, <1>3, <1>4, <1>5, <1>6, <1>7, <1>8 DEF Next

-----------------------------------------------------------------------------
(* The theorems. *)

\* The invariant of a flow tells what a flash must be.
LEMMA SocInvTells ==
    ASSUME SocInv
    PROVE  FlashIsJudged
<1>1. isRunning <=> phase \in Running
  BY DEF isRunning, Running
<1>2. FinishedOnce /\ ToolsAreFree
  BY <1>1 DEF SocInv, FlowFits, FinishedOnce, ToolsAreFree, Idle
<1>3. WritesTheJudgedBuild
  BY DEF SocInv, WritesFit, WritesTheJudgedBuild
<1>4. JudgedByItsOwnLayout
  BY DEF SocInv, FlowFits, Suits, OwnLayout, JudgedByItsOwnLayout, Running
<1>5. VerifiedBeforeReset
  <2>1. DOMAIN writing.rows = 1..Len(writing.rows)
    BY DEF SocInv, SocTyped
  <2> QED
    BY <2>1 DEF SocInv, RowsFit, RowHeld, VerifiedBeforeReset
<1> QED
  BY <1>2, <1>3, <1>4, <1>5 DEF FlashIsJudged

\* What a step of a flow may never do.
NoForeignImage ==
    step = "WL" /\ flash' # flash /\ flash'[f.at] # flash[f.at] => ~Contradict(BoardOf[f.at].pid, built[writing.build].tag)
NoWriteIsCut == phase = "Flashing" => phase' # "Cancelled"

\* The image that is written was judged by the profile the adopted board's PID names.
LEMMA NoForeignImageIsWritten ==
    ASSUME SocInv
    PROVE  NoForeignImage
<1> SUFFICES ASSUME step = "WL"
             PROVE  ~Contradict(BoardOf[f.at].pid, built[writing.build].tag)
  BY DEF NoForeignImage
<1>1. phase = "Flashing" /\ Suits(f, phase, step)
  BY StepTells DEF StepOf
<1>2. f.pid = BoardOf[f.at].pid /\ (f.pid \in Profiles => f.profile = f.pid)
  BY <1>1 DEF Suits, Adopted
<1>3. writing.build = log.judged /\ ~Contradict(f.profile, built[log.judged].tag)
  BY <1>1 DEF SocInv, WritesFit, JudgedFits
<1> QED
  BY <1>2, <1>3 DEF Contradict

\* Only the owner's cancel ends a flow as cancelled, and a write refuses it.
LEMMA NoWriteIsCancelled ==
    ASSUME SocInv, Next
    PROVE  NoWriteIsCut
<1> SUFFICES ASSUME phase = "Flashing"
             PROVE  phase' # "Cancelled"
  BY DEF NoWriteIsCut
<1>1. step \in {"plan", "answer", "UF", "WL", "RL", "RD"}
  BY DEF SocInv, FlowFits, StepOf, Running
<1>2. \A end : EndFlow(end) => phase' = end
  BY DEF EndFlow
<1>3. Fail => phase' = "Failed"
  BY <1>2 DEF Fail
<1>4. \A next, first, known : applyProfileRules(next, first, known) => phase' \in {next, "Failed"}
  BY <1>2 DEF applyProfileRules, Passed
<1>5. \A known, round, running : ensurePlan(phase, known, round, running) => phase' \in {phase, "Failed"}
  <2> TAKE known, round, running
  <2>1. writePartitions(known) => phase' \in {"Flashing", "Failed"}
    BY <1>3, <1>4 DEF writePartitions
  <2>2. WithPlan(phase, known) => phase' \in {phase, "Failed"}
    BY <1>3, <2>1 DEF WithPlan
  <2>3. Go(phase, "plan", known) => phase' = phase
    BY DEF Go
  <2> QED
    BY <1>3, <2>2, <2>3 DEF ensurePlan
<1>6. \A ok : PlanReports(ok) => phase' \in {phase, "Failed"}
  BY <1>3, <1>5 DEF PlanReports
<1>7. afterFlash => phase' \in {"WaitingForAdb", "Done"}
  BY <1>2 DEF afterFlash, Go
<1>8. CASE Commands
  <2>1. ~OwnersQuery \/ UNCHANGED phase
    BY DEF OwnersQuery
  <2>2. ~(Refuse \/ ListDevices \/ AdbDevices \/ ReadFlashLayout \/ ReadBoardProduct \/ RebootIntoLoader)
    <3>1. ~(Refuse \/ ListDevices \/ AdbDevices)
      BY <1>1 DEF Refuse, ListDevices, AdbDevices
    <3>2. ~ReadFlashLayout
      <4>1. ReadFlashLayout => step = "cmdline"
        BY DEF ReadFlashLayout
      <4> QED
        BY <1>1, <4>1
    <3>3. ~ReadBoardProduct
      BY <1>1 DEF ReadBoardProduct
    <3>4. ~RebootIntoLoader
      <4>1. RebootIntoLoader => step = "reboot"
        BY DEF RebootIntoLoader
      <4> QED
        BY <1>1, <4>1
    <3> QED
      BY <3>1, <3>2, <3>3, <3>4
  <2>3. ~(PollLoader \/ ReadLayoutInLoaderMode \/ PollAdb \/ ReadBoardInfo)
    BY <1>1 DEF PollLoader, ReadLayoutInLoaderMode, PollAdb, ReadBoardInfo
  <2>4. finishPlan \/ failPlan => phase' # "Cancelled"
    BY <1>6 DEF finishPlan, failPlan
  <2>5. onFlashFinished \/ resetBoard => phase' # "Cancelled"
    BY <1>3, <1>7 DEF onFlashFinished, resetBoard
  <2>6. onWriteFinished \/ onVerifyFinished => phase' # "Cancelled"
    BY <1>3 DEF onWriteFinished, onVerifyFinished, writeNext
  <2> QED
    BY <1>8, <2>1, <2>2, <2>3, <2>4, <2>5, <2>6 DEF Commands
<1>9. CASE queryStatus \/ planPartitions
  BY <1>9 DEF queryStatus, planPartitions
<1>10. ~Start /\ ~Cancel
  BY DEF Start, Cancel, isRunning
<1>11. CASE Answer
  BY <1>4, <1>11 DEF Answer
<1>12. ASSUME NEW b, NEW mode, Move(b, mode)
       PROVE  phase' # "Cancelled"
  BY <1>12 DEF Move
<1>13. ASSUME NEW kind, Rebuild(kind)
       PROVE  phase' # "Cancelled"
  BY <1>13 DEF Rebuild
<1> QED
  BY <1>8, <1>9, <1>10, <1>11, <1>12, <1>13 DEF Next

\* The frame of a step of another part.
LEMMA ToolsNextKeepsSocInv ==
    ASSUME SocInv, BenchAssumption, [ToolsNext]_<<which, vars, ofTool, ofBridge, ofCache, ofInventory, ofCli>>
    PROVE  SocInv'
<1>1. Next \/ UNCHANGED vars
  BY DEF ToolsNext
<1> QED
  BY <1>1, SocNextInv, SocRests

\* A flash reports its one end, shares the USB device with no query, writes the build whose header
\* was judged by the layout of the board it adopted, and resets only what was read back, on every
\* bench and for all the owner's choices.
THEOREM FlashIsJudgedAlways ==
    ASSUME BenchAssumption
    PROVE  ToolsSpec => []FlashIsJudged
<1>1. ToolsInit => SocInv
  BY SocBegins DEF ToolsInit
<1>2. SocInv /\ [ToolsNext]_<<which, vars, ofTool, ofBridge, ofCache, ofInventory, ofCli>> => SocInv'
  BY ToolsNextKeepsSocInv
<1>3. SocInv => FlashIsJudged
  BY SocInvTells
<1> QED
  BY <1>1, <1>2, <1>3, PTL DEF ToolsSpec

\* No partition of the adopted board gets an image that names another profile than the board's own
\* PID, whatever the owner overrides or forces, and no cancel cuts a write.
THEOREM WritesStaySafe ==
    ASSUME BenchAssumption
    PROVE  ToolsSpec => WritesAreSafe
<1>1. ToolsInit => SocInv
  BY SocBegins DEF ToolsInit
<1>2. SocInv /\ [ToolsNext]_<<which, vars, ofTool, ofBridge, ofCache, ofInventory, ofCli>> => SocInv'
  BY ToolsNextKeepsSocInv
<1>3. SocInv /\ [ToolsNext]_<<which, vars, ofTool, ofBridge, ofCache, ofInventory, ofCli>> => [NoForeignImage]_vars
  BY NoForeignImageIsWritten
<1>4. SocInv /\ [ToolsNext]_<<which, vars, ofTool, ofBridge, ofCache, ofInventory, ofCli>> => [NoWriteIsCut]_vars
  BY NoWriteIsCancelled DEF ToolsNext
<1>5. ToolsSpec => [][NoForeignImage]_vars /\ [][NoWriteIsCut]_vars
  BY <1>1, <1>2, <1>3, <1>4, PTL DEF ToolsSpec
<1> QED
  BY <1>5 DEF WritesAreSafe, ForeignImageStaysOff, CancelNeverCutsAWrite, NoForeignImage, NoWriteIsCut

-----------------------------------------------------------------------------
(* An external command (ToolRun).                                          *)

Signals == {Tool!Signal("started", 0), Tool!Signal("finished", 0)} \cup {Tool!Signal("output", n) : n \in Nat}
ToolFlags == [cancel : BOOLEAN, timedOut : BOOLEAN, finished : BOOLEAN, timer : BOOLEAN, grace : BOOLEAN]
ToolResults == [started : BOOLEAN, cancelled : BOOLEAN, timedOut : BOOLEAN, ok : BOOLEAN]

\* Signals in their order, of a command that has ended or not.
InOrder(list, over) ==
    /\ \A i \in 1..Len(list) :
          /\ list[i].signal = "started" => i = 1
          /\ list[i].signal = "finished" => i = Len(list) /\ over
          /\ list[i].signal = "output" => list[1].signal = "started"

\* The owner hears of the last chunk that is not in the pipe any more.
OutputTold(list) == printed > 0 => Tool!Signal("output", printed) \in ToSet(list)

\* One end, of a command that does not run; a detached command has printed nothing.
EndTold ==
    /\ flags.finished \/ "failed" \in posted => process = "none"
    /\ InOrder(heard, flags.finished)
    /\ ~flags.finished /\ unread = 0 => OutputTold(heard)
    /\ "detached" \in posted => process = "none" /\ child = "exited" /\ printed = 0 /\ ~flags.timedOut

\* What is given to a command that starts is kept until it runs, its end last.
InputKept ==
    /\ process = "starting" => stdin = <<>> /\ given = pendingInput \o Tool!Close(closeAfterStart)
    /\ Tool!InputInOrder

ToolInv ==
    /\ process \in {"starting", "running", "none"} /\ child \in {"alive", "killed", "exited", "crashed"}
    /\ posted \subseteq {"announce", "failed", "detached"} /\ flags \in ToolFlags /\ result \in ToolResults
    /\ given \in Seq(Nat) /\ pendingInput \in Seq(Nat) /\ stdin \in Seq(Nat) /\ closeAfterStart \in BOOLEAN
    /\ printed \in Nat /\ unread \in Nat /\ heard \in Seq(Signals)
    /\ EndTold /\ Tool!ResultIsTrue /\ InputKept

\* A signal more.
LEMMA SignalAppended ==
    ASSUME NEW list \in Seq(Signals), InOrder(list, FALSE), NEW more \in Signals, NEW over \in BOOLEAN,
           more.signal = "started" => list = <<>>,
           more.signal = "output" => list # <<>> /\ list[1].signal = "started",
           more.signal = "finished" => over
    PROVE  /\ Append(list, more) \in Seq(Signals) /\ InOrder(Append(list, more), over)
           /\ ToSet(Append(list, more)) = ToSet(list) \cup {more}
           /\ Append(list, more)[1] = IF list = <<>> THEN more ELSE list[1]
<1> DEFINE longer == Append(list, more)
<1>1. /\ longer \in Seq(Signals) /\ Len(longer) = Len(list) + 1 /\ Len(list) \in Nat
      /\ \A i \in 1..Len(list) : longer[i] = list[i]
      /\ longer[Len(list) + 1] = more /\ DOMAIN longer = 1..Len(longer) /\ DOMAIN list = 1..Len(list)
  OBVIOUS
<1>2. list = <<>> <=> Len(list) = 0
  OBVIOUS
<1> HIDE DEF longer
<1>3. more.signal \in {"started", "finished", "output"}
  BY DEF Signals, Tool!Signal
<1>4. InOrder(longer, over)
  <2> SUFFICES ASSUME NEW i \in 1..Len(longer)
               PROVE  /\ longer[i].signal = "started" => i = 1
                      /\ longer[i].signal = "finished" => i = Len(longer) /\ over
                      /\ longer[i].signal = "output" => longer[1].signal = "started"
    BY DEF InOrder
  <2>1. CASE i \in 1..Len(list)
    BY <1>1, <2>1 DEF InOrder
  <2>2. CASE i = Len(list) + 1
    BY <1>1, <1>2, <2>2
  <2> QED
    BY <1>1, <2>1, <2>2
<1>5. ToSet(longer) = ToSet(list) \cup {more}
  BY <1>1 DEF ToSet
<1>6. longer[1] = IF list = <<>> THEN more ELSE list[1]
  BY <1>1, <1>2
<1> QED
  BY <1>1, <1>4, <1>5, <1>6 DEF longer

\* markStarted(): the first signal, once.
LEMMA AnnouncedFirst ==
    ASSUME NEW list \in Seq(Signals), InOrder(list, FALSE)
    PROVE  /\ Tool!Announced(list) \in Seq(Signals) /\ InOrder(Tool!Announced(list), FALSE)
           /\ Tool!Announced(list) # <<>> /\ Tool!Announced(list)[1] = Tool!Signal("started", 0)
           /\ ToSet(list) \subseteq ToSet(Tool!Announced(list))
<1>1. Tool!Signal("started", 0) \in Signals /\ Tool!Signal("started", 0).signal = "started"
  BY DEF Signals, Tool!Signal
<1>2. \A i \in 1..Len(list) : list[i] \in Signals
  OBVIOUS
<1>3. \A s \in Signals : s.signal \in {"started", "output", "finished"} /\ (s.signal = "started" => s = Tool!Signal("started", 0))
  BY DEF Signals, Tool!Signal
<1>4. ToSet(list) = {list[i] : i \in 1..Len(list)} /\ Len(list) \in Nat
  BY DEF ToSet
<1>5. CASE Tool!Signal("started", 0) \in ToSet(list)
  <2>1. PICK i \in 1..Len(list) : list[i] = Tool!Signal("started", 0)
    BY <1>4, <1>5
  <2>2. i = 1
    BY <1>1, <2>1 DEF InOrder
  <2>3. Tool!Announced(list) = list
    BY <1>5 DEF Tool!Announced, Tool!ToSet, ToSet
  <2>4. list # <<>> /\ list[1] = Tool!Signal("started", 0)
    BY <2>1, <2>2
  <2> QED
    BY <2>3, <2>4
<1>6. CASE Tool!Signal("started", 0) \notin ToSet(list)
  <2>1. list = <<>>
    <3>1. SUFFICES ASSUME list # <<>> PROVE FALSE
      OBVIOUS
    <3>2. 1 \in 1..Len(list)
      BY <3>1
    <3>3. list[1] \in Signals /\ list[1] # Tool!Signal("started", 0)
      BY <1>2, <1>4, <1>6, <3>2
    <3>4. list[1].signal # "started" /\ list[1].signal # "finished"
      BY <1>3, <3>2, <3>3 DEF InOrder
    <3> QED
      BY <1>3, <3>2, <3>3, <3>4 DEF InOrder
  <2>2. Tool!Announced(list) = Append(list, Tool!Signal("started", 0))
    BY <1>6 DEF Tool!Announced, Tool!ToSet, ToSet
  <2> DEFINE first == Tool!Signal("started", 0)
  <2> HIDE DEF first
  <2>3. /\ Append(list, first) \in Seq(Signals) /\ InOrder(Append(list, first), FALSE)
        /\ ToSet(Append(list, first)) = ToSet(list) \cup {first} /\ Append(list, first)[1] = first
    BY <1>1, <2>1, SignalAppended DEF first
  <2>4. Append(list, first) # <<>>
    <3>1. first \in Signals
      BY DEF first, Signals, Tool!Signal
    <3> QED
      BY <1>1, <3>1, AppendProperties
  <2> QED
    BY <2>2, <2>3, <2>4 DEF first
<1> QED
  BY <1>5, <1>6

\* drain(): whatever is in the pipe is told.
LEMMA DrainedTells ==
    ASSUME ToolInv, ~flags.finished
    PROVE  /\ Tool!Drained(heard) \in Seq(Signals) /\ InOrder(Tool!Drained(heard), FALSE)
           /\ OutputTold(Tool!Drained(heard)) /\ ToSet(heard) \subseteq ToSet(Tool!Drained(heard))
<1>1. heard \in Seq(Signals) /\ InOrder(heard, FALSE) /\ printed \in Nat
  <2>1. flags.finished = FALSE
    BY DEF ToolInv, ToolFlags
  <2> QED
    BY <2>1 DEF ToolInv, EndTold
<1>2. CASE unread = 0
  BY <1>1, <1>2 DEF Tool!Drained, ToolInv, EndTold
<1>3. CASE unread # 0
  <2> DEFINE announced == Tool!Announced(heard)
             chunk == Tool!Signal("output", printed)
  <2>1. /\ announced \in Seq(Signals) /\ InOrder(announced, FALSE) /\ announced # <<>>
        /\ announced[1] = Tool!Signal("started", 0) /\ ToSet(heard) \subseteq ToSet(announced)
    BY <1>1, AnnouncedFirst
  <2>2. chunk \in Signals /\ chunk.signal = "output" /\ Tool!Signal("started", 0).signal = "started"
    BY <1>1 DEF Signals, Tool!Signal
  <2>3. Tool!Drained(heard) = Append(announced, chunk)
    BY <1>3 DEF Tool!Drained
  <2> HIDE DEF announced, chunk
  <2>4. /\ Append(announced, chunk) \in Seq(Signals) /\ InOrder(Append(announced, chunk), FALSE)
        /\ ToSet(Append(announced, chunk)) = ToSet(announced) \cup {chunk}
    BY <2>1, <2>2, SignalAppended
  <2>5. OutputTold(Append(announced, chunk))
    BY <2>4 DEF OutputTold, chunk
  <2> QED
    BY <2>1, <2>3, <2>4, <2>5
<1> QED
  BY <1>2, <1>3

\* A list begins with itself, with nothing, and goes on to begin what is added to the other.
LEMMA StillBegins ==
    ASSUME NEW s \in Seq(Nat), NEW t \in Seq(Nat), NEW x \in Nat
    PROVE  /\ Tool!IsPrefix(s, s)
           /\ Tool!IsPrefix(<<>>, t)
           /\ Tool!IsPrefix(s, t) => Tool!IsPrefix(s, Append(t, x))
<1>1. SubSeq(s, 1, Len(s)) = s /\ Len(s) \in Nat /\ Len(t) \in Nat /\ Len(<<>>) = 0
  OBVIOUS
<1>2. Tool!IsPrefix(s, s)
  BY <1>1 DEF Tool!IsPrefix
<1>3. Tool!IsPrefix(<<>>, t)
  <2>1. SubSeq(<<>>, 1, 0) = <<>> /\ SubSeq(t, 1, 0) = <<>>
    BY SubSeqEmpty
  <2> QED
    BY <1>1, <2>1 DEF Tool!IsPrefix
<1>4. Tool!IsPrefix(s, t) => Tool!IsPrefix(s, Append(t, x))
  <2> SUFFICES ASSUME Tool!IsPrefix(s, t) PROVE Tool!IsPrefix(s, Append(t, x))
    OBVIOUS
  <2>1. Len(s) <= Len(t) /\ SubSeq(s, 1, Len(s)) = SubSeq(t, 1, Len(s))
    BY DEF Tool!IsPrefix
  <2>2. Append(t, x) \in Seq(Nat) /\ Len(Append(t, x)) = Len(t) + 1 /\ \A i \in 1..Len(t) : Append(t, x)[i] = t[i]
    OBVIOUS
  <2>3. SubSeq(Append(t, x), 1, Len(s)) = SubSeq(t, 1, Len(s))
    BY <1>1, <2>1, <2>2
  <2> QED
    BY <1>1, <2>1, <2>2, <2>3 DEF Tool!IsPrefix
<1> QED
  BY <1>2, <1>3, <1>4

\* Input the owner has not closed holds no end.
LEMMA NotClosed ==
    ASSUME NEW s \in Seq(Nat), NEW want \in BOOLEAN, Tool!EndOfInput \notin ToSet(s \o Tool!Close(want))
    PROVE  want = FALSE
<1> SUFFICES ASSUME want PROVE FALSE
  OBVIOUS
<1>1. /\ Len(s \o <<0>>) = Len(s) + 1 /\ (s \o <<0>>)[Len(s) + 1] = 0 /\ Len(s) \in Nat
      /\ DOMAIN (s \o <<0>>) = 1..(Len(s) + 1)
  OBVIOUS
<1> QED
  BY <1>1 DEF ToSet, Tool!Close, Tool!EndOfInput

InputTypes ==
    given \in Seq(Nat) /\ pendingInput \in Seq(Nat) /\ stdin \in Seq(Nat) /\ closeAfterStart \in BOOLEAN

\* What the owner gives, and the start that delivers what it gave before.
LEMMA InputStays ==
    ASSUME ToolInv, Tool!ToolNext
    PROVE  InputTypes' /\ InputKept'
<1>1. /\ InputTypes /\ InputKept /\ Tool!InputInOrder /\ process \in {"starting", "running", "none"}
      /\ child \in {"alive", "killed", "exited", "crashed"}
  BY DEF ToolInv, InputTypes, InputKept
<1>2. ASSUME UNCHANGED <<given, pendingInput, closeAfterStart, stdin>>,
             process' = "starting" => process = "starting",
             process' = "running" /\ child' = "alive" => process = "running" /\ child = "alive"
      PROVE  InputTypes' /\ InputKept'
  <2>1. Tool!InputInOrder'
    BY <1>1, <1>2 DEF Tool!InputInOrder
  <2>2. process' = "starting" => stdin' = <<>> /\ given' = pendingInput' \o Tool!Close(closeAfterStart')
    BY <1>1, <1>2 DEF InputKept
  <2> QED
    BY <1>1, <1>2, <2>1, <2>2 DEF InputTypes, InputKept, Tool!Close
<1>3. CASE Tool!Started
  <2>1. /\ UNCHANGED <<given, closeAfterStart>> /\ process = "starting" /\ process' = "running"
        /\ stdin = <<>> /\ given = pendingInput \o Tool!Close(closeAfterStart)
    BY <1>1, <1>3 DEF Tool!Started, InputKept
  <2>2. pendingInput' \in Seq(Nat)
    <3>1. pendingInput' = pendingInput \/ pendingInput' = <<>>
      BY <1>3 DEF Tool!Started
    <3>2. <<>> \in Seq(Nat)
      OBVIOUS
    <3> QED
      BY <1>1, <3>1, <3>2 DEF InputTypes
  <2>3. (stdin' = <<>> /\ child' # "alive") \/ stdin' = given
    <3>1. CASE flags.cancel
      BY <1>3, <2>1, <3>1 DEF Tool!Started
    <3>2. CASE ~flags.cancel /\ child # "alive"
      BY <1>3, <2>1, <3>2 DEF Tool!Started, Tool!Given
    <3>3. CASE ~flags.cancel /\ child = "alive"
      <4>1. stdin' = <<>> \o given
        BY <1>3, <2>1, <3>3 DEF Tool!Started, Tool!Given
      <4> QED
        BY <1>1, <4>1 DEF InputTypes
    <3> QED
      BY <3>1, <3>2, <3>3
  <2>4. stdin' \in Seq(Nat)
    BY <1>1, <2>1, <2>3 DEF InputTypes
  <2>5. Tool!IsPrefix(stdin', given')
    <3>1. Tool!IsPrefix(<<>>, given) /\ Tool!IsPrefix(given, given)
      BY <1>1, StillBegins DEF InputTypes
    <3> QED
      BY <2>1, <2>3, <3>1
  <2>6. Tool!InputInOrder'
    BY <2>1, <2>3, <2>5 DEF Tool!InputInOrder
  <2> QED
    BY <1>1, <2>1, <2>2, <2>4, <2>6 DEF InputTypes, InputKept
<1>4. CASE Tool!WriteInput
  <2> DEFINE piece == Len(given) + 1
  <2>1. piece \in Nat /\ piece # 0
    BY <1>1 DEF InputTypes
  <2>2. /\ given' = Append(given, piece) /\ given' \in Seq(Nat) /\ Last(given') = piece
        /\ UNCHANGED <<process, child, closeAfterStart>>
    BY <1>1, <1>4 DEF InputTypes, Tool!WriteInput, Last
  <2>3. Tool!Last(given') = piece
    BY <2>2 DEF Tool!Last, Last
  <2> HIDE DEF piece
  <2>4. Tool!IsPrefix(stdin, given') /\ Tool!IsPrefix(given', given')
    BY <1>1, <2>1, <2>2, StillBegins DEF InputTypes, Tool!InputInOrder
  <2>5. CASE process = "starting"
    <3>1. closeAfterStart = FALSE
      <4>1. Tool!EndOfInput \notin ToSet(pendingInput \o Tool!Close(closeAfterStart))
        BY <1>1, <1>4, <2>5 DEF Tool!WriteInput, InputKept, Tool!ToSet, ToSet
      <4> QED
        BY <1>1, <4>1, NotClosed DEF InputTypes
    <3>2. given = pendingInput
      <4>1. given = pendingInput \o <<>>
        BY <1>1, <2>5, <3>1 DEF InputKept, Tool!Close
      <4> QED
        BY <1>1, <4>1 DEF InputTypes
    <3>3. stdin' = stdin /\ (pendingInput' = pendingInput \/ pendingInput' = Append(pendingInput, piece))
      BY <1>4, <2>3, <2>5 DEF Tool!WriteInput
    <3>4. flags.finished = FALSE
      BY <2>5 DEF ToolInv, EndTold, ToolFlags
    <3>5. pendingInput' = Append(pendingInput, piece)
      BY <1>4, <2>3, <2>5, <3>4 DEF Tool!WriteInput
    <3>6. given' = pendingInput' \o Tool!Close(closeAfterStart')
      <4>1. given' = pendingInput' /\ pendingInput' \o <<>> = pendingInput'
        BY <2>2, <3>2, <3>5
      <4> QED
        BY <2>2, <3>1, <4>1 DEF Tool!Close
    <3>7. stdin' = <<>> /\ pendingInput' \in Seq(Nat) /\ process' = "starting"
      BY <1>1, <2>2, <2>5, <3>2, <3>3, <3>5 DEF InputKept
    <3>8. Tool!InputInOrder'
      BY <2>4, <3>3, <3>7 DEF Tool!InputInOrder
    <3> QED
      BY <1>1, <2>2, <3>6, <3>7, <3>8 DEF InputTypes, InputKept
  <2>6. CASE process # "starting"
    <3>1. pendingInput' = pendingInput
      BY <1>4, <2>6 DEF Tool!WriteInput
    <3>2. stdin' = stdin \/ (process = "running" /\ child = "alive" /\ stdin' = given')
      <4>1. SUFFICES ASSUME stdin' # stdin PROVE process = "running" /\ child = "alive" /\ stdin' = given'
        OBVIOUS
      <4>2. process = "running" /\ child = "alive" /\ stdin' = stdin \o <<piece>>
        BY <1>1, <1>4, <2>3, <2>6, <4>1 DEF Tool!WriteInput, Tool!Given
      <4>3. stdin = given
        BY <1>1, <4>2 DEF Tool!InputInOrder
      <4> QED
        BY <1>1, <2>1, <2>2, <4>2, <4>3 DEF InputTypes
    <3>3. process = "running" /\ child = "alive" => stdin' = given'
      <4>1. SUFFICES ASSUME process = "running", child = "alive" PROVE stdin' = given'
        OBVIOUS
      <4>2. flags.finished = FALSE
        BY <4>1 DEF ToolInv, EndTold, ToolFlags
      <4>3. stdin' = stdin \o <<piece>>
        BY <1>4, <2>3, <4>1, <4>2 DEF Tool!WriteInput, Tool!Given
      <4>4. stdin = given
        BY <1>1, <4>1 DEF Tool!InputInOrder
      <4> QED
        BY <1>1, <2>1, <2>2, <4>3, <4>4 DEF InputTypes
    <3>4. Tool!InputInOrder' /\ stdin' \in Seq(Nat)
      BY <1>1, <2>2, <2>4, <3>2, <3>3 DEF Tool!InputInOrder, InputTypes
    <3> QED
      BY <1>1, <2>2, <2>6, <3>1, <3>4 DEF InputTypes, InputKept
  <2> QED
    BY <2>5, <2>6
<1>5. CASE Tool!CloseInput
  <2>1. given' = Append(given, 0) /\ given' \in Seq(Nat) /\ UNCHANGED <<process, child, pendingInput>>
    BY <1>1, <1>5 DEF InputTypes, Tool!CloseInput, Tool!EndOfInput
  <2>2. Tool!IsPrefix(stdin, given') /\ Tool!IsPrefix(given', given')
    BY <1>1, <2>1, StillBegins DEF InputTypes, Tool!InputInOrder
  <2>3. process # "none" => flags.finished = FALSE
    BY DEF ToolInv, EndTold, ToolFlags
  <2>4. CASE process = "starting"
    <3>1. closeAfterStart = FALSE
      <4>1. Tool!EndOfInput \notin ToSet(pendingInput \o Tool!Close(closeAfterStart))
        BY <1>1, <1>5, <2>4 DEF Tool!CloseInput, InputKept, Tool!ToSet, ToSet
      <4> QED
        BY <1>1, <4>1, NotClosed DEF InputTypes
    <3>2. given = pendingInput
      <4>1. given = pendingInput \o <<>>
        BY <1>1, <2>4, <3>1 DEF InputKept, Tool!Close
      <4> QED
        BY <1>1, <4>1 DEF InputTypes
    <3>3. stdin' = stdin /\ closeAfterStart' = TRUE
      BY <1>5, <2>3, <2>4 DEF Tool!CloseInput
    <3>4. given' = pendingInput' \o Tool!Close(closeAfterStart')
      <4>1. given' = pendingInput \o <<0>>
        BY <1>1, <2>1, <3>2 DEF InputTypes
      <4> QED
        BY <2>1, <3>3, <4>1 DEF Tool!Close, Tool!EndOfInput
    <3>5. stdin' = <<>> /\ process' = "starting"
      BY <1>1, <2>1, <2>4, <3>3 DEF InputKept
    <3>6. Tool!InputInOrder'
      BY <2>2, <3>3, <3>5 DEF Tool!InputInOrder
    <3> QED
      BY <1>1, <2>1, <3>3, <3>4, <3>5, <3>6 DEF InputTypes, InputKept
  <2>5. CASE process # "starting"
    <3>1. closeAfterStart' = closeAfterStart
      BY <1>5, <2>5 DEF Tool!CloseInput
    <3>2. stdin' = stdin \/ stdin' = given'
      <4>1. SUFFICES ASSUME stdin' # stdin PROVE stdin' = given'
        OBVIOUS
      <4>2. process = "running" /\ child = "alive" /\ stdin' = stdin \o <<0>>
        BY <1>1, <1>5, <2>5, <4>1 DEF Tool!CloseInput, Tool!Given, Tool!EndOfInput
      <4>3. stdin = given
        BY <1>1, <4>2 DEF Tool!InputInOrder
      <4> QED
        BY <1>1, <2>1, <4>2, <4>3 DEF InputTypes
    <3>3. process = "running" /\ child = "alive" => stdin' = given'
      <4>1. SUFFICES ASSUME process = "running", child = "alive" PROVE stdin' = given'
        OBVIOUS
      <4>2. stdin' = stdin \o <<0>>
        BY <1>5, <2>3, <4>1 DEF Tool!CloseInput, Tool!Given, Tool!EndOfInput
      <4>3. stdin = given
        BY <1>1, <4>1 DEF Tool!InputInOrder
      <4> QED
        BY <1>1, <2>1, <4>2, <4>3 DEF InputTypes
    <3>4. Tool!InputInOrder' /\ stdin' \in Seq(Nat)
      BY <1>1, <2>1, <2>2, <3>2, <3>3 DEF Tool!InputInOrder, InputTypes
    <3> QED
      BY <1>1, <2>1, <2>5, <3>1, <3>4 DEF InputTypes, InputKept
  <2> QED
    BY <2>4, <2>5
<1>6. CASE Tool!Announce \/ Tool!FailedToStart \/ Tool!Failed \/ (\E s \in BOOLEAN : Tool!Detached(s))
  BY <1>2, <1>6 DEF Tool!Announce, Tool!FailedToStart, Tool!Failed, Tool!Detached, Tool!streams
<1>7. CASE Tool!Cancel \/ Tool!Grace \/ Tool!Timeout
  BY <1>2, <1>7 DEF Tool!Cancel, Tool!Grace, Tool!Timeout, Tool!streams
<1>8. CASE Tool!Prints \/ Tool!Ends \/ Tool!ReadyRead \/ Tool!ProcessFinished
  BY <1>2, <1>8 DEF Tool!Prints, Tool!Ends, Tool!ReadyRead, Tool!ProcessFinished, Tool!streams
<1> QED
  BY <1>3, <1>4, <1>5, <1>6, <1>7, <1>8 DEF Tool!ToolNext

TellTypes ==
    /\ process \in {"starting", "running", "none"} /\ child \in {"alive", "killed", "exited", "crashed"}
    /\ posted \subseteq {"announce", "failed", "detached"} /\ flags \in ToolFlags /\ result \in ToolResults
    /\ printed \in Nat /\ unread \in Nat /\ heard \in Seq(Signals)
Told == TellTypes /\ EndTold /\ Tool!ResultIsTrue

\* finish(): the end is told once, after what else there was to tell.
LEMMA EndIsTold ==
    ASSUME ToolInv, ~flags.finished,
           NEW list \in Seq(Signals), InOrder(list, FALSE),
           NEW r \in ToolResults, Tool!Finish(r, list),
           UNCHANGED <<printed, child>>, unread' \in Nat, process' = "none", posted' \subseteq posted,
           r.ok => ~flags.timedOut /\ child = "exited" /\ OutputTold(list),
           r.started => list # <<>> /\ list[1] = Tool!Signal("started", 0),
           ~(r.cancelled /\ r.timedOut)
    PROVE  Told'
<1> DEFINE last == Tool!Signal("finished", 0)
<1>1. /\ flags' = [flags EXCEPT !.finished = TRUE] /\ result' = r /\ heard' = Append(list, last)
  BY DEF Tool!Finish
<1>2. flags' \in ToolFlags /\ flags'.finished = TRUE /\ flags'.timedOut = flags.timedOut
  BY <1>1 DEF ToolInv, ToolFlags
<1>3. last \in Signals /\ last.signal = "finished"
  BY DEF Signals, Tool!Signal
<1> HIDE DEF last
<1>4. /\ heard' \in Seq(Signals) /\ InOrder(heard', TRUE) /\ ToSet(heard') = ToSet(list) \cup {last}
      /\ list # <<>> => heard'[1] = list[1]
  BY <1>1, <1>3, SignalAppended
<1>5. TellTypes'
  BY <1>1, <1>2, <1>4 DEF ToolInv, TellTypes
<1>6. "detached" \in posted' => child' = "exited" /\ printed' = 0 /\ ~flags'.timedOut
  BY <1>2 DEF ToolInv, EndTold
<1>7. EndTold'
  BY <1>2, <1>4, <1>6 DEF EndTold, InOrder
<1>8. Tool!ResultIsTrue'
  <2>1. r.ok => (printed' > 0 => Tool!Signal("output", printed') \in ToSet(heard'))
    BY <1>4 DEF OutputTold
  <2>2. r.ok => ~flags'.timedOut /\ process' = "none" /\ child' = "exited"
    BY <1>2
  <2>3. r.started => heard'[1] = Tool!Signal("started", 0)
    BY <1>4
  <2> QED
    BY <1>1, <2>1, <2>2, <2>3 DEF Tool!ResultIsTrue, Tool!ToSet, ToSet
<1> QED
  BY <1>5, <1>7, <1>8 DEF Told

\* Steps that tell nothing.
LEMMA NothingTold ==
    ASSUME ToolInv, UNCHANGED <<heard, result, printed, unread>>, TellTypes',
           flags'.finished = flags.finished,
           process = "none" => process' = "none" /\ child' = child /\ flags'.timedOut = flags.timedOut,
           "failed" \in posted' => process' = "none",
           "detached" \in posted' => "detached" \in posted
    PROVE  Told'
<1>1. EndTold'
  BY DEF ToolInv, EndTold, InOrder, OutputTold, Tool!Signal
<1>2. Tool!ResultIsTrue'
  BY DEF ToolInv, EndTold, Tool!ResultIsTrue, Tool!Signal, Tool!ToSet
<1> QED
  BY <1>1, <1>2 DEF Told

\* A step that tells more before the end, or none after it.
LEMMA MoreTold ==
    ASSUME ToolInv, ~flags.finished, UNCHANGED <<process, child, flags, result, printed>>, unread' \in Nat,
           posted' \subseteq posted, heard' \in Seq(Signals), InOrder(heard', FALSE),
           unread' = 0 => OutputTold(heard')
    PROVE  Told'
<1>1. flags'.finished = FALSE
  BY DEF ToolInv, ToolFlags
<1>2. EndTold'
  BY <1>1 DEF ToolInv, EndTold, OutputTold
<1>3. Tool!ResultIsTrue'
  BY <1>1 DEF Tool!ResultIsTrue
<1> QED
  BY <1>2, <1>3 DEF Told, TellTypes, ToolInv

\* What the process does, and what the owner and the timers ask of it.
LEMMA TellStays ==
    ASSUME ToolInv, Tool!ToolNext
    PROVE  Told'
<1>1. /\ TellTypes /\ EndTold /\ Tool!ResultIsTrue
  BY DEF ToolInv, TellTypes
<1>2. ~flags.finished => /\ InOrder(heard, FALSE) /\ heard \in Seq(Signals)
                         /\ unread = 0 => OutputTold(heard)
  BY <1>1 DEF EndTold, TellTypes, ToolFlags, InOrder
<1>3. CASE Tool!Announce
  <2>1. CASE flags.finished
    BY <1>1, <1>3, <2>1, NothingTold DEF Tool!Announce, Tool!streams, TellTypes, EndTold
  <2>2. CASE ~flags.finished
    <3>1. heard' = Tool!Announced(heard) /\ UNCHANGED <<process, child, flags, result, printed, unread>> /\ posted' \subseteq posted
      BY <1>3, <2>2 DEF Tool!Announce
    <3>2. heard' \in Seq(Signals) /\ InOrder(heard', FALSE) /\ ToSet(heard) \subseteq ToSet(heard')
      BY <1>2, <2>2, <3>1, AnnouncedFirst
    <3>3. unread' = 0 => OutputTold(heard')
      BY <1>2, <2>2, <3>1, <3>2 DEF OutputTold
    <3> QED
      BY <1>1, <2>2, <3>1, <3>2, <3>3, MoreTold DEF TellTypes
  <2> QED
    BY <2>1, <2>2
<1>4. CASE Tool!Started
  <2>1. TellTypes' /\ UNCHANGED <<heard, result, printed, unread, flags>> /\ process = "starting"
        /\ posted' = posted \cup {"announce"}
    BY <1>1, <1>4 DEF Tool!Started, TellTypes, Tool!told
  <2> QED
    BY <1>1, <2>1, NothingTold DEF EndTold
<1>5. CASE Tool!FailedToStart
  <2>1. TellTypes' /\ UNCHANGED <<heard, result, printed, unread, flags>> /\ process = "starting" /\ process' = "none"
        /\ posted' = posted \cup {"failed"}
    BY <1>1, <1>5 DEF Tool!FailedToStart, TellTypes, Tool!told
  <2> QED
    BY <1>1, <2>1, NothingTold DEF EndTold
<1>6. CASE Tool!Failed
  <2>1. /\ UNCHANGED <<process, child, printed, unread>> /\ process = "none" /\ posted' \subseteq posted
        /\ Tool!Finish([Tool!NoResult EXCEPT !.cancelled = flags.cancel], heard)
    BY <1>1, <1>6 DEF Tool!Failed, EndTold
  <2>2. CASE flags.finished
    <3>1. UNCHANGED <<flags, heard, result>>
      BY <2>1, <2>2 DEF Tool!Finish, Tool!told
    <3> QED
      BY <1>1, <2>1, <3>1, NothingTold DEF TellTypes, EndTold
  <2>3. CASE ~flags.finished
    <3> DEFINE r == [Tool!NoResult EXCEPT !.cancelled = flags.cancel]
    <3>1. r \in ToolResults /\ r.ok = FALSE /\ r.started = FALSE /\ r.timedOut = FALSE
      BY <1>1 DEF TellTypes, ToolFlags, ToolResults, Tool!NoResult
    <3> HIDE DEF r
    <3> QED
      BY <1>1, <1>2, <2>1, <2>3, <3>1, EndIsTold DEF TellTypes, r
  <2> QED
    BY <2>2, <2>3
<1>7. ASSUME NEW s \in BOOLEAN, Tool!Detached(s)
      PROVE  Told'
  <2> DEFINE r == [Tool!NoResult EXCEPT !.started = s, !.ok = s]
             list == IF s THEN Tool!Announced(heard) ELSE heard
  <2>1. /\ UNCHANGED <<process, child, printed, unread>> /\ process = "none" /\ posted' \subseteq posted
        /\ child = "exited" /\ printed = 0 /\ ~flags.timedOut
        /\ Tool!Finish(r, list)
    BY <1>1, <1>7 DEF Tool!Detached, EndTold
  <2>2. CASE flags.finished
    <3>1. UNCHANGED <<flags, heard, result>>
      BY <2>1, <2>2 DEF Tool!Finish, Tool!told
    <3> QED
      BY <1>1, <2>1, <3>1, NothingTold DEF TellTypes, EndTold
  <2>3. CASE ~flags.finished
    <3>1. r \in ToolResults /\ r.ok = s /\ r.started = s /\ r.timedOut = FALSE
      BY DEF ToolResults, Tool!NoResult
    <3>2. /\ list \in Seq(Signals) /\ InOrder(list, FALSE)
          /\ s => list # <<>> /\ list[1] = Tool!Signal("started", 0)
      BY <1>2, <2>3, AnnouncedFirst
    <3>3. OutputTold(list)
      BY <2>1 DEF OutputTold
    <3>4. unread' \in Nat
      BY <1>1, <2>1 DEF TellTypes
    <3> HIDE DEF r, list
    <3> QED
      BY <2>1, <2>3, <3>1, <3>2, <3>3, <3>4, EndIsTold
  <2> QED
    BY <2>2, <2>3
<1>8. CASE Tool!WriteInput \/ Tool!CloseInput
  <2>1. UNCHANGED <<process, child, posted, flags, printed, unread, heard, result>>
    BY <1>8 DEF Tool!WriteInput, Tool!CloseInput, Tool!told
  <2> QED
    BY <1>1, <2>1, NothingTold DEF TellTypes, EndTold
<1>9. CASE Tool!Cancel
  <2>1. PICK stubborn \in BOOLEAN :
          /\ flags' = [flags EXCEPT !.cancel = TRUE, !.grace = process = "running" /\ stubborn]
          /\ child' = IF process = "running" /\ child = "alive" /\ ~stubborn THEN "killed" ELSE child
    BY <1>9 DEF Tool!Cancel
  <2>2. UNCHANGED <<process, posted, printed, unread, heard, result>>
    BY <1>9 DEF Tool!Cancel, Tool!told
  <2> DEFINE waits == process = "running" /\ stubborn
  <2>3. waits \in BOOLEAN /\ flags' = [flags EXCEPT !.cancel = TRUE, !.grace = waits]
    BY <2>1
  <2> HIDE DEF waits
  <2>4. flags' \in ToolFlags /\ flags'.finished = flags.finished /\ flags'.timedOut = flags.timedOut
    BY <1>1, <2>3 DEF TellTypes, ToolFlags
  <2>5. child' \in {"alive", "killed", "exited", "crashed"} /\ (process = "none" => child' = child)
    BY <1>1, <2>1 DEF TellTypes
  <2> QED
    BY <1>1, <2>2, <2>4, <2>5, NothingTold DEF TellTypes, EndTold
<1>10. CASE Tool!Grace
  <2>1. UNCHANGED <<process, posted, printed, unread, heard, result>>
    BY <1>10 DEF Tool!Grace, Tool!told
  <2>2. flags' \in ToolFlags /\ flags'.finished = flags.finished /\ flags'.timedOut = flags.timedOut
    BY <1>1, <1>10 DEF TellTypes, ToolFlags, Tool!Grace
  <2>3. child' \in {"alive", "killed", "exited", "crashed"} /\ (process = "none" => child' = child)
    BY <1>1, <1>10 DEF TellTypes, Tool!Grace, Tool!Alive
  <2> QED
    BY <1>1, <2>1, <2>2, <2>3, NothingTold DEF TellTypes, EndTold
<1>11. CASE Tool!Timeout
  <2>1. UNCHANGED <<process, posted, printed, unread, heard, result>>
    BY <1>11 DEF Tool!Timeout, Tool!told
  <2>2. flags' \in ToolFlags /\ flags'.finished = flags.finished /\ (process = "none" => flags'.timedOut = flags.timedOut)
    BY <1>1, <1>11 DEF TellTypes, ToolFlags, Tool!Timeout
  <2>3. child' \in {"alive", "killed", "exited", "crashed"} /\ (process = "none" => child' = child)
    BY <1>1, <1>11 DEF TellTypes, Tool!Timeout
  <2> QED
    BY <1>1, <2>1, <2>2, <2>3, NothingTold DEF TellTypes, EndTold
<1>12. CASE Tool!Prints
  <2>1. /\ UNCHANGED <<process, child, posted, flags, heard, result>> /\ process = "running"
        /\ printed' = printed + 1 /\ unread' = unread + 1
    BY <1>12 DEF Tool!Prints, Tool!told
  <2>2. TellTypes' /\ unread' # 0
    BY <1>1, <2>1 DEF TellTypes
  <2>3. EndTold' /\ flags'.finished = FALSE
    BY <1>1, <2>1, <2>2 DEF EndTold, TellTypes, ToolFlags, InOrder
  <2> QED
    BY <2>2, <2>3 DEF Told, Tool!ResultIsTrue
<1>13. CASE Tool!Ends
  <2>1. /\ UNCHANGED <<process, posted, flags, printed, unread, heard, result>> /\ process = "running"
        /\ child' \in {"exited", "crashed"}
    BY <1>13 DEF Tool!Ends, Tool!told
  <2> QED
    BY <1>1, <2>1, NothingTold DEF TellTypes, EndTold
<1>14. CASE Tool!ReadyRead
  <2>1. /\ UNCHANGED <<process, child, posted, flags, result, printed>> /\ process = "running"
        /\ heard' = Tool!Drained(heard) /\ unread' = 0
    BY <1>14 DEF Tool!ReadyRead
  <2>2. ~flags.finished
    BY <1>1, <2>1 DEF EndTold
  <2> QED
    BY <2>1, <2>2, DrainedTells, MoreTold
<1>15. CASE Tool!ProcessFinished
  <2> DEFINE r == [started |-> TRUE, cancelled |-> flags.cancel, timedOut |-> flags.timedOut /\ ~flags.cancel,
                   ok |-> child = "exited" /\ ~flags.cancel /\ ~flags.timedOut]
             list == Tool!Announced(Tool!Drained(heard))
  <2>1. /\ UNCHANGED <<child, posted, printed>> /\ process = "running" /\ process' = "none" /\ unread' = 0
        /\ Tool!Finish(r, list)
    BY <1>15 DEF Tool!ProcessFinished
  <2>2. ~flags.finished
    BY <1>1, <2>1 DEF EndTold
  <2>3. /\ Tool!Drained(heard) \in Seq(Signals) /\ InOrder(Tool!Drained(heard), FALSE)
        /\ OutputTold(Tool!Drained(heard))
    BY <2>2, DrainedTells
  <2>4. /\ list \in Seq(Signals) /\ InOrder(list, FALSE)
        /\ list # <<>> /\ list[1] = Tool!Signal("started", 0)
        /\ ToSet(Tool!Drained(heard)) \subseteq ToSet(list)
    BY <2>3, AnnouncedFirst
  <2>5. OutputTold(list)
    BY <2>3, <2>4 DEF OutputTold
  <2>6. /\ r \in ToolResults /\ (r.ok => ~flags.timedOut /\ child = "exited") /\ ~(r.cancelled /\ r.timedOut)
    BY <1>1 DEF ToolResults, TellTypes, ToolFlags
  <2> HIDE DEF r, list
  <2> QED
    BY <2>1, <2>2, <2>4, <2>5, <2>6, EndIsTold
<1> QED
  BY <1>3, <1>4, <1>5, <1>6, <1>7, <1>8, <1>9, <1>10, <1>11, <1>12, <1>13, <1>14, <1>15 DEF Tool!ToolNext

\* A command that begins, and one that could not be started.
LEMMA ToolBegins ==
    ASSUME Tool!ToolInit \/ ToolRests
    PROVE  ToolInv
<1>1. /\ <<>> \in Seq(Nat) /\ <<>> \in Seq(Signals) /\ Len(<<>>) = 0 /\ <<>> \o <<>> = <<>>
      /\ Tool!IsPrefix(<<>>, <<>>)
  <2>1. <<>> \in Seq(Nat) /\ <<>> \in Seq(Signals) /\ Len(<<>>) = 0 /\ <<>> \o <<>> = <<>>
    OBVIOUS
  <2>2. 0 \in Nat
    OBVIOUS
  <2>3. Tool!IsPrefix(<<>>, <<>>)
    BY ONLY <2>1, <2>2, StillBegins
  <2> QED
    BY <2>1, <2>3
<1>2. given = <<>> /\ pendingInput = <<>> /\ closeAfterStart = FALSE /\ stdin = <<>> /\ printed = 0 /\ unread = 0
  BY DEF Tool!ToolInit, ToolRests
<1>3. InputKept
  BY <1>1, <1>2 DEF InputKept, Tool!InputInOrder, Tool!Close
<1>4. CASE Tool!ToolInit
  <2>1. /\ heard = <<>> /\ result = Tool!NoResult /\ flags \in ToolFlags /\ flags.finished = FALSE
        /\ flags.timedOut = FALSE
    BY <1>4 DEF Tool!ToolInit, ToolFlags
  <2>2. /\ process \in {"starting", "running", "none"} /\ child \in {"alive", "exited"}
        /\ posted \subseteq {"announce", "failed", "detached"}
        /\ "failed" \in posted \/ "detached" \in posted => process = "none" /\ child = "exited"
    BY <1>4 DEF Tool!ToolInit
  <2>3. EndTold
    BY <1>1, <1>2, <2>1, <2>2 DEF EndTold, InOrder, OutputTold
  <2> QED
    BY <1>1, <1>2, <1>3, <2>1, <2>2, <2>3 DEF ToolInv, Tool!ResultIsTrue, Tool!NoResult, ToolResults
<1>5. CASE ToolRests
  <2>1. /\ process = "none" /\ child = "exited" /\ posted = {} /\ flags \in ToolFlags /\ flags.finished = TRUE
        /\ heard = <<Tool!Signal("finished", 0)>> /\ result = Tool!NoResult
    BY <1>5 DEF ToolRests, ToolFlags
  <2>2. heard \in Seq(Signals) /\ Len(heard) = 1 /\ heard[1].signal = "finished"
    BY <2>1 DEF Signals, Tool!Signal
  <2>3. InOrder(heard, flags.finished)
    BY <2>1, <2>2 DEF InOrder
  <2> QED
    BY <1>1, <1>2, <1>3, <2>1, <2>2, <2>3 DEF ToolInv, EndTold, Tool!ResultIsTrue, Tool!NoResult, ToolResults
<1> QED
  BY <1>4, <1>5

\* The owner of a command hears its signals in their order, all that was printed before its end, and
\* an end that is true; its input arrives in order, wherever the start falls (ProcessInvocation).
THEOREM ProcessIsToldAlways == ToolsSpec => []ProcessIsTold
<1>1. ToolsInit => ToolInv
  BY ToolBegins DEF ToolsInit
<1>2. ToolInv /\ [ToolsNext]_<<which, vars, ofTool, ofBridge, ofCache, ofInventory, ofCli>> => ToolInv'
  <2> SUFFICES ASSUME ToolInv, [ToolsNext]_<<which, vars, ofTool, ofBridge, ofCache, ofInventory, ofCli>>
               PROVE  ToolInv'
    OBVIOUS
  <2>1. Tool!ToolNext \/ UNCHANGED ofTool
    BY DEF ToolsNext
  <2>2. CASE UNCHANGED ofTool
    <3>1. UNCHANGED <<process, child, posted, flags, given, pendingInput, closeAfterStart, stdin, printed, unread,
                      heard, result>>
      BY <2>2 DEF ofTool
    <3>2. EndTold' /\ Tool!ResultIsTrue' /\ InputKept'
      BY <3>1 DEF ToolInv, EndTold, InOrder, OutputTold, InputKept, Tool!ResultIsTrue, Tool!InputInOrder,
                  Tool!Close, Tool!Signal, Tool!ToSet, ToSet, Tool!IsPrefix
    <3> QED
      BY <3>1, <3>2 DEF ToolInv
  <2>3. CASE Tool!ToolNext
    BY <2>3, InputStays, TellStays DEF Told, TellTypes, InputTypes, ToolInv
  <2> QED
    BY <2>1, <2>2, <2>3
<1>3. ToolInv => ProcessIsTold
  BY DEF ProcessIsTold, ToolInv, EndTold, InOrder, InputKept, Tool!SignalsInOrder
<1> QED
  BY <1>1, <1>2, <1>3, PTL DEF ToolsSpec
===============================================================================
