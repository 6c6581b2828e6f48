--------------------------- MODULE FleetMappingProofs ---------------------------
(***************************************************************************)
(* What TLAPS proves about the mapping, for any number of boards and       *)
(* strangers, any late views and layouts: on a healthy bench every board   *)
(* is bound to what is its own, and wherever no device enters a download   *)
(* mode twice, what a board is addressed by was learned for it alone.      *)
(***************************************************************************)
EXTENDS FleetMapping, FiniteSetTheorems, WellFoundedInduction, TLAPS

-----------------------------------------------------------------------------
(* What compare() answers for any pictures: it is the table of the header,  *)
(* a Mapped verdict names one device, and the devices both pictures show    *)
(* never matter.                                                            *)

\* A set that is not empty and has no two elements has exactly one.
LEMMA OneElement ==
    ASSUME NEW S
    PROVE  One(S) <=> \E x : S = {x}
  BY DEF One, Several

\* compare() answers with one of its verdicts.
LEMMA CompareTyped ==
    ASSUME NEW b, NEW a
    PROVE  Compare(b, a) \in Verdicts
  BY DEF Compare, CompareLeft, CompareNobodyLeft, Verdicts, Pending, Stops

\* A row of the table holds exactly when compare() answers with its verdict:
\* the rows exclude one another and leave no pair of pictures out.
LEMMA RowIsVerdict ==
    ASSUME NEW b \in Snapshot, NEW a \in Snapshot, NEW v \in Verdicts
    PROVE  Row(v, b, a) <=> Compare(b, a) = v
<1> DEFINE V == Vanished(b, a)
           A == Appeared(b, a)
           N == NewIds(b, a)
<1>1. N \subseteq a.loader \cup a.maskrom /\ a.loader \cap a.maskrom = {}
  BY DEF NewIds, Ids, Snapshot
<1>2. CASE Nobody(V) /\ Nobody(A) /\ Nobody(N)
  BY <1>2 DEF Row, Compare, Verdicts, Pending, Stops, Nobody, One, Several
<1>3. CASE Several(V) \/ Several(A) \/ Several(N)
  BY <1>3 DEF Row, Compare, Verdicts, Pending, Stops, Nobody, One, Several
<1>4. CASE /\ Nobody(V) /\ ~(Nobody(A) /\ Nobody(N))
           /\ ~Several(V) /\ ~Several(A) /\ ~Several(N)
  BY <1>4 DEF Row, Compare, CompareNobodyLeft, Verdicts, Pending, Stops, Nobody, One
<1>5. CASE One(V) /\ ~Several(A) /\ ~Several(N)
  <2>1. Compare(b, a) = CompareLeft(b, a)
    BY <1>5 DEF Compare, One
  <2>2. CASE A = {}
    BY <2>1, <2>2, <1>5 DEF Row, CompareLeft, Verdicts, Pending, Stops, Nobody, One
  <2>3. CASE A # {} /\ A # V
    BY <2>1, <2>3, <1>5 DEF Row, CompareLeft, Verdicts, Pending, Stops, Nobody, One
  <2>4. CASE A = V /\ N = {}
    BY <2>1, <2>4, <1>5 DEF Row, CompareLeft, Verdicts, Pending, Stops, Nobody, One
  <2>5. CASE A = V /\ N # {}
    <3>1. PICK n : N = {n}
      BY <2>5, <1>5, OneElement DEF One
    <3>2. (n \in a.loader /\ n \notin a.maskrom) \/ (n \in a.maskrom /\ n \notin a.loader)
      BY <3>1, <1>1
    <3>3. One(N) /\ (N \subseteq a.maskrom <=> n \in a.maskrom) /\ (N \subseteq a.loader <=> n \in a.loader)
      BY <3>1, OneElement
    <3>4. A # {}
      BY <2>5, <1>5 DEF One
    <3>5. Compare(b, a) = IF n \in a.maskrom THEN "Maskrom" ELSE "Mapped"
      BY <2>1, <2>5, <3>3, <3>4 DEF CompareLeft
    <3>6. One(A) /\ ~Nobody(V) /\ ~Nobody(A) /\ ~Nobody(N)
      BY <2>5, <1>5 DEF One, Nobody
    <3>7. CASE n \in a.maskrom
      BY <2>5, <1>5, <3>2, <3>3, <3>5, <3>6, <3>7 DEF Row, Verdicts, Pending, Stops, One
    <3>8. CASE n \notin a.maskrom
      BY <2>5, <1>5, <3>2, <3>3, <3>5, <3>6, <3>8 DEF Row, Verdicts, Pending, Stops, One
    <3> QED BY <3>7, <3>8
  <2> QED BY <2>2, <2>3, <2>4, <2>5
<1> QED BY <1>2, <1>3, <1>4, <1>5 DEF Nobody, One

\* The early returns of compare() decide every pair of pictures exactly as the
\* table of FleetFlasher.h does.
THEOREM CompareIsTheTable ==
    ASSUME NEW b \in Snapshot, NEW a \in Snapshot
    PROVE  TableAgrees(b, a)
  BY RowIsVerdict, CompareTyped DEF TableAgrees

\* Mapped names one device: the one port an ADB gadget left is the one port a
\* download-mode device appeared on, and one LocationID is new, in Loader mode.
THEOREM MappedIsOneDevice ==
    ASSUME NEW b \in Snapshot, NEW a \in Snapshot, Compare(b, a) = "Mapped"
    PROVE  \E p, n \in Device :
              /\ Vanished(b, a) = {p} /\ Appeared(b, a) = {p}
              /\ NewIds(b, a) = {n} /\ n \in a.loader
<1>1. Row("Mapped", b, a)
  BY RowIsVerdict DEF Verdicts
<1>2. /\ One(Vanished(b, a)) /\ Appeared(b, a) = Vanished(b, a)
      /\ One(NewIds(b, a)) /\ NewIds(b, a) \subseteq a.loader
  BY <1>1 DEF Row
<1>3. PICK p : Vanished(b, a) = {p}
  BY <1>2, OneElement
<1>4. PICK n : NewIds(b, a) = {n}
  BY <1>2, OneElement
<1>5. p \in Device /\ n \in Device /\ n \in a.loader
  BY <1>2, <1>3, <1>4 DEF Vanished, Snapshot
<1> QED BY <1>2, <1>3, <1>4, <1>5

\* Devices in download mode that both pictures show - the foreign ones of the
\* baseline, the boards mapped before - change no verdict.
THEOREM BaselineIsExcluded ==
    ASSUME NEW b \in Snapshot, NEW a \in Snapshot
    PROVE  ForeignExcluded(b, a)
<1> SUFFICES ASSUME NEW P \in SUBSET (Device \ a.download), NEW I \in SUBSET (Device \ Ids(a))
             PROVE  Compare(Beside(b, P, I), Beside(a, P, I)) = Compare(b, a)
  BY DEF ForeignExcluded
<1> DEFINE b2 == Beside(b, P, I)
           a2 == Beside(a, P, I)
<1>1. /\ b2.adb = b.adb /\ a2.adb = a.adb
      /\ b2.download = b.download \cup P /\ a2.download = a.download \cup P
      /\ b2.loader = b.loader \cup I /\ a2.loader = a.loader \cup I
      /\ b2.maskrom = b.maskrom /\ a2.maskrom = a.maskrom
  BY DEF Beside, Snapshot
<1>2. Vanished(b2, a2) = Vanished(b, a)
  BY <1>1 DEF Vanished
<1>3. Appeared(b2, a2) = Appeared(b, a)
  BY <1>1 DEF Appeared
<1>4. NewIds(b2, a2) = NewIds(b, a)
  BY <1>1 DEF NewIds, Ids
<1>5. CompareNobodyLeft(b2, a2) = CompareNobodyLeft(b, a)
  BY <1>1, <1>3 DEF CompareNobodyLeft
<1>6. CompareLeft(b2, a2) = CompareLeft(b, a)
  BY <1>1, <1>2, <1>3, <1>4 DEF CompareLeft
<1>7. Compare(b2, a2) = Compare(b, a)
  BY <1>2, <1>3, <1>4, <1>5, <1>6 DEF Compare
<1> QED BY <1>7

-----------------------------------------------------------------------------
(* Types.                                                                  *)

\* Of some boards, one is the first.
LEMMA FirstBoard ==
    ASSUME NEW T \in SUBSET (1..NBoards), T # {}
    PROVE  \E x \in T : \A y \in T : x <= y
<1> DEFINE F == {1..t : t \in T}
           R == StrictSubsetOrdering(1..NBoards)
<1>1. NBoards \in Nat /\ IsFiniteSet(1..NBoards)
  BY MappingAssumption, FS_Interval
<1>2. IsWellFoundedOn(R, SUBSET (1..NBoards))
  BY <1>1, FS_StrictSubsetOrderingWellFounded, FS_FiniteSubsetsOfFinite
<1>3. F \subseteq SUBSET (1..NBoards) /\ F # {}
  <2>1. \A t \in T : 1..t \subseteq 1..NBoards
    BY <1>1
  <2>2. PICK t \in T : TRUE
    OBVIOUS
  <2>3. 1..t \in F
    BY <2>2
  <2> QED
    BY <2>1, <2>3
<1> HIDE DEF F, R
<1>4. PICK X \in F : \A Y \in F : ~ (<<Y, X>> \in R)
  BY <1>2, <1>3, WFMin
<1>5. PICK x \in T : X = 1..x
  BY DEF F
<1>6. ASSUME NEW y \in T, y < x
      PROVE  FALSE
  <2>1. 1..y \in F /\ 1..y \subseteq 1..x /\ x \in 1..x /\ x \notin 1..y
    <3>1. x \in Nat \ {0} /\ y \in Nat \ {0}
      BY <1>1
    <3>2. 1..y \in F
      BY DEF F
    <3>3. 1..y \subseteq 1..x /\ x \in 1..x /\ x \notin 1..y
      BY <3>1, <1>6
    <3> QED
      BY <3>2, <3>3
  <2>2. <<1..y, 1..x>> \in R
    BY <2>1, <1>3, <1>5 DEF R, StrictSubsetOrdering
  <2> QED
    BY <2>1, <2>2, <1>4, <1>5
<1> QED
  BY <1>1, <1>6

BenchMove == \E d \in Device : BenchStep(d) \/ StrangerTold(d) \/ BrownOut(d)

LEMMA Numbers ==
    /\ NBoards \in Nat \ {0} /\ NStrangers \in Nat /\ MaxFaults \in Nat
    /\ Board \subseteq Device /\ Nothing \notin Device /\ Nothing \notin Board
    /\ Board \subseteq Nat /\ Device \subseteq Nat
  BY MappingAssumption DEF Board, Device, Nothing

\* TypeOK, one variable at a time.
Typed ==
    /\ at \in [Device -> {"adb", "away", "booting", "loader", "maskrom"}]
    /\ shown \in [Device -> SUBSET {"adb", "dl", "ld"}]
    /\ told \in [Device -> BOOLEAN]
    /\ faults \in 0..MaxFaults
    /\ step \in Steps
    /\ cur \in Board \cup {Nothing}
    /\ listed \in BOOLEAN /\ listing \subseteq Device
    /\ before \in Snapshot /\ baseline \in Snapshot
    /\ found \in [port : Device \cup {Nothing}, id : Device \cup {Nothing}]
    /\ waitOver \in BOOLEAN /\ draining \in BOOLEAN /\ stopped \in BOOLEAN /\ dry \in BOOLEAN
    /\ stage \in [Board -> Stages]
    /\ result \in [Board -> Results]
    /\ layout \in [Board -> Layouts \cup {"unread"}]
    /\ port \in [Board -> Device \cup {Nothing}]
    /\ locationId \in [Board -> Device \cup {Nothing}]
    /\ candidate \subseteq Board /\ rebooted \subseteq Board /\ maskrom \subseteq Board
    /\ resetOnly \subseteq Board /\ resetOk \subseteq Board /\ leftInLoader \subseteq Board
    /\ unattributed \subseteq Device

LEMMA Flat == (TypeOK <=> Typed) /\ (TypeOK' <=> Typed')
  BY DEF TypeOK, Typed

LEMMA InitTypeOK == Init => TypeOK
<1> SUFFICES ASSUME Init PROVE TypeOK
  OBVIOUS
<1>1. at \in [Device -> {"adb", "away", "booting", "loader", "maskrom"}]
  BY DEF Init
<1>2. shown \in [Device -> SUBSET {"adb", "dl", "ld"}]
  BY DEF Init, Truth
<1>3. told \in [Device -> BOOLEAN] /\ faults \in 0..MaxFaults
  BY Numbers DEF Init
<1>4. NoPicture \in Snapshot
  BY DEF NoPicture, Snapshot
<1>5. step \in Steps /\ dry \in BOOLEAN
  BY MappingAssumption DEF Init, Steps, Commands
<1> QED
  BY <1>1, <1>2, <1>3, <1>4, <1>5 DEF Init, TypeOK, Stages, Results

\* What the bench does concerns nothing the run holds.
LEMMA BenchFrame ==
    ASSUME BenchMove
    PROVE  Idle /\ UNCHANGED RestOfRun
  BY DEF BenchMove, BenchStep, LeavesAdb, EntersDownload, Boots, CatchesUp, StrangerTold, BrownOut

LEMMA BenchTyped ==
    ASSUME TypeOK, BenchMove
    PROVE  TypeOK'
<1>1. UNCHANGED RestOfRun
  BY BenchFrame
<1>2. /\ at' \in [Device -> {"adb", "away", "booting", "loader", "maskrom"}]
      /\ shown' \in [Device -> SUBSET {"adb", "dl", "ld"}]
      /\ told' \in [Device -> BOOLEAN]
      /\ faults' \in 0..MaxFaults
  <2>1. PICK d \in Device : BenchStep(d) \/ StrangerTold(d) \/ BrownOut(d)
    BY DEF BenchMove
  <2>2. ASSUME NEW where \in {"adb", "away", "booting", "loader", "maskrom"}, Moves(d, where)
        PROVE  /\ at' \in [Device -> {"adb", "away", "booting", "loader", "maskrom"}]
               /\ shown' \in [Device -> SUBSET {"adb", "dl", "ld"}]
    <3>1. PICK late \in SUBSET Lag : shown' = [shown EXCEPT ![d] = (Truth(where) \ late) \cup (@ \cap late)]
      BY <2>2 DEF Moves
    <3>2. Truth(where) \subseteq {"adb", "dl", "ld"}
      BY DEF Truth
    <3> QED
      BY <2>2, <3>1, <3>2 DEF Moves, TypeOK
  <2>3. CASE LeavesAdb(d)
    BY <2>2, <2>3 DEF LeavesAdb, TypeOK
  <2>4. CASE EntersDownload(d)
    BY <2>2, <2>4, MappingAssumption DEF EntersDownload, TypeOK
  <2>5. CASE Boots(d)
    BY <2>2, <2>5 DEF Boots, TypeOK
  <2>6. CASE CatchesUp(d)
    BY <2>6 DEF CatchesUp, TypeOK
  <2>7. CASE StrangerTold(d)
    BY <2>7, Numbers DEF StrangerTold, TypeOK, Fault
  <2>8. CASE BrownOut(d)
    BY <2>2, <2>8, Numbers DEF BrownOut, TypeOK, Fault
  <2> QED
    BY <2>1, <2>3, <2>4, <2>5, <2>6, <2>7, <2>8 DEF BenchStep
<1> QED
  BY <1>1, <1>2 DEF TypeOK, RestOfRun, pictures, endings, selection, identity, resets

LEMMA OneIsSome ==
    ASSUME NEW S, Cardinality(S) = 1
    PROVE  S # {}
<1>1. ASSUME S = {}
      PROVE  FALSE
  <2>1. Cardinality({}) = 1
    BY <1>1, Zenon
  <2>2. Cardinality({}) = 0
    BY FS_EmptySet
  <2> QED
    BY <2>1, <2>2, SMT
<1> QED
  BY <1>1

LEMMA NextBoard ==
    ASSUME candidate \subseteq Board, Later # {}
    PROVE  /\ (CHOOSE b \in Later : \A x \in Later : b <= x) \in Later
           /\ \A x \in Later : (CHOOSE b \in Later : \A y \in Later : b <= y) <= x
<1>1. Later \in SUBSET (1..NBoards)
  BY DEF Later, Board
<1> QED
  BY <1>1, FirstBoard

LEMMA PictureTyped ==
    ASSUME TypeOK
    PROVE  Picture \in Snapshot /\ Ids(Picture) = listing
<1>1. listing \subseteq Device
  BY DEF TypeOK
<1>2. [adb |-> {d \in Device : "adb" \in shown[d]},
       download |-> {d \in Device : "dl" \in shown[d]},
       loader |-> {d \in listing : at[d] # "maskrom"},
       maskrom |-> {d \in listing : at[d] = "maskrom"}]
         \in [adb : SUBSET Device, download : SUBSET Device, loader : SUBSET Device, maskrom : SUBSET Device]
  BY <1>1
<1> QED
  BY <1>2 DEF Picture, Snapshot, Ids

\* How the boards and the run may end.
LEMMA EndsTyped ==
    ASSUME TypeOK
    PROVE  /\ \A b \in Board \cup {Nothing}, res \in Results : EndBoard(b, res) =>
                stage' \in [Board -> Stages] /\ result' \in [Board -> Results]
           /\ Refuse => stage' \in [Board -> Stages] /\ result' \in [Board -> Results] /\ step' \in Steps
           /\ \A M \in SUBSET Board, b \in Board \cup {Nothing} : ResetMapped(M, b) =>
                stage' \in [Board -> Stages] /\ result' \in [Board -> Results] /\ step' \in Steps
           /\ \A loose \in SUBSET Device, b \in Board \cup {Nothing} : StopMapping(b, loose) =>
                /\ stage' \in [Board -> Stages] /\ result' \in [Board -> Results] /\ step' \in Steps
                /\ stopped' \in BOOLEAN /\ unattributed' \subseteq Device
           /\ SkipCur =>
                /\ stage' \in [Board -> Stages] /\ result' \in [Board -> Results] /\ step' \in Steps
                /\ UNCHANGED <<stopped, unattributed>>
           /\ EndMappingByCancel =>
                /\ stage' \in [Board -> Stages] /\ result' \in [Board -> Results] /\ step' \in Steps
                /\ UNCHANGED <<stopped, unattributed>>
<1>1. ASSUME NEW b \in Board \cup {Nothing}, NEW res \in Results, EndBoard(b, res)
      PROVE  stage' \in [Board -> Stages] /\ result' \in [Board -> Results]
  BY <1>1 DEF EndBoard, TypeOK, Stages
<1>2. ASSUME Refuse
      PROVE  stage' \in [Board -> Stages] /\ result' \in [Board -> Results] /\ step' \in Steps
  BY <1>2 DEF Refuse, EndAll, TypeOK, Stages, Results, Steps
<1>3. ASSUME NEW M \in SUBSET Board, NEW b \in Board \cup {Nothing}, ResetMapped(M, b)
      PROVE  stage' \in [Board -> Stages] /\ result' \in [Board -> Results] /\ step' \in Steps
  BY <1>3 DEF ResetMapped, TypeOK, Stages, Results, Steps, Snapshots, Commands, Closing
<1>4. InLoader \in SUBSET Board /\ cur \in Board \cup {Nothing} /\ "Skipped" \in Results /\ "mapNext" \in Steps
  BY DEF InLoader, TypeOK, Results, Steps
<1> QED
  BY <1>1, <1>2, <1>3, <1>4 DEF StopMapping, SkipCur, EndMappingByCancel, TypeOK

LEMMA RunTyped ==
    ASSUME TypeOK, step \in {"before", "poll", "confirm"} => cur \in Board,
           step = "confirm" => found \in [port : Device, id : Device],
           RunStep \/ WaitElapses \/ Cancel
    PROVE  TypeOK'
<1> SUFFICES Typed'
  BY Flat
<1>0. Typed
  BY Flat
<1> USE <1>0 DEF Typed
<1>1. /\ {"mapNext", "writing", "done", "devices", "baseline", "before", "poll", "reconcile", "closing",
           "kernel", "layout", "reboot", "pollWait", "confirm", "resets"} \subseteq Steps
      /\ {"Selected", "Mapping", "Loader", "Resetting", "Finished"} \subseteq Stages
      /\ {"Pending", "Ready", "Failed", "Skipped"} \subseteq Results
  BY DEF Steps, Snapshots, Commands, Stages, Results
<1>2. faults' \in 0..MaxFaults \/ ~(Fault \/ UNCHANGED faults)
  BY Numbers DEF Fault
<1>3. CASE DevicesEnds
  BY <1>1, <1>2, <1>3, EndsTyped DEF DevicesEnds, bench, pictures, endings, identity, resets
<1>4. CASE BaselineEnds
  <2>1. stage' \in [Board -> Stages] /\ result' \in [Board -> Results] /\ step' \in Steps
    BY <1>1, <1>4, EndsTyped DEF BaselineEnds
  <2>2. faults' \in 0..MaxFaults /\ baseline' \in Snapshot /\ listed' \in BOOLEAN /\ listing' \subseteq Device
    BY <1>2, <1>4, PictureTyped DEF BaselineEnds, Pictured
  <2> QED
    BY <1>4, <2>1, <2>2 DEF BaselineEnds, selection, identity, resets
<1>5. CASE MapNext
  <2>1. CASE draining
    BY <1>5, <2>1, EndsTyped DEF MapNext, bench, pictures, selection, identity, resets
  <2>2. CASE ~draining
    <3>1. cur' \in Board \cup {Nothing} /\ step' \in Steps
      BY <1>1, <1>5, <2>2, NextBoard DEF MapNext, Later
    <3> QED
      BY <1>5, <2>2, <3>1 DEF MapNext, bench, pictures, endings, selection, identity, resets
  <2> QED
    BY <2>1, <2>2
<1>6. CASE KernelEnds
  BY <1>1, <1>6, EndsTyped DEF KernelEnds, bench, pictures, endings, selection, identity, resets
<1>7. CASE LayoutEnds
  <2>1. layout' \in [Board -> Layouts \cup {"unread"}]
    BY <1>7 DEF LayoutEnds
  <2>2. stage' \in [Board -> Stages] /\ result' \in [Board -> Results] /\ step' \in Steps
        /\ stopped' \in BOOLEAN /\ unattributed' \subseteq Device
    BY <1>1, <1>7, EndsTyped DEF LayoutEnds, endings
  <2> QED
    BY <1>7, <2>1, <2>2 DEF LayoutEnds, bench, pictures, selection, identity, resets
<1>8. CASE BeforeEnds
  <2>1. cur \in Board /\ InLoader \in SUBSET Board /\ Nothing \in Board \cup {Nothing}
    BY <1>8 DEF BeforeEnds, Pictured, InLoader
  <2>2. /\ stage' \in [Board -> Stages] /\ result' \in [Board -> Results] /\ step' \in Steps
        /\ stopped' \in BOOLEAN /\ unattributed' \subseteq Device
    <3>1. CASE ResetMapped(InLoader, Nothing) /\ stopped' = TRUE /\ UNCHANGED unattributed
      BY <2>1, <3>1, EndsTyped
    <3>2. CASE SkipCur
      BY <3>2, EndsTyped
    <3>3. CASE stage' = [stage EXCEPT ![cur] = "Mapping"] /\ step' = "reboot" /\ UNCHANGED <<result, stopped, unattributed>>
      BY <1>1, <3>3
    <3> QED
      BY <1>8, <3>1, <3>2, <3>3 DEF BeforeEnds
  <2>3. /\ told' \in [Device -> BOOLEAN] /\ rebooted' \subseteq Board /\ waitOver' \in BOOLEAN
        /\ before' \in Snapshot /\ faults' \in 0..MaxFaults
    BY <1>2, <1>8, <2>1, PictureTyped DEF BeforeEnds
  <2> QED
    BY <1>8, <2>2, <2>3 DEF BeforeEnds, Pictured, selection, identity, resets
<1>9. CASE RebootEnds \/ PollTimer
  BY <1>1, <1>9 DEF RebootEnds, PollTimer, bench, pictures, endings, selection, identity, resets
<1>10. CASE LdReads
  BY <1>10 DEF LdReads, bench, endings, selection, identity, resets
<1>11. CASE PollEnds
  <2>1. /\ Picture \in Snapshot /\ before \in Snapshot /\ NewIds(before, Picture) \in SUBSET Device
        /\ Appeared(before, Picture) \in SUBSET Device /\ cur \in Board \cup {Nothing}
    BY PictureTyped DEF NewIds, Appeared, Snapshot
  <2>2. ASSUME Compare(before, Picture) \in {"Mapped", "Maskrom"}
        PROVE  Recognised(Picture) \in [port : Device \cup {Nothing}, id : Device \cup {Nothing}]
    <3>1. NewIds(before, Picture) # {} /\ Appeared(before, Picture) # {}
      BY <2>2 DEF Compare, CompareNobodyLeft, CompareLeft
    <3> QED
      BY <2>1, <3>1 DEF Recognised, Only
  <2>3. /\ stage' \in [Board -> Stages] /\ result' \in [Board -> Results] /\ step' \in Steps
        /\ stopped' \in BOOLEAN /\ unattributed' \subseteq Device
    <3>1. CASE step' \in {"confirm", "pollWait"} /\ UNCHANGED <<endings, stopped, unattributed>>
      BY <1>1, <3>1 DEF endings
    <3>2. CASE /\ EndBoard(cur, "Failed") \/ EndBoard(cur, "Skipped")
               /\ step' = "mapNext" /\ UNCHANGED <<stopped, unattributed>>
      BY <1>1, <2>1, <3>2, EndsTyped
    <3>3. CASE \E loose \in SUBSET Device : StopMapping(cur, loose)
      BY <2>1, <3>3, EndsTyped
    <3> QED
      BY <1>11, <2>1, <3>1, <3>2, <3>3 DEF PollEnds
  <2>4. /\ found' \in [port : Device \cup {Nothing}, id : Device \cup {Nothing}]
        /\ port' \in [Board -> Device \cup {Nothing}] /\ locationId' \in [Board -> Device \cup {Nothing}]
        /\ maskrom' \subseteq Board
    <3>1. CASE Compare(before, Picture) \in {"Mapped", "Maskrom"}
      BY <1>11, <2>2, <3>1 DEF PollEnds, Pictured, identity
    <3>2. CASE UNCHANGED <<identity, found>>
      BY <3>2 DEF identity
    <3> QED
      BY <1>11, <3>1, <3>2 DEF PollEnds
  <2> QED
    BY <1>11, <2>3, <2>4 DEF PollEnds, Pictured, bench, selection, resets
<1>12. CASE PollFails
  BY <1>2, <1>12, EndsTyped DEF PollFails, Pictured, selection, identity, resets
<1>13. CASE ConfirmEnds
  <2>1. port' \in [Board -> Device \cup {Nothing}] /\ locationId' \in [Board -> Device \cup {Nothing}]
    BY <1>13 DEF ConfirmEnds
  <2>2. /\ stage' \in [Board -> Stages] /\ result' \in [Board -> Results] /\ step' \in Steps
        /\ stopped' \in BOOLEAN /\ unattributed' \subseteq Device
        /\ resetOnly' \subseteq Board /\ faults' \in 0..MaxFaults
    <3>1. CASE /\ IF at[cur] = "adb" THEN UNCHANGED faults ELSE Fault
               /\ StopMapping(cur, {found.id}) /\ UNCHANGED resetOnly
      <4>1. {found.id} \in SUBSET Device
        BY <1>13 DEF ConfirmEnds
      <4> QED
        BY <1>2, <1>13, <3>1, <4>1, EndsTyped DEF ConfirmEnds
    <3>2. CASE /\ ResetMapped(InLoader \cup {cur}, Nothing) /\ stopped' = TRUE
               /\ resetOnly' = resetOnly \cup {cur} /\ UNCHANGED <<faults, unattributed>>
      <4>1. InLoader \cup {cur} \in SUBSET Board
        BY <1>13 DEF ConfirmEnds, InLoader
      <4> QED
        BY <1>2, <1>13, <3>2, <4>1, EndsTyped DEF ConfirmEnds
    <3>3. CASE /\ stage' = [stage EXCEPT ![cur] = "Loader"] /\ step' = "mapNext"
               /\ UNCHANGED <<result, stopped, resetOnly, unattributed, faults>>
      BY <1>1, <3>3
    <3> QED
      BY <1>2, <1>13, <3>1, <3>2, <3>3 DEF ConfirmEnds
  <2> QED
    BY <1>13, <2>1, <2>2 DEF ConfirmEnds, pictures, selection
<1>14. CASE ReconcileEnds
  <2>1. LateIds \in SUBSET Device /\ {} \in SUBSET Device /\ Nothing \in Board \cup {Nothing}
    BY PictureTyped DEF LateIds
  <2> QED
    BY <1>1, <1>2, <1>14, <2>1, EndsTyped DEF ReconcileEnds, Pictured, selection, identity, resets, endings
<1>15. CASE \E b \in Board : RdEnds(b)
  <2>1. PICK b \in Board : RdEnds(b)
    BY <1>15
  <2>2. /\ stage' \in [Board -> Stages] /\ result' \in [Board -> Results] /\ step' \in Steps
        /\ faults' \in 0..MaxFaults /\ resetOk' \subseteq Board /\ leftInLoader' \subseteq Board
    BY <1>1, <1>2, <2>1, EndsTyped DEF RdEnds
  <2>3. /\ at' \in [Device -> {"adb", "away", "booting", "loader", "maskrom"}]
        /\ shown' \in [Device -> SUBSET {"adb", "dl", "ld"}]
    <3>1. CASE UNCHANGED <<at, shown>>
      BY <3>1
    <3>2. CASE Moves(locationId[b], "booting")
      <4>1. PICK late \in SUBSET Lag :
               shown' = [shown EXCEPT ![locationId[b]] = (Truth("booting") \ late) \cup (@ \cap late)]
        BY <3>2 DEF Moves
      <4> QED
        BY <3>2, <4>1 DEF Moves, Truth
    <3> QED
      BY <2>1, <3>1, <3>2 DEF RdEnds
  <2> QED
    BY <2>1, <2>2, <2>3 DEF RdEnds, pictures, selection, identity
<1>16. CASE ClosingEnds
  <2>1. StrayIds \in SUBSET Device
    BY PictureTyped DEF StrayIds
  <2>2. \A b \in Board : NewId(b) \in Device \cup {Nothing}
    <3> TAKE b \in Board
    <3>1. CASE Paired /\ b \in Renumbered \ maskrom
      <4>1. StrayIds # {}
        BY <3>1, OneIsSome DEF Paired
      <4> QED
        BY <2>1, <3>1, <4>1 DEF NewId, Only
    <3>2. CASE ~(Paired /\ b \in Renumbered \ maskrom)
      BY <3>2 DEF NewId
    <3> QED
      BY <3>1, <3>2
  <2>3. /\ locationId' \in [Board -> Device \cup {Nothing}] /\ unattributed' \subseteq Device
        /\ resetOk' \subseteq Board /\ leftInLoader' \subseteq Board
    BY <1>16, <2>1, <2>2 DEF ClosingEnds
  <2> QED
    BY <1>1, <1>2, <1>16, <2>3 DEF ClosingEnds, Pictured, endings, selection
<1>17. CASE WaitElapses
  BY <1>2, <1>17 DEF WaitElapses, pictures, endings, selection, identity, resets
<1>18. CASE Cancel
  BY <1>18 DEF Cancel, bench, pictures, endings, selection, identity, resets
<1> QED
  BY <1>3, <1>4, <1>5, <1>6, <1>7, <1>8, <1>9, <1>10, <1>11, <1>12, <1>13, <1>14, <1>15, <1>16, <1>17,
     <1>18 DEF RunStep

-----------------------------------------------------------------------------
(* Where the run stands.                                                   *)

StartSteps == {"devices", "baseline"}
OwnSteps == {"kernel", "layout", "before"}
RebootSteps == {"reboot", "poll", "pollWait", "confirm"}
MapSteps == OwnSteps \cup RebootSteps \cup {"mapNext", "reconcile", "writing"}
EndSteps == {"resets", "closing", "done"}

\* The boards are rebooted in selection order, each once, on a clean bench; a
\* board has an identity once it was rebooted, and nobody's ids are only noted
\* when the mapping is over.
ControlInv ==
    /\ step \in StartSteps =>
          /\ rebooted = {} /\ cur = Nothing /\ unattributed = {}
          /\ \A b \in Board : stage[b] = "Selected"
    /\ step \in MapSteps \/ rebooted # {} => ~dry /\ baseline.download = {} /\ Ids(baseline) = {}
    /\ \A b \in rebooted : b <= cur
    /\ step \in OwnSteps => cur \in Board \ rebooted
    /\ step \in RebootSteps => cur \in rebooted /\ stage[cur] = "Mapping" /\ locationId[cur] = Nothing
    /\ step = "confirm" => found \in [port : Device, id : Device]
    /\ step \in MapSteps => unattributed = {}
    /\ step # "resets" => \A b \in Board : stage[b] # "Resetting"
    /\ \A b \in Board : stage[b] \in {"Loader", "Resetting"} => b \in Bound
    /\ \A b \in Bound : b \in rebooted /\ port[b] # Nothing

LEMMA InitControl == Init => ControlInv
  BY Numbers DEF Init, ControlInv, StartSteps, MapSteps, OwnSteps, RebootSteps, Bound

\* The mapping is over: what is reset has an identity.
LEMMA ControlReset ==
    ASSUME TypeOK, ControlInv, step \in MapSteps,
           NEW M \in SUBSET Board, NEW x \in Board \cup {Nothing}, ResetMapped(M, x),
           UNCHANGED <<rebooted, dry, baseline, cur>>,
           \A b \in Board : locationId'[b] # Nothing => b \in rebooted /\ port'[b] # Nothing,
           \A b \in M : locationId'[b] # Nothing
    PROVE  ControlInv' /\ step' \in EndSteps
<1>1. step' = IF M = {} THEN Closing ELSE "resets"
  BY DEF ResetMapped
<1>2. step' \in EndSteps /\ (M # {} => step' = "resets")
  BY <1>1 DEF Closing, EndSteps
<1>3. \A b \in Board : stage'[b] = IF b \in M THEN "Resetting" ELSE "Finished"
  BY DEF ResetMapped
<1>4. step' # "resets" => M = {}
  BY <1>1, <1>2
<1>5. UNCHANGED <<Ids(baseline)>>
  BY DEF Ids
<1> QED
  BY <1>2, <1>3, <1>4, <1>5
     DEF ControlInv, StartSteps, MapSteps, OwnSteps, RebootSteps, EndSteps, Bound

\* The board being mapped ends, and the next one is looked for.
LEMMA ControlSkip ==
    ASSUME TypeOK, ControlInv, step \in OwnSteps \cup RebootSteps,
           NEW res, EndBoard(cur, res), step' = "mapNext",
           UNCHANGED <<rebooted, dry, baseline, cur, unattributed>>,
           \A b \in Board : locationId'[b] # Nothing => b \in rebooted /\ port'[b] # Nothing,
           \A b \in Board \ {cur} : locationId'[b] = locationId[b]
    PROVE  ControlInv'
<1> USE DEF StartSteps, OwnSteps, RebootSteps, MapSteps
<1>1. cur \in Board /\ stage'[cur] = "Finished" /\ \A b \in Board \ {cur} : stage'[b] = stage[b]
  BY Flat DEF ControlInv, EndBoard, Typed
<1>2. \A b \in Board : stage'[b] # "Resetting"
  <2>1. step \in MapSteps /\ step # "resets"
    OBVIOUS
  <2>2. \A b \in Board \ {cur} : stage[b] # "Resetting"
    BY <2>1 DEF ControlInv
  <2> QED
    BY <1>1, <2>2
<1> QED
  BY <1>1, <1>2 DEF ControlInv, Bound, Ids

LEMMA BenchControl ==
    ASSUME ControlInv, BenchMove
    PROVE  ControlInv'
<1>1. UNCHANGED RestOfRun
  BY BenchFrame
<1>2. UNCHANGED <<step, cur, rebooted, unattributed, stage, dry, baseline, locationId, port, found>>
  BY <1>1 DEF RestOfRun, pictures, endings, selection, identity
<1> QED
  BY <1>2 DEF ControlInv, Bound, Ids

LEMMA RunControl ==
    ASSUME TypeOK, ControlInv, RunStep \/ WaitElapses \/ Cancel
    PROVE  ControlInv'
<1> USE DEF StartSteps, OwnSteps, RebootSteps, MapSteps
<1>0. Typed
  BY Flat
<1>2. InLoader \in SUBSET Board /\ \A b \in InLoader : b \in Bound
  BY DEF InLoader, ControlInv
<1>3. CASE DevicesEnds
  <2>1. /\ UNCHANGED <<rebooted, cur, unattributed, dry, baseline, locationId, port, found>>
        /\ \/ Refuse
           \/ step' = "baseline" /\ UNCHANGED stage
    BY <1>3 DEF DevicesEnds, pictures, identity, endings
  <2> QED
    BY <1>3, <2>1 DEF DevicesEnds, Refuse, EndAll, ControlInv, Bound, Ids
<1>4. CASE BaselineEnds
  <2>1. step = "baseline" /\ UNCHANGED <<rebooted, cur, unattributed, dry, locationId, port, found>>
    BY <1>4 DEF BaselineEnds, Pictured, selection, identity
  <2>2. CASE Refuse
    BY <2>1, <2>2 DEF Refuse, EndAll, ControlInv, Bound, Ids
  <2>3. CASE ~RefusesBench /\ dry
    BY <1>4, <2>1, <2>2, <2>3 DEF BaselineEnds, ControlInv, Bound, Ids
  <2>4. CASE /\ ~RefusesBench /\ ~dry /\ step' = "mapNext" /\ baseline' = Picture
             /\ stage' = [b \in Board |-> IF dry \/ b \notin candidate THEN "Finished" ELSE stage[b]]
    <3>1. Ids(Picture) = {} /\ Cardinality(Picture.download) = 0
      BY <2>4, FS_EmptySet DEF RefusesBench
    <3>2. Picture.download = {}
      <4>1. IsFiniteSet(Device)
        BY MappingAssumption, FS_Interval DEF Device
      <4>2. IsFiniteSet(Picture.download)
        BY <4>1, FS_Subset, PictureTyped DEF Snapshot
      <4> QED
        BY <3>1, <4>2, FS_EmptySet
    <3>3. baseline'.download = {} /\ Ids(baseline)' = {}
      BY <2>4, <3>1, <3>2 DEF Ids
    <3> QED
      BY <2>1, <2>4, <3>3 DEF ControlInv, Bound
  <2> QED
    BY <1>4, <2>2, <2>3, <2>4 DEF BaselineEnds
<1>5. CASE MapNext
  <2>0. UNCHANGED <<rebooted, dry, baseline, locationId, port, found>> /\ step = "mapNext"
    BY <1>5 DEF MapNext, pictures, selection, identity
  <2>1. CASE draining
    <3>1. ResetMapped(InLoader, Nothing) /\ UNCHANGED cur
      BY <1>5, <2>1 DEF MapNext, EndMappingByCancel
    <3> QED
      BY <1>2, <2>0, <3>1, ControlReset DEF ControlInv, Bound
  <2>2. CASE ~draining /\ Later # {}
    <3>1. cur' \in Later /\ step' = "kernel" /\ UNCHANGED <<stage, unattributed>>
      BY <1>0, <1>5, <2>2, NextBoard DEF MapNext, endings, Typed
    <3>2. cur' \in Board /\ cur' > cur
      BY <1>0, <3>1 DEF Later, Typed
    <3>3. \A b \in rebooted : b < cur'
      BY <1>0, <3>2, Numbers DEF ControlInv, Typed, Nothing
    <3> QED
      BY <2>0, <3>1, <3>2, <3>3, Numbers, <1>0 DEF ControlInv, Bound, Ids, Typed
  <2>3. CASE ~draining /\ Later = {}
    BY <1>5, <2>0, <2>3 DEF MapNext, ControlInv, Bound, Ids, endings
  <2> QED
    BY <2>1, <2>2, <2>3
<1>6. CASE KernelEnds
  <2>1. step = "kernel" /\ UNCHANGED <<rebooted, cur, unattributed, dry, baseline, locationId, port, found>>
    BY <1>6 DEF KernelEnds, SkipCur, pictures, selection, identity
  <2>2. CASE SkipCur
    BY <2>1, <2>2, ControlSkip DEF SkipCur, ControlInv, Bound
  <2>3. CASE step' = "layout" /\ UNCHANGED stage
    BY <2>1, <2>3 DEF ControlInv, Bound, Ids
  <2> QED
    BY <1>6, <2>2, <2>3 DEF KernelEnds, endings
<1>7. CASE LayoutEnds
  <2>1. step = "layout" /\ UNCHANGED <<rebooted, cur, dry, baseline, locationId, port, found>>
    BY <1>7 DEF LayoutEnds, pictures, selection, identity
  <2>2. CASE SkipCur
    BY <2>1, <2>2, ControlSkip DEF SkipCur, ControlInv, Bound
  <2>3. CASE step' = "before" /\ UNCHANGED <<stage, unattributed>>
    BY <2>1, <2>3 DEF ControlInv, Bound, Ids
  <2>4. CASE StopMapping(cur, {})
    BY <1>0, <1>2, <2>1, <2>4, ControlReset DEF StopMapping, ControlInv, Bound, Typed
  <2> QED
    BY <1>7, <2>2, <2>3, <2>4 DEF LayoutEnds, endings
<1>8. CASE BeforeEnds
  <2>1. step = "before" /\ UNCHANGED <<cur, dry, baseline, locationId, port, found>>
    BY <1>8 DEF BeforeEnds, Pictured, selection, identity
  <2>2. CASE ResetMapped(InLoader, Nothing) /\ UNCHANGED rebooted
    BY <1>2, <2>1, <2>2, ControlReset DEF ControlInv, Bound
  <2>3. CASE SkipCur /\ UNCHANGED rebooted
    BY <2>1, <2>3, ControlSkip DEF SkipCur, ControlInv, Bound
  <2>4. CASE /\ step' = "reboot" /\ rebooted' = rebooted \cup {cur}
             /\ stage' = [stage EXCEPT ![cur] = "Mapping"] /\ UNCHANGED unattributed
    <3>1. cur \in Board /\ stage'[cur] = "Mapping" /\ \A b \in Board \ {cur} : stage'[b] = stage[b]
      BY <1>0, <2>1, <2>4 DEF ControlInv, Typed
    <3>2. \A b \in rebooted' : b <= cur
      BY <2>4, <3>1, Numbers DEF ControlInv
    <3>3. locationId[cur] = Nothing
      BY <2>1, <3>1 DEF ControlInv, Bound
    <3> QED
      BY <2>1, <2>4, <3>1, <3>2, <3>3 DEF ControlInv, Bound, Ids
  <2> QED
    BY <1>8, <2>2, <2>3, <2>4 DEF BeforeEnds
<1>9. CASE RebootEnds \/ PollTimer \/ LdReads
  <2>1. UNCHANGED <<cur, rebooted, unattributed, stage, dry, baseline, locationId, port, found>>
    BY <1>9 DEF RebootEnds, PollTimer, LdReads, pictures, endings, selection, identity
  <2>2. \/ UNCHANGED step
        \/ step \in {"reboot", "pollWait"} /\ step' = "poll"
    BY <1>9 DEF RebootEnds, PollTimer, LdReads
  <2> QED
    BY <2>1, <2>2 DEF ControlInv, Bound, Ids
<1>11. CASE PollEnds
  <2>1. step = "poll" /\ UNCHANGED <<cur, rebooted, dry, baseline>>
    BY <1>11 DEF PollEnds, Pictured, selection
  <2>2. cur \in Board /\ cur \in rebooted /\ locationId[cur] = Nothing
    BY <1>0, <2>1 DEF ControlInv, Typed
  <2>3. ASSUME Compare(before, Picture) \in {"Mapped", "Maskrom"}
        PROVE  Recognised(Picture) \in [port : Device, id : Device]
    <3>1. NewIds(before, Picture) # {} /\ Appeared(before, Picture) # {}
      BY <2>3 DEF Compare, CompareNobodyLeft, CompareLeft
    <3>2. NewIds(before, Picture) \subseteq Device /\ Appeared(before, Picture) \subseteq Device
      BY <1>0, PictureTyped DEF Typed, NewIds, Appeared, Snapshot
    <3> QED
      BY <3>1, <3>2 DEF Recognised, Only
  <2>4. CASE /\ Compare(before, Picture) = "Mapped" /\ found' = Recognised(Picture) /\ step' = "confirm"
             /\ UNCHANGED <<endings, identity, unattributed>>
    BY <2>1, <2>2, <2>3, <2>4 DEF ControlInv, Bound, Ids, endings, identity
  <2>5. CASE /\ Compare(before, Picture) = "Maskrom"
             /\ port' = [port EXCEPT ![cur] = Recognised(Picture).port]
             /\ locationId' = [locationId EXCEPT ![cur] = Recognised(Picture).id]
             /\ EndBoard(cur, "Failed") /\ step' = "mapNext" /\ UNCHANGED unattributed
    <3>1. port'[cur] # Nothing /\ \A b \in Board \ {cur} : locationId'[b] = locationId[b] /\ port'[b] = port[b]
      BY <1>0, <2>2, <2>3, <2>5, Numbers DEF Typed
    <3>2. \A b \in Board : locationId'[b] # Nothing => b \in rebooted /\ port'[b] # Nothing
      BY <2>2, <3>1 DEF ControlInv, Bound
    <3> QED
      BY <2>1, <2>5, <3>1, <3>2, ControlSkip
  <2>6. CASE /\ EndBoard(cur, "Skipped") /\ step' = "mapNext" /\ UNCHANGED <<identity, unattributed>>
    BY <2>1, <2>6, ControlSkip DEF ControlInv, Bound, identity
  <2>7. CASE (\E loose \in SUBSET Device : StopMapping(cur, loose)) /\ UNCHANGED identity
    BY <1>0, <1>2, <2>1, <2>7, ControlReset DEF StopMapping, ControlInv, Bound, Typed, identity
  <2>8. CASE step' = "pollWait" /\ UNCHANGED <<endings, identity, found, unattributed>>
    BY <2>1, <2>2, <2>8 DEF ControlInv, Bound, Ids, endings, identity
  <2>9. NewIds(before, Picture) \in SUBSET Device /\ {} \in SUBSET Device
    BY <1>0, PictureTyped DEF NewIds, Typed
  <2> QED
    BY <1>11, <2>4, <2>5, <2>6, <2>7, <2>8, <2>9 DEF PollEnds
<1>12. CASE PollFails
  <2>1. step = "poll" /\ UNCHANGED <<cur, rebooted, dry, baseline, locationId, port, found>> /\ StopMapping(cur, {})
    BY <1>12 DEF PollFails, Pictured, selection, identity
  <2> QED
    BY <1>0, <1>2, <2>1, ControlReset DEF StopMapping, ControlInv, Bound, Typed
<1>13. CASE ConfirmEnds
  <2>1. step = "confirm" /\ UNCHANGED <<cur, rebooted, dry, baseline, found>>
    BY <1>13 DEF ConfirmEnds, pictures, selection
  <2>2. cur \in Board /\ cur \in rebooted /\ found \in [port : Device, id : Device]
    BY <1>0, <2>1 DEF ControlInv, Typed
  <2>3. CASE StopMapping(cur, {found.id}) /\ UNCHANGED <<port, locationId>>
    BY <1>0, <1>2, <2>1, <2>3, ControlReset DEF StopMapping, ControlInv, Bound, Typed
  <2>4. CASE port' = [port EXCEPT ![cur] = found.port] /\ locationId' = [locationId EXCEPT ![cur] = found.id]
    <3>1. /\ port'[cur] # Nothing /\ locationId'[cur] # Nothing
          /\ \A b \in Board \ {cur} : locationId'[b] = locationId[b] /\ port'[b] = port[b]
      BY <1>0, <2>2, <2>4, Numbers DEF Typed
    <3>2. \A b \in Board : locationId'[b] # Nothing => b \in rebooted /\ port'[b] # Nothing
      BY <2>2, <3>1 DEF ControlInv, Bound
    <3>3. CASE ResetMapped(InLoader \cup {cur}, Nothing)
      <4>1. InLoader \cup {cur} \in SUBSET Board /\ \A b \in InLoader \cup {cur} : locationId'[b] # Nothing
        BY <1>2, <2>2, <3>1 DEF Bound
      <4> QED
        BY <2>1, <3>2, <3>3, <4>1, ControlReset
    <3>4. CASE stage' = [stage EXCEPT ![cur] = "Loader"] /\ step' = "mapNext" /\ UNCHANGED unattributed
      <4>1. stage'[cur] = "Loader" /\ \A b \in Board \ {cur} : stage'[b] = stage[b]
        BY <1>0, <2>2, <3>4 DEF Typed
      <4> QED
        BY <2>1, <2>2, <3>1, <3>2, <3>4, <4>1 DEF ControlInv, Bound, Ids
    <3> QED
      BY <1>13, <2>4, <3>3, <3>4, <2>3 DEF ConfirmEnds
  <2> QED
    BY <1>13, <2>3, <2>4 DEF ConfirmEnds
<1>14. CASE ReconcileEnds
  <2>1. step = "reconcile" /\ UNCHANGED <<cur, rebooted, dry, baseline, locationId, port, found>>
    BY <1>14 DEF ReconcileEnds, Pictured, selection, identity
  <2>2. CASE ResetMapped(InLoader, Nothing)
    BY <1>2, <2>1, <2>2, ControlReset DEF ControlInv, Bound
  <2>3. CASE step' \in {"done", "writing"} /\ UNCHANGED <<stage, unattributed>>
    BY <2>1, <2>3 DEF ControlInv, Bound, Ids
  <2> QED
    BY <1>14, <2>2, <2>3 DEF ReconcileEnds, EndMappingByCancel, StopMapping, endings
<1>15. CASE \E b \in Board : RdEnds(b)
  <2>1. PICK b \in Board : RdEnds(b)
    BY <1>15
  <2>2. /\ step = "resets" /\ UNCHANGED <<cur, rebooted, dry, baseline, locationId, port, found, unattributed>>
        /\ stage' = [stage EXCEPT ![b] = "Finished"] /\ step' = IF Alive = {b} THEN "closing" ELSE "resets"
    BY <2>1 DEF RdEnds, EndBoard, selection, identity, pictures
  <2>3. stage'[b] = "Finished" /\ \A a \in Board \ {b} : stage'[a] = stage[a]
    BY <1>0, <2>2 DEF Typed
  <2>4. Alive = {b} => \A a \in Board \ {b} : stage[a] = "Finished"
    BY DEF Alive, Ended
  <2> QED
    BY <2>2, <2>3, <2>4 DEF ControlInv, Bound, Ids
<1>16. CASE ClosingEnds
  <2>1. /\ step = "closing" /\ step' = "done"
        /\ UNCHANGED <<cur, rebooted, dry, baseline, port, found, stage>>
    BY <1>16 DEF ClosingEnds, Pictured, selection, endings
  <2>2. \A b \in Board : locationId'[b] # Nothing <=> locationId[b] # Nothing
    <3>1. CASE UNCHANGED locationId
      BY <3>1
    <3>2. CASE locationId' = [b \in Board |-> NewId(b)]
      <4> TAKE b \in Board
      <4>1. CASE Paired /\ b \in Renumbered \ maskrom
        <5>1. StrayIds # {} /\ StrayIds \subseteq Device
          BY <4>1, OneIsSome, PictureTyped DEF Paired, StrayIds, Snapshot
        <5>2. NewId(b) # Nothing /\ locationId[b] # Nothing
          BY <4>1, <5>1, Numbers DEF NewId, Only, Renumbered, Bound
        <5> QED
          BY <3>2, <5>2
      <4>2. CASE ~(Paired /\ b \in Renumbered \ maskrom)
        BY <3>2, <4>2 DEF NewId
      <4> QED
        BY <4>1, <4>2
    <3> QED
      BY <1>16, <3>1, <3>2 DEF ClosingEnds
  <2> QED
    BY <2>1, <2>2 DEF ControlInv, Bound, Ids
<1>17. CASE WaitElapses \/ Cancel
  <2>1. UNCHANGED <<step, cur, rebooted, unattributed, stage, dry, baseline, locationId, port, found>>
    BY <1>17 DEF WaitElapses, Cancel, pictures, endings, selection, identity
  <2> QED
    BY <2>1 DEF ControlInv, Bound, Ids
<1> QED
  BY <1>3, <1>4, <1>5, <1>6, <1>7, <1>8, <1>9, <1>11, <1>12, <1>13, <1>14, <1>15, <1>16, <1>17 DEF RunStep

-----------------------------------------------------------------------------
(* No device is learned twice.                                             *)

\* It will not be told to reboot again.
Spent(d) ==
    /\ ~told[d]
    /\ IF d \in Board THEN d \in rebooted ELSE faults >= 2

\* It was told, and is where it was told to go.
Arrived(d) ==
    /\ at[d] \in {"loader", "maskrom"}
    /\ ~told[d]
    /\ IF d \in Board THEN d \in rebooted ELSE faults >= 1

\* It has left its download mode for good.
Left(d) == at[d] \in {"booting", "adb"} /\ Spent(d)

\* What a view may show, what it shows of a device somebody learned, and when it
\* will not show it any more.
MayShow(d, view) == view \in shown[d] => Arrived(d) \/ Left(d)
Kept(d, view) == (Arrived(d) /\ view \in shown[d]) \/ Left(d)
Dropped(d, view) == Left(d) /\ view \notin shown[d]

\* A device nobody disturbed.
Untouched(s) ==
    /\ ~told[s]
    /\ \/ at[s] = "adb" /\ {"dl", "ld"} \cap shown[s] = {}
       \/ at[s] = "loader" /\ {"dl", "ld"} \subseteq shown[s]

DevicesInv ==
    /\ \A d \in Device : told[d] => at[d] \in {"adb", "away"}
    /\ \A b \in Board \ rebooted : at[b] = "adb" /\ ~told[b] /\ {"dl", "ld"} \cap shown[b] = {}
    /\ \A s \in Device \ Board : faults >= 1 \/ Untouched(s)
    /\ step = "baseline" /\ listed => \A d \in Device \ listing : MayShow(d, "ld")
    /\ step \in MapSteps =>
          /\ \A d \in Device : MayShow(d, "dl") /\ MayShow(d, "ld")
          /\ \A s \in Device \ Board : faults >= 1 \/ at[s] = "adb"

\* The pictures of the board being mapped show the devices of the boards before
\* it, or these will not be seen again.
LearnedInv ==
    /\ \A a \in Bound : Kept(locationId[a], "ld") /\ Kept(port[a], "dl")
    /\ step = "before" /\ listed =>
          \A a \in Bound : locationId[a] \in listing \/ Dropped(locationId[a], "ld")
    /\ step \in RebootSteps =>
          \A a \in Bound : /\ locationId[a] \in Ids(before) \/ Dropped(locationId[a], "ld")
                           /\ port[a] \in before.download \/ Dropped(port[a], "dl")
    /\ step = "poll" /\ listed =>
          /\ \A d \in listing : Kept(d, "ld")
          /\ \A a \in Bound : locationId[a] \in listing => locationId[a] \in Ids(before)
    /\ step = "confirm" =>
          /\ Kept(found.id, "ld") /\ Kept(found.port, "dl")
          /\ \A a \in Bound : locationId[a] # found.id /\ port[a] # found.port

\* Each device enters a download mode once: it was selected, or so little may
\* go wrong that nobody can reboot it twice.
FewMoves == NStrangers = 0 \/ MaxFaults <= 2

\* What a move of the bench does to the one device that moves.
Leaves(d) == told[d] /\ at[d] = "adb" /\ at'[d] = "away" /\ told'[d] /\ shown'[d] \subseteq shown[d]
Enters(d) ==
    /\ told[d] /\ at[d] = "away" /\ at'[d] \in {"loader", "maskrom"} /\ ~told'[d]
    /\ shown'[d] \subseteq shown[d] \cup {"dl", "ld"}
Returns(d) ==
    /\ at[d] = "booting" /\ at'[d] = "adb" /\ told'[d] = told[d]
    /\ shown'[d] \subseteq shown[d] \cup {"adb"}
Settles(d) ==
    /\ at'[d] = at[d] /\ told'[d] = told[d]
    /\ shown[d] \cap Truth(at[d]) \subseteq shown'[d] /\ shown'[d] \subseteq shown[d] \cup Truth(at[d])
Obeys(d) == d \notin Board /\ at[d] = "adb" /\ at'[d] = "adb" /\ told'[d] /\ ~told[d] /\ shown'[d] = shown[d]
Drops(d) == at[d] = "loader" /\ at'[d] = "booting" /\ told'[d] = told[d] /\ shown'[d] \subseteq shown[d]

Moved(d) ==
    /\ \A e \in Device \ {d} : at'[e] = at[e] /\ shown'[e] = shown[e] /\ told'[e] = told[e]
    /\ \/ (Leaves(d) \/ Enters(d) \/ Returns(d) \/ Settles(d)) /\ faults' = faults
       \/ (Obeys(d) \/ Drops(d)) /\ faults' = faults + 1 /\ faults' <= MaxFaults

LEMMA OneMoves ==
    ASSUME TypeOK, BenchMove
    PROVE  \E d \in Device : Moved(d)
<1>1. PICK d \in Device : BenchStep(d) \/ StrangerTold(d) \/ BrownOut(d)
  BY DEF BenchMove
<1>2. Typed
  BY Flat
<1>3. ASSUME NEW where \in {"adb", "away", "booting", "loader", "maskrom"}, Moves(d, where)
      PROVE  /\ at'[d] = where /\ shown'[d] \subseteq shown[d] \cup Truth(where)
             /\ \A e \in Device \ {d} : at'[e] = at[e] /\ shown'[e] = shown[e]
  BY <1>2, <1>3 DEF Moves, Typed
<1>4. CASE LeavesAdb(d)
  BY <1>2, <1>3, <1>4 DEF LeavesAdb, Moved, Leaves, Truth, Typed
<1>5. CASE EntersDownload(d)
  <2>1. PICK mode \in Modes : Moves(d, mode)
    BY <1>5 DEF EntersDownload
  <2>2. mode \in {"loader", "maskrom"}
    BY MappingAssumption
  <2> QED
    BY <1>2, <1>3, <1>5, <2>1, <2>2 DEF EntersDownload, Moved, Enters, Truth, Typed
<1>6. CASE Boots(d)
  <2>1. at[d] = "booting" /\ Moves(d, "adb") /\ UNCHANGED <<told, faults>>
    BY <1>6 DEF Boots
  <2>2. at'[d] = "adb" /\ shown'[d] \subseteq shown[d] \cup {"adb"}
    BY <1>3, <2>1 DEF Truth
  <2> QED
    BY <1>3, <2>1, <2>2 DEF Moved, Returns
<1>7. CASE CatchesUp(d)
  <2>1. PICK view \in {"adb", "dl", "ld"} :
           /\ (view \in shown[d]) # (view \in Truth(at[d]))
           /\ shown' = [shown EXCEPT ![d] = IF view \in @ THEN @ \ {view} ELSE @ \cup {view}]
    BY <1>7 DEF CatchesUp
  <2>2. /\ shown[d] \cap Truth(at[d]) \subseteq shown'[d] /\ shown'[d] \subseteq shown[d] \cup Truth(at[d])
        /\ \A e \in Device \ {d} : shown'[e] = shown[e]
    BY <1>2, <2>1 DEF Typed
  <2> QED
    BY <1>7, <2>2 DEF CatchesUp, Moved, Settles
<1>8. CASE StrangerTold(d)
  <2>1. /\ d \notin Board /\ at[d] = "adb" /\ ~told[d] /\ UNCHANGED <<at, shown>>
        /\ told' = [told EXCEPT ![d] = TRUE] /\ faults < MaxFaults /\ faults' = faults + 1
    BY <1>8 DEF StrangerTold, Fault
  <2>2. told'[d] /\ \A e \in Device \ {d} : told'[e] = told[e]
    BY <1>2, <2>1 DEF Typed
  <2>3. faults' <= MaxFaults
    BY <1>2, <2>1, Numbers DEF Typed
  <2> QED
    BY <2>1, <2>2, <2>3 DEF Moved, Obeys
<1>9. CASE BrownOut(d)
  BY <1>2, <1>3, <1>9, Numbers DEF BrownOut, Fault, Moved, Drops, Truth, Typed
<1> QED
  BY <1>1, <1>4, <1>5, <1>6, <1>7, <1>8, <1>9 DEF BenchStep

LEMMA BenchKeeps ==
    ASSUME FewMoves, TypeOK, BenchMove, NEW d \in Device, NEW view \in {"dl", "ld"}
    PROVE  /\ Kept(d, view) => Kept(d, view)'
           /\ Dropped(d, view) => Dropped(d, view)'
<1>1. PICK e \in Device : Moved(e)
  BY OneMoves
<1>2. /\ faults \in Nat /\ faults' \in Nat /\ faults' >= faults /\ UNCHANGED rebooted
      /\ d \notin Board => (faults' # faults => faults < 2)
  <2>1. faults \in Nat /\ UNCHANGED rebooted
    BY Flat, Numbers, BenchFrame DEF Typed, RestOfRun
  <2>2. d \notin Board => MaxFaults <= 2
    BY Numbers DEF FewMoves, Board, Device
  <2> QED
    BY <1>1, <2>1, <2>2, Numbers DEF Moved
<1>3. CASE e # d
  BY <1>1, <1>2, <1>3 DEF Moved, Kept, Dropped, Arrived, Left, Spent
<1>4. CASE e = d
  BY <1>1, <1>2, <1>4 DEF Moved, Kept, Dropped, Arrived, Left, Spent, Leaves, Enters, Returns, Settles, Obeys,
     Drops, Truth
<1> QED
  BY <1>3, <1>4

LEMMA BenchDevices ==
    ASSUME FewMoves, TypeOK, ControlInv, DevicesInv, step \notin EndSteps, BenchMove
    PROVE  DevicesInv'
<1>1. PICK e \in Device : Moved(e)
  BY OneMoves
<1>2. UNCHANGED <<step, cur, rebooted, listed, listing>>
  BY BenchFrame DEF RestOfRun, pictures
<1>3. /\ faults \in Nat /\ faults' \in Nat /\ faults' >= faults
      /\ \A d \in Device \ Board : faults' # faults => faults < 2
  <2>1. faults \in Nat
    BY Flat, Numbers DEF Typed
  <2>2. Device # Board => MaxFaults <= 2
    BY Numbers DEF FewMoves, Board, Device
  <2> QED
    BY <1>1, <2>1, <2>2, Numbers DEF Moved
<1>4. \A d \in Device : told'[d] => at'[d] \in {"adb", "away"}
  BY <1>1 DEF DevicesInv, Moved, Leaves, Enters, Returns, Settles, Obeys, Drops
<1>5. \A b \in Board \ rebooted : at'[b] = "adb" /\ ~told'[b] /\ {"dl", "ld"} \cap shown'[b] = {}
  BY <1>1, Numbers DEF DevicesInv, Moved, Leaves, Enters, Returns, Settles, Obeys, Drops, Truth
<1>6. \A s \in Device \ Board : faults' >= 1 \/ Untouched(s)'
  <2> SUFFICES ASSUME NEW s \in Device \ Board, faults = 0, faults' = 0
               PROVE  Untouched(s)'
    BY <1>3
  <2>1. Untouched(s)
    BY DEF DevicesInv
  <2>2. CASE e # s
    BY <1>1, <2>1, <2>2 DEF Moved, Untouched
  <2>3. CASE e = s
    BY <1>1, <2>1, <2>3 DEF Moved, Untouched, Leaves, Enters, Returns, Settles, Truth
  <2> QED
    BY <2>2, <2>3
<1>7. ASSUME NEW d \in Device, NEW view \in {"dl", "ld"}, MayShow(d, view),
             at[d] \in {"loader", "maskrom"} /\ view \notin shown[d] => d \in Board \/ faults >= 1
      PROVE  MayShow(d, view)'
  <2>1. told[d] => at[d] \in {"adb", "away"} /\ (d \in Board => d \in rebooted) /\ (d \notin Board => faults >= 1)
    BY DEF DevicesInv, Untouched
  <2>2. d \in Board /\ at[d] # "adb" => d \in rebooted
    BY DEF DevicesInv
  <2>3. CASE e # d
    BY <1>1, <1>2, <1>3, <1>7, <2>3 DEF Moved, MayShow, Arrived, Left, Spent
  <2>4. CASE e = d /\ Leaves(d)
    BY <1>7, <2>4 DEF MayShow, Arrived, Left, Spent, Leaves
  <2>7. CASE e = d /\ Obeys(d) /\ faults' = faults + 1
    BY <1>3, <1>7, <2>7 DEF MayShow, Arrived, Left, Spent, Obeys
  <2>8. CASE e = d /\ Drops(d) /\ faults' = faults + 1
    BY <1>2, <1>3, <1>7, <2>8 DEF MayShow, Arrived, Left, Spent, Drops
  <2>5. CASE e = d /\ Enters(d) /\ faults' = faults
    BY <1>2, <2>1, <2>5 DEF MayShow, Arrived, Enters
  <2>6. CASE e = d /\ (Returns(d) \/ Settles(d)) /\ faults' = faults
    <3>1. CASE view \in shown[d]
      BY <1>2, <1>7, <2>6, <3>1 DEF MayShow, Arrived, Left, Spent, Returns, Settles
    <3>2. CASE view \notin shown[d] /\ view \in shown'[d]
      <4>1. at[d] \in {"loader", "maskrom"} /\ at'[d] = at[d] /\ told'[d] = told[d]
        BY <2>6, <3>2 DEF Returns, Settles, Truth
      <4> QED
        BY <1>2, <1>7, <2>1, <2>2, <2>6, <3>2, <4>1 DEF MayShow, Arrived
    <3> QED
      BY <3>1, <3>2 DEF MayShow
  <2> QED
    BY <1>1, <2>3, <2>4, <2>5, <2>6, <2>7, <2>8 DEF Moved
<1>8. step = "baseline" /\ listed => \A d \in Device \ listing : MayShow(d, "ld")'
  <2> SUFFICES ASSUME step = "baseline", listed, NEW d \in Device \ listing PROVE MayShow(d, "ld")'
    OBVIOUS
  <2>1. MayShow(d, "ld")
    BY DEF DevicesInv
  <2>2. at[d] \in {"loader", "maskrom"} /\ "ld" \notin shown[d] => d \in Board \/ faults >= 1
    BY DEF DevicesInv, Untouched
  <2> QED
    BY <1>7, <2>1, <2>2
<1>9. step \in MapSteps =>
          /\ \A d \in Device : MayShow(d, "dl")' /\ MayShow(d, "ld")'
          /\ \A s \in Device \ Board : faults' >= 1 \/ at'[s] = "adb"
  <2> SUFFICES ASSUME step \in MapSteps
               PROVE  /\ \A d \in Device : MayShow(d, "dl")' /\ MayShow(d, "ld")'
                      /\ \A s \in Device \ Board : faults' >= 1 \/ at'[s] = "adb"
    OBVIOUS
  <2>1. \A d \in Device : MayShow(d, "dl") /\ MayShow(d, "ld")
    BY DEF DevicesInv
  <2>2. \A s \in Device \ Board : faults >= 1 \/ (at[s] = "adb" /\ ~told[s])
    BY DEF DevicesInv, Untouched
  <2>3. \A d \in Device : at[d] \in {"loader", "maskrom"} => d \in Board \/ faults >= 1
    BY <2>2
  <2>4. \A d \in Device : MayShow(d, "dl")' /\ MayShow(d, "ld")'
    BY <1>7, <2>1, <2>3
  <2>5. \A s \in Device \ Board : faults' >= 1 \/ at'[s] = "adb"
    BY <1>1, <1>3, <2>2 DEF Moved, Leaves, Enters, Returns, Settles
  <2> QED
    BY <2>4, <2>5
<1> QED
  BY <1>2, <1>4, <1>5, <1>6, <1>8, <1>9 DEF DevicesInv

LEMMA BenchLearned ==
    ASSUME FewMoves, TypeOK, ControlInv, LearnedInv, step \in MapSteps, BenchMove
    PROVE  LearnedInv'
<1>1. UNCHANGED <<step, rebooted, listed, listing, before, found, locationId, port>>
  BY BenchFrame DEF RestOfRun, pictures, identity
<1>2. \A d \in Device, view \in {"dl", "ld"} : /\ Kept(d, view) => Kept(d, view)'
                                               /\ Dropped(d, view) => Dropped(d, view)'
  BY BenchKeeps
<1>3. \A a \in Bound : locationId[a] \in Device /\ port[a] \in Device
  BY Flat DEF Typed, Bound, ControlInv
<1>4. listing \subseteq Device /\ (step = "confirm" => found.id \in Device /\ found.port \in Device)
  BY Flat DEF Typed, ControlInv
<1>5. Bound' = Bound /\ Ids(before)' = Ids(before) /\ before.download' = before.download
  BY <1>1 DEF Bound, Ids
<1> QED
  BY <1>1, <1>2, <1>3, <1>4, <1>5 DEF LearnedInv

\* A step that leaves the bench alone and reboots nobody.
LEMMA QuietKeeps ==
    ASSUME TypeOK, UNCHANGED <<at, shown, rebooted>>, faults' \in {faults, faults + 1},
           \A d \in Device : told'[d] => told[d], NEW d \in Device, NEW view
    PROVE  /\ Kept(d, view) => Kept(d, view)'
           /\ Dropped(d, view) => Dropped(d, view)'
           /\ MayShow(d, view) => MayShow(d, view)'
           /\ faults' >= 1 \/ Untouched(d)' \/ ~(faults >= 1 \/ Untouched(d))
<1>1. faults \in Nat /\ faults' >= faults /\ faults' \in Nat
  BY Flat, Numbers DEF Typed
<1> QED
  BY <1>1 DEF Kept, Dropped, MayShow, Arrived, Left, Spent, Untouched

LEMMA QuietDevices ==
    ASSUME TypeOK, DevicesInv, UNCHANGED <<at, shown, rebooted>>, faults' \in {faults, faults + 1},
           \A d \in Device : told'[d] => told[d],
           step' = "baseline" /\ listed' =>
               \/ step = "baseline" /\ listed /\ listing' = listing
               \/ \A d \in Device \ listing' : "ld" \notin shown[d],
           step' \in MapSteps =>
               /\ \A d \in Device : MayShow(d, "dl") /\ MayShow(d, "ld")
               /\ \A x \in Device \ Board : faults >= 1 \/ at[x] = "adb"
    PROVE  DevicesInv'
<1>1. \A d \in Device, view \in {"dl", "ld"} : MayShow(d, view) => MayShow(d, view)'
  BY QuietKeeps
<1>2. \A s \in Device \ Board : faults' >= 1 \/ Untouched(s)'
  BY QuietKeeps DEF DevicesInv
<1>3. faults \in Nat /\ faults' >= faults
  BY Flat, Numbers DEF Typed
<1>4. step' = "baseline" /\ listed' => \A d \in Device \ listing' : MayShow(d, "ld")'
  <2> SUFFICES ASSUME step' = "baseline", listed', NEW d \in Device \ listing' PROVE MayShow(d, "ld")'
    OBVIOUS
  <2>1. CASE "ld" \notin shown[d]
    BY <2>1 DEF MayShow
  <2>2. CASE step = "baseline" /\ listed /\ listing' = listing
    BY <1>1, <2>2 DEF DevicesInv
  <2> QED
    BY <2>1, <2>2
<1>5. step' \in MapSteps =>
          /\ \A d \in Device : MayShow(d, "dl")' /\ MayShow(d, "ld")'
          /\ \A x \in Device \ Board : faults' >= 1 \/ at'[x] = "adb"
  BY <1>1, <1>3
<1>6. /\ \A d \in Device : told'[d] => at'[d] \in {"adb", "away"}
      /\ \A b \in Board \ rebooted' : at'[b] = "adb" /\ ~told'[b] /\ {"dl", "ld"} \cap shown'[b] = {}
  BY Numbers DEF DevicesInv
<1> QED
  BY <1>2, <1>4, <1>5, <1>6 DEF DevicesInv

\* A listing is only held while a picture is taken.
ListedInv == listed => step \in Snapshots

LEMMA RunListed ==
    ASSUME ListedInv, RunStep \/ WaitElapses \/ Cancel
    PROVE  ListedInv'
<1>1. listed' => \/ listed /\ step' = step
                 \/ step' = step /\ step \in Snapshots
                 \/ listed /\ step \notin Snapshots
  BY DEF RunStep, DevicesEnds, BaselineEnds, MapNext, KernelEnds, LayoutEnds, BeforeEnds, RebootEnds, LdReads,
         PollTimer, PollEnds, PollFails, ConfirmEnds, ReconcileEnds, ClosingEnds, RdEnds, WaitElapses, Cancel,
         Pictured, pictures, Snapshots
<1> QED
  BY <1>1 DEF ListedInv

LEMMA RunDevices ==
    ASSUME TypeOK, ListedInv, TypeOK', ControlInv, DevicesInv, step \notin EndSteps, step' \notin EndSteps,
           RunStep \/ WaitElapses \/ Cancel
    PROVE  DevicesInv'
<1> USE DEF StartSteps, OwnSteps, RebootSteps, MapSteps, EndSteps
<1>0. Typed /\ step' \in Steps
  BY Flat DEF Typed
<1>1. step \in MapSteps =>
          /\ \A d \in Device : MayShow(d, "dl") /\ MayShow(d, "ld")
          /\ \A x \in Device \ Board : faults >= 1 \/ at[x] = "adb"
  BY DEF DevicesInv
<1>2. ASSUME UNCHANGED <<at, shown, rebooted>>, faults' \in {faults, faults + 1},
             \A d \in Device : told'[d] => told[d],
             step \in MapSteps /\ step' \in MapSteps
      PROVE  DevicesInv'
  BY <1>1, <1>2, QuietDevices
<1>3. Fault => faults' \in {faults, faults + 1}
  BY DEF Fault
<1>4. CASE DevicesEnds
  <2>1. /\ step = "devices" /\ UNCHANGED <<at, shown, told, rebooted, listed, listing>> /\ faults' \in {faults, faults + 1}
        /\ step' \in {"baseline", "done"}
    BY <1>3, <1>4 DEF DevicesEnds, bench, pictures, Refuse
  <2>2. ~listed'
    BY <2>1 DEF ListedInv, Snapshots
  <2> QED
    BY <2>1, <2>2, QuietDevices
<1>5. CASE BaselineEnds
  <2>1. /\ step = "baseline" /\ listed /\ ~listed' /\ UNCHANGED <<at, shown, told, rebooted, faults>> /\ ~RefusesBench /\ ~dry
        /\ step' = "mapNext"
    BY <1>5 DEF BaselineEnds, Pictured, Refuse
  <2>2. Ids(Picture) = {} /\ Cardinality(Picture.download) = 0
    BY <2>1, FS_EmptySet DEF RefusesBench
  <2>3. Picture.download = {}
    <3>1. IsFiniteSet(Device)
      BY MappingAssumption, FS_Interval DEF Device
    <3>2. IsFiniteSet(Picture.download)
      BY <3>1, FS_Subset, PictureTyped DEF Snapshot
    <3> QED
      BY <2>2, <3>2, FS_EmptySet
  <2>4. listing = {} /\ \A d \in Device : "dl" \notin shown[d]
    BY <2>2, <2>3, PictureTyped DEF Picture
  <2>5. \A d \in Device : MayShow(d, "dl") /\ MayShow(d, "ld")
    BY <2>1, <2>4 DEF DevicesInv, MayShow
  <2>6. \A x \in Device \ Board : faults >= 1 \/ at[x] = "adb"
    BY <2>4 DEF DevicesInv, Untouched
  <2> QED
    BY <2>1, <2>5, <2>6, QuietDevices
<1>6. CASE MapNext \/ KernelEnds \/ LayoutEnds \/ RebootEnds \/ PollTimer
  <2>1. UNCHANGED <<at, shown, told, rebooted, faults>> /\ step \in MapSteps
    BY <1>6 DEF MapNext, KernelEnds, LayoutEnds, RebootEnds, PollTimer, bench
  <2>2. step' \in MapSteps
    BY <1>6 DEF MapNext, KernelEnds, LayoutEnds, RebootEnds, PollTimer, EndMappingByCancel, ResetMapped, Closing,
                SkipCur, StopMapping
  <2> QED
    BY <1>2, <2>1, <2>2
<1>7. CASE LdReads
  <2>1. /\ UNCHANGED <<at, shown, told, rebooted, faults, step>>
        /\ listing' = {d \in Device : "ld" \in shown[d]}
    BY <1>7 DEF LdReads, bench
  <2> QED
    BY <1>1, <2>1, QuietDevices
<1>8. CASE BeforeEnds
  <2>1. step = "before" /\ UNCHANGED <<at, shown>>
    BY <1>8 DEF BeforeEnds, Pictured
  <2>2. CASE UNCHANGED <<told, rebooted>> /\ faults' \in {faults, faults + 1}
    BY <1>2, <1>8, <2>1, <2>2 DEF BeforeEnds, SkipCur, ResetMapped, Closing
  <2>3. CASE /\ step' = "reboot" /\ rebooted' = rebooted \cup {cur}
             /\ told' = [told EXCEPT ![cur] = at[cur] = "adb"] \/ UNCHANGED told
             /\ faults' \in {faults, faults + 1}
    <3>1. cur \in Board \ rebooted /\ cur \in Device
      BY <2>1, Numbers DEF ControlInv
    <3>2. at[cur] = "adb" /\ ~told[cur] /\ {"dl", "ld"} \cap shown[cur] = {}
      BY <3>1 DEF DevicesInv
    <3>3. \A d \in Device \ {cur} : told'[d] = told[d]
      BY <1>0, <2>3 DEF Typed
    <3>4. faults \in Nat /\ faults' \in Nat /\ faults' >= faults
      BY <1>0, <2>3, Numbers DEF Typed
    <3>5. \A d \in Device, view \in {"dl", "ld"} : MayShow(d, view)'
      <4> TAKE d \in Device, view \in {"dl", "ld"}
      <4>1. CASE d = cur
        BY <2>1, <3>2, <4>1 DEF MayShow
      <4>2. CASE d # cur
        <5>1. MayShow(d, view)
          BY <1>1, <2>1
        <5> QED
          BY <2>1, <2>3, <3>3, <3>4, <4>2, <5>1 DEF MayShow, Arrived, Left, Spent
      <4> QED
        BY <4>1, <4>2
    <3>6. \A s \in Device \ Board : faults' >= 1 \/ Untouched(s)'
      BY <2>1, <3>1, <3>3, <3>4 DEF DevicesInv, Untouched
    <3>7. \A s \in Device \ Board : faults' >= 1 \/ at'[s] = "adb"
      BY <1>1, <2>1, <3>4
    <3>8. \A d \in Device : told'[d] => at'[d] \in {"adb", "away"}
      BY <2>1, <3>2, <3>3 DEF DevicesInv
    <3>9. \A b \in Board \ rebooted' : at'[b] = "adb" /\ ~told'[b] /\ {"dl", "ld"} \cap shown'[b] = {}
      BY <2>1, <2>3, <3>3, Numbers DEF DevicesInv
    <3> QED
      BY <2>3, <3>5, <3>6, <3>7, <3>8, <3>9 DEF DevicesInv
  <2> QED
    BY <1>3, <1>8, <2>2, <2>3 DEF BeforeEnds
<1>9. CASE PollEnds
  BY <1>2, <1>9 DEF PollEnds, Pictured, bench, StopMapping, ResetMapped, Closing
<1>10. CASE PollFails
  BY <1>10 DEF PollFails, StopMapping, ResetMapped, Closing
<1>11. CASE ConfirmEnds
  BY <1>2, <1>3, <1>11 DEF ConfirmEnds, StopMapping, ResetMapped, Closing
<1>12. CASE ReconcileEnds
  BY <1>2, <1>12 DEF ReconcileEnds, Pictured, EndMappingByCancel, StopMapping, ResetMapped, Closing
<1>13. CASE ClosingEnds \/ \E b \in Board : RdEnds(b)
  BY <1>13 DEF ClosingEnds, Pictured, RdEnds
<1>14. CASE WaitElapses
  <2>1. /\ UNCHANGED <<at, shown, rebooted, step>> /\ faults' \in {faults, faults + 1} /\ step \in MapSteps
        /\ told' = [told EXCEPT ![cur] = Late /\ @]
    BY <1>3, <1>14 DEF WaitElapses
  <2>2. \A d \in Device : told'[d] => told[d]
    BY <1>0, <2>1, MappingAssumption DEF Typed
  <2> QED
    BY <1>2, <2>1, <2>2
<1>15. CASE Cancel
  BY <1>1, <1>15, QuietDevices DEF Cancel, bench, pictures
<1> QED
  BY <1>4, <1>5, <1>6, <1>7, <1>8, <1>9, <1>10, <1>11, <1>12, <1>13, <1>14, <1>15 DEF RunStep

\* What a poll finds new belongs to no board that is bound already.
LEMMA PollFindsNew ==
    ASSUME TypeOK, DevicesInv, LearnedInv, step = "poll", listed
    PROVE  /\ \A n \in NewIds(before, Picture) :
                 n \in Device /\ Kept(n, "ld") /\ \A a \in Bound : locationId[a] # n
           /\ \A p \in Appeared(before, Picture) :
                 p \in Device /\ Kept(p, "dl") /\ \A a \in Bound : port[a] # p
           /\ Compare(before, Picture) \in {"Mapped", "Maskrom"} =>
                 /\ Recognised(Picture).id \in NewIds(before, Picture)
                 /\ Recognised(Picture).port \in Appeared(before, Picture)
<1>1. listing \subseteq Device /\ Ids(Picture) = listing
  BY Flat, PictureTyped DEF Typed
<1>2. \A n \in NewIds(before, Picture) :
         n \in Device /\ Kept(n, "ld") /\ \A a \in Bound : locationId[a] # n
  BY <1>1 DEF NewIds, LearnedInv
<1>3. \A p \in Appeared(before, Picture) : p \in Device /\ "dl" \in shown[p] /\ p \notin before.download
  BY DEF Appeared, Picture
<1>4. \A p \in Appeared(before, Picture) :
         p \in Device /\ Kept(p, "dl") /\ \A a \in Bound : port[a] # p
  BY <1>3 DEF DevicesInv, LearnedInv, MapSteps, RebootSteps, MayShow, Kept, Dropped
<1>5. ASSUME Compare(before, Picture) \in {"Mapped", "Maskrom"}
      PROVE  /\ Recognised(Picture).id \in NewIds(before, Picture)
             /\ Recognised(Picture).port \in Appeared(before, Picture)
  <2>1. NewIds(before, Picture) # {} /\ Appeared(before, Picture) # {}
    BY <1>5 DEF Compare, CompareNobodyLeft, CompareLeft
  <2>2. Only(NewIds(before, Picture)) \in NewIds(before, Picture)
    BY <2>1 DEF Only
  <2>3. Only(Appeared(before, Picture)) \in Appeared(before, Picture)
    BY <2>1 DEF Only
  <2> QED
    BY <2>2, <2>3 DEF Recognised
<1> QED
  BY <1>2, <1>4, <1>5

\* A step of the run that reboots nobody and binds nobody.
LEMMA QuietLearned ==
    ASSUME TypeOK, ControlInv, LearnedInv,
           UNCHANGED <<at, shown, rebooted, locationId, port, before>>, faults' \in {faults, faults + 1},
           \A d \in Device : told'[d] => told[d],
           step' \in RebootSteps => step \in RebootSteps,
           step' = "before" /\ listed' => step = "before" /\ listed /\ UNCHANGED listing,
           step' = "poll" /\ listed' => step = "poll" /\ listed /\ UNCHANGED listing,
           step' = "confirm" => step = "confirm" /\ UNCHANGED found
    PROVE  LearnedInv'
<1>1. \A d \in Device, view \in {"dl", "ld"} : /\ Kept(d, view) => Kept(d, view)'
                                               /\ Dropped(d, view) => Dropped(d, view)'
  BY QuietKeeps
<1>2. \A a \in Bound : locationId[a] \in Device /\ port[a] \in Device
  BY Flat DEF Typed, Bound, ControlInv
<1>3. listing \subseteq Device /\ (step = "confirm" => found.id \in Device /\ found.port \in Device)
  BY Flat DEF Typed, ControlInv
<1>4. Bound' = Bound /\ Ids(before)' = Ids(before) /\ before.download' = before.download
  BY DEF Bound, Ids
<1>5. \A a \in Bound : Kept(locationId[a], "ld")' /\ Kept(port[a], "dl")'
  BY <1>1, <1>2, <1>4 DEF LearnedInv
<1>6. step' = "before" /\ listed' =>
          \A a \in Bound : locationId[a] \in listing \/ Dropped(locationId[a], "ld")'
  BY <1>1, <1>2 DEF LearnedInv
<1>7. step' \in RebootSteps =>
          \A a \in Bound : /\ locationId[a] \in Ids(before) \/ Dropped(locationId[a], "ld")'
                           /\ port[a] \in before.download \/ Dropped(port[a], "dl")'
  BY <1>1, <1>2 DEF LearnedInv
<1>8. step' = "poll" /\ listed' => \A d \in listing : Kept(d, "ld")'
  BY <1>1, <1>3 DEF LearnedInv
<1>9. step' = "confirm" => Kept(found.id, "ld")' /\ Kept(found.port, "dl")'
  BY <1>1, <1>3 DEF LearnedInv
<1> QED
  BY <1>4, <1>5, <1>6, <1>7, <1>8, <1>9 DEF LearnedInv

\* A board is bound to what is not another's, and the mapping goes on.
LEMMA BindsLearned ==
    ASSUME TypeOK, ControlInv, LearnedInv, NoSharedDevice, step \in RebootSteps,
           UNCHANGED <<at, shown, told, faults, rebooted>>,
           NEW p \in Device, NEW n \in Device, Kept(n, "ld"), Kept(p, "dl"),
           \A a \in Bound : locationId[a] # n /\ port[a] # p,
           port' = [port EXCEPT ![cur] = p], locationId' = [locationId EXCEPT ![cur] = n]
    PROVE  NoSharedDevice' /\ (step' = "mapNext" => LearnedInv')
<1>1. /\ cur \in Board /\ locationId'[cur] = n /\ port'[cur] = p
      /\ \A b \in Board \ {cur} : locationId'[b] = locationId[b] /\ port'[b] = port[b]
  BY Flat DEF Typed, ControlInv
<1>2. Bound' = Bound \cup {cur} /\ cur \notin Bound
  BY <1>1, Numbers DEF Bound, ControlInv
<1>3. NoSharedDevice'
  BY <1>1, <1>2 DEF NoSharedDevice, Bound
<1>4. \A d, view : Kept(d, view)' <=> Kept(d, view)
  BY DEF Kept, Arrived, Left, Spent
<1>5. \A a \in Bound' : Kept(locationId'[a], "ld") /\ Kept(port'[a], "dl")
  BY <1>1, <1>2 DEF LearnedInv, Bound
<1>6. \A a \in Bound' : Kept(locationId[a], "ld")' /\ Kept(port[a], "dl")'
  BY <1>5 DEF Kept, Arrived, Left, Spent
<1> QED
  BY <1>3, <1>6 DEF LearnedInv, RebootSteps

LEMMA RunLearned ==
    ASSUME TypeOK, ListedInv, ControlInv, ControlInv', step \notin EndSteps => DevicesInv,
           step \in MapSteps => LearnedInv, NoSharedDevice, step' \in MapSteps,
           RunStep \/ WaitElapses \/ Cancel
    PROVE  LearnedInv'
<1> USE DEF StartSteps, OwnSteps, RebootSteps, MapSteps, EndSteps
<1>0. Typed /\ (Fault => faults' \in {faults, faults + 1})
  BY Flat DEF Fault
<1>4. CASE DevicesEnds
  BY <1>4 DEF DevicesEnds, Refuse
<1>5. CASE BaselineEnds
  <2>1. step = "baseline" /\ UNCHANGED <<locationId, rebooted>> /\ step' = "mapNext"
    BY <1>5 DEF BaselineEnds, Pictured, Refuse, identity
  <2>2. Bound' = {}
    BY <2>1 DEF ControlInv, Bound
  <2> QED
    BY <2>1, <2>2 DEF LearnedInv
<1>6. CASE MapNext \/ KernelEnds \/ LayoutEnds \/ RebootEnds \/ PollTimer
  <2>1. /\ UNCHANGED <<at, shown, told, rebooted, faults, locationId, port, before, listed>>
        /\ step \in {"mapNext", "kernel", "layout", "reboot", "pollWait"}
    BY <1>6 DEF MapNext, KernelEnds, LayoutEnds, RebootEnds, PollTimer, bench, identity, pictures
  <2>2. ~listed'
    BY <2>1 DEF ListedInv, Snapshots
  <2>3. step' \in RebootSteps => step \in RebootSteps
    BY <1>6 DEF MapNext, KernelEnds, LayoutEnds, RebootEnds, PollTimer, EndMappingByCancel, ResetMapped, Closing,
                SkipCur, StopMapping
  <2>4. step' # "confirm"
    BY <1>6 DEF MapNext, KernelEnds, LayoutEnds, RebootEnds, PollTimer, EndMappingByCancel, ResetMapped, Closing,
                SkipCur, StopMapping
  <2> QED
    BY <2>1, <2>2, <2>3, <2>4, QuietLearned
<1>7. CASE LdReads
  <2>1. /\ UNCHANGED <<at, shown, told, rebooted, faults, step, locationId, port, before, found>> /\ ~listed
        /\ listing' = {d \in Device : "ld" \in shown[d]}
    BY <1>7 DEF LdReads, bench, identity
  <2>2. \A d, view : (Kept(d, view)' <=> Kept(d, view)) /\ (Dropped(d, view)' <=> Dropped(d, view))
    BY <2>1 DEF Kept, Dropped, Arrived, Left, Spent
  <2>3. Bound' = Bound /\ Ids(before)' = Ids(before) /\ before.download' = before.download
        /\ \A a \in Bound : locationId[a] \in Device /\ port[a] \in Device
    BY <1>0, <2>1 DEF Bound, Ids, Typed, ControlInv
  <2>4. \A a \in Bound : locationId[a] \in listing' \/ Dropped(locationId[a], "ld")
    BY <2>1, <2>3 DEF LearnedInv, Kept, Dropped
  <2>5. \A d \in listing' : Kept(d, "ld")
    BY <2>1 DEF DevicesInv, MayShow, Kept
  <2>6. step = "poll" => \A a \in Bound : locationId[a] \in listing' => locationId[a] \in Ids(before)
    BY <2>1 DEF LearnedInv, Dropped
  <2> QED
    BY <2>1, <2>2, <2>3, <2>4, <2>5, <2>6 DEF LearnedInv
<1>8. CASE BeforeEnds
  <2>1. /\ step = "before" /\ listed /\ ~listed' /\ UNCHANGED <<at, shown, locationId, port>>
        /\ faults' \in {faults, faults + 1}
    BY <1>0, <1>8 DEF BeforeEnds, Pictured, identity
  <2>2. CASE UNCHANGED <<told, rebooted, before>> /\ step' = "mapNext"
    BY <2>1, <2>2, QuietLearned
  <2>3. CASE /\ step' = "reboot" /\ rebooted' = rebooted \cup {cur} /\ before' = Picture
             /\ told' = [told EXCEPT ![cur] = at[cur] = "adb"] \/ UNCHANGED told
    <3>1. cur \in Board \ rebooted
      BY <2>1 DEF ControlInv
    <3>2. \A d \in Device \ {cur} : told'[d] = told[d]
      BY <1>0, <2>3 DEF Typed
    <3>3. faults \in Nat /\ faults' \in Nat /\ faults' >= faults
      BY <1>0, <2>1, Numbers DEF Typed
    <3>4. \A d \in Device, view \in {"dl", "ld"} : /\ Kept(d, view) => d # cur /\ Kept(d, view)'
                                                   /\ Dropped(d, view) => d # cur /\ Dropped(d, view)'
      BY <2>1, <2>3, <3>1, <3>2, <3>3 DEF Kept, Dropped, Arrived, Left, Spent
    <3>5. Bound' = Bound /\ \A a \in Bound : locationId[a] \in Device /\ port[a] \in Device
      BY <1>0, <2>1 DEF Bound, Typed, ControlInv
    <3>6. Ids(before)' = listing /\ before.download' = {d \in Device : "dl" \in shown[d]}
      <4>1. Ids(before)' = Ids(before')
        BY DEF Ids
      <4> QED
        BY <2>3, <4>1, PictureTyped DEF Picture
    <3>7. \A a \in Bound : /\ locationId[a] \in Ids(before)' \/ Dropped(locationId[a], "ld")
                           /\ port[a] \in before.download' \/ Dropped(port[a], "dl")
      BY <2>1, <3>5, <3>6 DEF LearnedInv, Kept, Dropped
    <3>8. \A a \in Bound : Kept(locationId[a], "ld")' /\ Kept(port[a], "dl")'
      BY <2>1, <3>4, <3>5 DEF LearnedInv
    <3>9. \A a \in Bound : /\ locationId[a] \in Ids(before)' \/ Dropped(locationId[a], "ld")'
                           /\ port[a] \in before.download' \/ Dropped(port[a], "dl")'
      BY <2>1, <3>4, <3>5, <3>7
    <3> QED
      BY <2>1, <2>3, <3>5, <3>8, <3>9 DEF LearnedInv
  <2> QED
    BY <1>8, <2>2, <2>3 DEF BeforeEnds, SkipCur, ResetMapped, Closing
<1>9. CASE PollEnds
  <2>1. /\ step = "poll" /\ listed /\ ~listed' /\ UNCHANGED <<at, shown, told, faults, rebooted, before>>
    BY <1>9 DEF PollEnds, Pictured, bench
  <2>2. CASE Compare(before, Picture) = "Mapped" /\ found' = Recognised(Picture) /\ step' = "confirm" /\ UNCHANGED identity
    <3>1. /\ Kept(found'.id, "ld") /\ Kept(found'.port, "dl")
          /\ \A a \in Bound : locationId[a] # found'.id /\ port[a] # found'.port
      BY <2>1, <2>2, PollFindsNew
    <3>2. \A d, view : (Kept(d, view)' <=> Kept(d, view)) /\ (Dropped(d, view)' <=> Dropped(d, view))
      BY <2>1 DEF Kept, Dropped, Arrived, Left, Spent
    <3>3. Bound' = Bound /\ Ids(before)' = Ids(before) /\ UNCHANGED <<locationId, port>>
      BY <2>1, <2>2 DEF Bound, Ids, identity
    <3>4. Kept(found.id, "ld")' /\ Kept(found.port, "dl")'
      BY <2>1, <3>1 DEF Kept, Arrived, Left, Spent
    <3> QED
      BY <2>1, <2>2, <3>1, <3>2, <3>3, <3>4 DEF LearnedInv
  <2>3. CASE /\ Compare(before, Picture) = "Maskrom" /\ step' = "mapNext"
             /\ port' = [port EXCEPT ![cur] = Recognised(Picture).port]
             /\ locationId' = [locationId EXCEPT ![cur] = Recognised(Picture).id]
    BY <2>1, <2>3, PollFindsNew, BindsLearned
  <2>4. CASE step' \in {"pollWait", "mapNext"} /\ UNCHANGED identity
    BY <2>1, <2>4, QuietLearned DEF identity
  <2> QED
    BY <1>9, <2>2, <2>3, <2>4 DEF PollEnds, StopMapping, ResetMapped, Closing
<1>10. CASE PollFails
  BY <1>10 DEF PollFails, StopMapping, ResetMapped, Closing
<1>11. CASE ConfirmEnds
  <2>1. /\ step = "confirm" /\ step' = "mapNext" /\ UNCHANGED <<at, shown, told, faults, rebooted>>
        /\ port' = [port EXCEPT ![cur] = found.port] /\ locationId' = [locationId EXCEPT ![cur] = found.id]
    BY <1>11 DEF ConfirmEnds, StopMapping, ResetMapped, Closing
  <2>2. found.id \in Device /\ found.port \in Device
    BY <2>1 DEF ControlInv
  <2> QED
    BY <2>1, <2>2, BindsLearned DEF LearnedInv
<1>12. CASE ReconcileEnds
  <2>1. /\ step = "reconcile" /\ step' = "writing"
        /\ UNCHANGED <<at, shown, told, faults, rebooted, locationId, port, before>>
    BY <1>12 DEF ReconcileEnds, Pictured, EndMappingByCancel, StopMapping, ResetMapped, Closing, identity
  <2> QED
    BY <2>1, QuietLearned
<1>13. CASE ClosingEnds \/ \E b \in Board : RdEnds(b)
  BY <1>13 DEF ClosingEnds, Pictured, RdEnds
<1>14. CASE WaitElapses \/ Cancel
  <2>1. /\ UNCHANGED <<at, shown, rebooted, step, locationId, port, before, listed, listing, found>>
        /\ faults' \in {faults, faults + 1} /\ (told' = [told EXCEPT ![cur] = Late /\ @] \/ UNCHANGED told)
    BY <1>0, <1>14 DEF WaitElapses, Cancel, bench, identity, pictures
  <2>2. \A d \in Device : told'[d] => told[d]
    BY <1>0, <2>1, MappingAssumption DEF Typed
  <2> QED
    BY <2>1, <2>2, QuietLearned
<1> QED
  BY <1>4, <1>5, <1>6, <1>7, <1>8, <1>9, <1>10, <1>11, <1>12, <1>13, <1>14 DEF RunStep

LEMMA RunNotShared ==
    ASSUME TypeOK, ControlInv, step \notin EndSteps => DevicesInv,
           step \in MapSteps => LearnedInv, NoSharedDevice,
           RunStep \/ WaitElapses \/ Cancel
    PROVE  NoSharedDevice'
<1> USE DEF RebootSteps, MapSteps, EndSteps
<1>0. Typed
  BY Flat
<1>1. CASE UNCHANGED <<locationId, port>>
  BY <1>1 DEF NoSharedDevice, Bound
<1>2. CASE PollEnds /\ ~UNCHANGED <<locationId, port>>
  <2>1. /\ step = "poll" /\ listed /\ UNCHANGED <<at, shown, told, faults, rebooted>>
        /\ Compare(before, Picture) = "Maskrom"
        /\ port' = [port EXCEPT ![cur] = Recognised(Picture).port]
        /\ locationId' = [locationId EXCEPT ![cur] = Recognised(Picture).id]
    BY <1>2 DEF PollEnds, Pictured, bench, identity
  <2> QED
    BY <2>1, PollFindsNew, BindsLearned
<1>3. CASE ConfirmEnds /\ ~UNCHANGED <<locationId, port>>
  <2>1. /\ step = "confirm" /\ UNCHANGED <<at, shown, told, faults, rebooted>>
        /\ port' = [port EXCEPT ![cur] = found.port] /\ locationId' = [locationId EXCEPT ![cur] = found.id]
    BY <1>3 DEF ConfirmEnds
  <2>2. found.id \in Device /\ found.port \in Device
    BY <2>1 DEF ControlInv
  <2> QED
    BY <2>1, <2>2, BindsLearned DEF LearnedInv
<1>4. CASE ClosingEnds /\ ~UNCHANGED <<locationId, port>>
  <2>1. locationId' = [b \in Board |-> NewId(b)] /\ UNCHANGED port
    BY <1>4 DEF ClosingEnds
  <2>2. CASE Paired
    <3>1. StrayIds # {} /\ Cardinality(Renumbered) = 1
      BY <2>2, OneIsSome DEF Paired
    <3>2. PICK r : Renumbered = {r}
      <4>1. IsFiniteSet(Board)
        BY MappingAssumption, FS_Interval DEF Board
      <4>2. Renumbered \subseteq Board
        BY DEF Renumbered, Bound
      <4> QED
        BY <3>1, <4>1, <4>2, FS_Subset, FS_Singleton
    <3>3. Only(StrayIds) \in StrayIds
      BY <3>1 DEF Only
    <3>4. Only(StrayIds) \notin {locationId[b] : b \in Bound}
      BY <3>3 DEF StrayIds
    <3>5. r \in Bound
      BY <3>2 DEF Renumbered
    <3>6. \A b \in Board : IF b = r /\ r \notin maskrom THEN locationId'[b] = Only(StrayIds)
                           ELSE locationId'[b] = locationId[b]
      BY <2>1, <2>2, <3>2 DEF NewId
    <3>7. Bound' \subseteq Bound
      BY <3>5, <3>6 DEF Bound
    <3> QED
      BY <2>1, <3>4, <3>5, <3>6, <3>7 DEF NoSharedDevice, Bound
  <2>3. CASE ~Paired
    BY <1>0, <2>1, <2>3 DEF NewId, NoSharedDevice, Bound, Typed
  <2> QED
    BY <2>2, <2>3
<1>5. CASE ~(PollEnds \/ ConfirmEnds \/ ClosingEnds)
  <2>1. UNCHANGED <<locationId, port>>
    BY <1>5 DEF RunStep, DevicesEnds, BaselineEnds, MapNext, KernelEnds, LayoutEnds, BeforeEnds, RebootEnds,
       LdReads, PollTimer, PollFails, ReconcileEnds, RdEnds, WaitElapses, Cancel, identity
  <2> QED
    BY <1>1, <2>1
<1> QED
  BY <1>1, <1>2, <1>3, <1>4, <1>5

\* Who is reset is bound, and what the run gives to nobody is not his.
LEMMA RunOnlyLearned ==
    ASSUME TypeOK, ControlInv, ControlInv', step \notin EndSteps => DevicesInv,
           step \in MapSteps => LearnedInv, OnlyLearnedIdsReset,
           RunStep \/ WaitElapses \/ Cancel
    PROVE  OnlyLearnedIdsReset'
<1> USE DEF StartSteps, OwnSteps, RebootSteps, MapSteps, EndSteps
<1>0. Typed
  BY Flat
<1>1. ASSUME NEW b \in Board, stage'[b] = "Resetting"
      PROVE  locationId'[b] \notin Ids(baseline)' \cup {Nothing} /\ step' = "resets"
  <2>1. locationId'[b] # Nothing /\ b \in rebooted' /\ step' = "resets"
    BY <1>1 DEF ControlInv, Bound
  <2>2. Ids(baseline)' = {}
    BY <2>1 DEF ControlInv
  <2> QED
    BY <2>1, <2>2
<1>2. SUFFICES ASSUME step' = "resets", NEW b \in Board, stage'[b] = "Resetting"
               PROVE  locationId'[b] \notin unattributed'
  BY <1>1 DEF OnlyLearnedIdsReset
<1>3. b \in Board /\ InLoader \subseteq Bound /\ InLoader \subseteq Board
  BY DEF ControlInv, InLoader
<1>4. CASE UNCHANGED unattributed /\ step \in MapSteps
  BY <1>4 DEF ControlInv
<1>5. CASE /\ UNCHANGED locationId
           /\ ResetMapped(InLoader, cur) \/ ResetMapped(InLoader, Nothing)
           /\ \A a \in InLoader : locationId[a] \notin unattributed'
  <2>1. b \in InLoader
    BY <1>2, <1>5 DEF ResetMapped
  <2> QED
    BY <1>5, <2>1
<1>6. CASE DevicesEnds \/ BaselineEnds
  BY <1>2, <1>6 DEF DevicesEnds, BaselineEnds, Refuse
<1>7. CASE MapNext \/ KernelEnds \/ LayoutEnds \/ BeforeEnds
  <2>1. unattributed' = unattributed /\ step \in MapSteps
    BY <1>7 DEF MapNext, KernelEnds, LayoutEnds, BeforeEnds, Pictured, EndMappingByCancel, SkipCur, StopMapping
  <2> QED
    BY <1>4, <2>1
<1>8. CASE RebootEnds \/ PollTimer
  BY <1>2, <1>8 DEF RebootEnds, PollTimer
<1>9. CASE PollEnds
  <2>1. step = "poll" /\ listed
    BY <1>9 DEF PollEnds, Pictured
  <2>2. CASE UNCHANGED unattributed
    BY <1>4, <2>1, <2>2
  <2>3. CASE (StopMapping(cur, NewIds(before, Picture)) \/ StopMapping(cur, {})) /\ UNCHANGED identity
    <3>1. \A a \in InLoader : locationId[a] \notin NewIds(before, Picture)
      BY <1>3, <2>1, PollFindsNew
    <3>2. unattributed = {}
      BY <2>1 DEF ControlInv
    <3> QED
      BY <1>5, <2>1, <2>3, <3>1, <3>2 DEF StopMapping, identity
  <2> QED
    BY <1>9, <2>2, <2>3 DEF PollEnds
<1>10. CASE PollFails
  <2>1. step = "poll" /\ unattributed' = unattributed
    BY <1>10 DEF PollFails, Pictured, StopMapping
  <2> QED
    BY <1>4, <2>1
<1>11. CASE ConfirmEnds
  <2>1. step = "confirm" /\ unattributed = {}
    BY <1>11 DEF ConfirmEnds, ControlInv
  <2>2. CASE UNCHANGED unattributed
    BY <1>4, <2>1, <2>2
  <2>3. CASE StopMapping(cur, {found.id}) /\ UNCHANGED <<port, locationId>>
    <3>1. \A a \in InLoader : locationId[a] # found.id
      BY <1>3, <2>1 DEF LearnedInv
    <3> QED
      BY <1>5, <2>1, <2>3, <3>1 DEF StopMapping
  <2> QED
    BY <1>11, <2>2, <2>3 DEF ConfirmEnds
<1>12. CASE ReconcileEnds
  <2>1. step = "reconcile" /\ unattributed = {} /\ UNCHANGED identity
    BY <1>12 DEF ReconcileEnds, Pictured, ControlInv
  <2>2. CASE UNCHANGED unattributed
    BY <1>4, <2>1, <2>2
  <2>3. CASE StopMapping(Nothing, LateIds)
    <3>1. \A a \in InLoader : locationId[a] \notin LateIds
      BY DEF LateIds, Known
    <3> QED
      BY <1>5, <2>1, <2>3, <3>1 DEF StopMapping, identity
  <2>4. CASE StopMapping(Nothing, {})
    BY <2>2, <2>4 DEF StopMapping
  <2> QED
    BY <1>12, <2>2, <2>3, <2>4 DEF ReconcileEnds, EndMappingByCancel
<1>13. CASE \E a \in Board : RdEnds(a)
  <2>1. PICK a \in Board : RdEnds(a)
    BY <1>13
  <2>2. UNCHANGED <<locationId, unattributed>> /\ stage' = [stage EXCEPT ![a] = "Finished"]
    BY <2>1 DEF RdEnds, identity, EndBoard
  <2>3. stage[b] = "Resetting"
    BY <1>0, <1>2, <2>2 DEF Typed
  <2> QED
    BY <2>2, <2>3 DEF OnlyLearnedIdsReset
<1>14. CASE ClosingEnds
  BY <1>2, <1>14 DEF ClosingEnds
<1>15. CASE LdReads \/ WaitElapses \/ Cancel
  <2>1. UNCHANGED <<locationId, unattributed, stage>>
    BY <1>15 DEF LdReads, WaitElapses, Cancel, identity, endings
  <2> QED
    BY <1>2, <2>1 DEF OnlyLearnedIdsReset
<1> QED
  BY <1>6, <1>7, <1>8, <1>9, <1>10, <1>11, <1>12, <1>13, <1>14, <1>15 DEF RunStep

-----------------------------------------------------------------------------
(* Identities: theorems.                                                   *)

IdInv ==
    /\ TypeOK /\ ListedInv /\ ControlInv
    /\ step \notin EndSteps => DevicesInv
    /\ step \in MapSteps => LearnedInv
    /\ NoSharedDevice
    /\ OnlyLearnedIdsReset

LEMMA InitIdInv == Init => IdInv
<1> SUFFICES ASSUME Init PROVE IdInv
  OBVIOUS
<1>1. step = "devices" /\ rebooted = {} /\ faults = 0 /\ ~listed /\ Bound = {}
  BY DEF Init, Bound
<1>2. \A d \in Device : ~told[d] /\ at[d] \in {"adb", "loader"} /\ shown[d] = Truth(at[d]) /\ (d \in Board => at[d] = "adb")
  BY DEF Init
<1>3. DevicesInv
  BY <1>1, <1>2, Numbers DEF DevicesInv, Untouched, Truth, MapSteps, OwnSteps, RebootSteps
<1>4. NoSharedDevice /\ ListedInv
  BY <1>1 DEF NoSharedDevice, ListedInv
<1>5. OnlyLearnedIdsReset
  BY DEF Init, OnlyLearnedIdsReset
<1> QED
  BY <1>1, <1>3, <1>4, <1>5, InitTypeOK, InitControl DEF IdInv, MapSteps, OwnSteps, RebootSteps

LEMMA NextIdInv ==
    ASSUME FewMoves, IdInv, [Next]_vars
    PROVE  IdInv'
<1> USE DEF IdInv
<1>1. CASE BenchMove
  <2>1. UNCHANGED <<step, rebooted, locationId, port, stage, unattributed, baseline, listed>>
    BY <1>1, BenchFrame DEF RestOfRun, identity, endings, pictures
  <2>2. NoSharedDevice' /\ OnlyLearnedIdsReset' /\ ListedInv'
    BY <2>1 DEF NoSharedDevice, OnlyLearnedIdsReset, Bound, Ids, ListedInv
  <2> QED
    BY <1>1, <2>1, <2>2, BenchTyped, BenchControl, BenchDevices, BenchLearned
<1>2. CASE RunStep \/ WaitElapses \/ Cancel
  <2>1. TypeOK'
    <3>1. step \in {"before", "poll", "confirm"} => cur \in Board
      BY Flat DEF ControlInv, OwnSteps, RebootSteps, Typed
    <3>2. step = "confirm" => found \in [port : Device, id : Device]
      BY DEF ControlInv
    <3> QED
      BY <1>2, <3>1, <3>2, RunTyped
  <2>2. ControlInv' /\ ListedInv'
    BY <1>2, RunControl, RunListed
  <2>3. NoSharedDevice' /\ OnlyLearnedIdsReset'
    BY <1>2, <2>2, RunNotShared, RunOnlyLearned
  <2>4. step' \notin EndSteps => DevicesInv'
    <3>1. step \in EndSteps => step' \in EndSteps
      BY <1>2 DEF RunStep, DevicesEnds, BaselineEnds, MapNext, KernelEnds, LayoutEnds, BeforeEnds, RebootEnds,
         LdReads, PollTimer, PollEnds, PollFails, ConfirmEnds, ReconcileEnds, ClosingEnds, RdEnds, WaitElapses,
         Cancel, Pictured, EndSteps, Snapshots, Idle
    <3> QED
      BY <1>2, <2>1, <3>1, RunDevices
  <2>5. step' \in MapSteps => LearnedInv'
    BY <1>2, <2>2, RunLearned
  <2> QED
    BY <2>1, <2>2, <2>3, <2>4, <2>5
<1>3. CASE UNCHANGED vars
  <2>1. UNCHANGED <<at, shown, told, faults, step, cur, listed, listing, before, baseline, found, waitOver, draining,
                    stopped, stage, result, candidate, dry, rebooted, layout, port, locationId, maskrom,
                    resetOnly, resetOk, leftInLoader, unattributed>>
    BY <1>3 DEF vars, bench, pictures, identity, endings, selection, resets
  <2>2. TypeOK' /\ ListedInv' /\ ControlInv'
    BY <2>1, Flat DEF Typed, ListedInv, ControlInv, Bound, Ids
  <2>3. (step \notin EndSteps => DevicesInv)' /\ (step \in MapSteps => LearnedInv)'
    BY <2>1 DEF DevicesInv, LearnedInv, Bound, Ids, Kept, Dropped, MayShow, Arrived, Left, Spent, Untouched
  <2>4. NoSharedDevice' /\ OnlyLearnedIdsReset'
    BY <2>1 DEF NoSharedDevice, OnlyLearnedIdsReset, Bound, Ids
  <2> QED
    BY <2>2, <2>3, <2>4
<1> QED
  BY <1>1, <1>2, <1>3 DEF Next, BenchMove, Finished

\* The pictures of a mapping are ones compare() decides.
LEMMA TableAlwaysAgrees ==
    ASSUME TypeOK
    PROVE  TableDecides
<1>1. before \in Snapshot /\ Picture \in Snapshot
  BY Flat, PictureTyped DEF Typed
<1> QED
  BY <1>1, CompareIsTheTable DEF TableDecides

LEMMA NextBase ==
    ASSUME TypeOK, ControlInv, [Next]_vars
    PROVE  TypeOK' /\ ControlInv'
<1>1. CASE BenchMove
  BY <1>1, BenchTyped, BenchControl
<1>2. CASE RunStep \/ WaitElapses \/ Cancel
  <2>1. step \in {"before", "poll", "confirm"} => cur \in Board
    BY Flat DEF ControlInv, OwnSteps, RebootSteps, Typed
  <2>2. step = "confirm" => found \in [port : Device, id : Device]
    BY DEF ControlInv
  <2> QED
    BY <1>2, <2>1, <2>2, RunTyped, RunControl
<1>3. CASE UNCHANGED vars
  <2>1. UNCHANGED <<at, shown, told, faults, step, cur, listed, listing, before, baseline, found, waitOver, draining,
                    stopped, stage, result, candidate, dry, rebooted, layout, port, locationId, maskrom,
                    resetOnly, resetOk, leftInLoader, unattributed>>
    BY <1>3 DEF vars, bench, pictures, identity, endings, selection, resets
  <2> QED
    BY <2>1, Flat DEF Typed, ControlInv, Bound, Ids
<1> QED
  BY <1>1, <1>2, <1>3 DEF Next, BenchMove, Finished

THEOREM Base == Spec => [](TypeOK /\ ControlInv)
  BY InitTypeOK, InitControl, NextBase, PTL DEF Spec

\* Whatever a mapping meets, compare() decides every pair of pictures as the
\* table of FleetFlasher.h does, and a board is only rebooted by a real run, next
\* to no device that was in a download mode before (onBaseline()).
THEOREM CleanBench == Spec => [](TableDecides /\ RebootsOnCleanBench)
<1>1. TypeOK /\ ControlInv => TableDecides /\ RebootsOnCleanBench
  BY TableAlwaysAgrees DEF ControlInv, RebootsOnCleanBench
<1> QED
  BY <1>1, Base, PTL

\* Where no device enters a download mode twice, what a board is addressed by was
\* learned for it alone, and only a learned LocationID is reset
\* (FleetFlasher::poll(), confirmMapped(), reconcile(), stopMapping()).
THEOREM IdentityStaysLearned ==
    ASSUME FewMoves
    PROVE  Spec => []IdentityIsLearned
<1>1. IdInv => IdentityIsLearned
  BY TableAlwaysAgrees DEF IdInv, ControlInv, RebootsOnCleanBench, IdentityIsLearned
<1>2. IdInv /\ [Next]_vars => IdInv'
  BY NextIdInv
<1> QED
  BY <1>1, <1>2, InitIdInv, PTL DEF Spec

-----------------------------------------------------------------------------
(* A healthy bench.                                                        *)

\* Nothing has failed, nobody else moved a device, every board came up in
\* Loader mode with a layout of the plan's.
Healthy ==
    /\ faults = 0 /\ maskrom = {}
    /\ \A b \in Board : layout[b] \in {"unread", "ok"}
    /\ \A d \in Device : at[d] # "maskrom"

OnAdb(d) == at[d] = "adb" /\ ~told[d] /\ shown[d] = {"adb"}
InLoaderMode(d) == at[d] = "loader" /\ ~told[d] /\ shown[d] = {"dl", "ld"}
MappedRight(b) == InLoaderMode(b) /\ stage[b] = "Loader" /\ port[b] = b /\ locationId[b] = b

\* The board that has been told to reboot.
OnItsWay(b) ==
    /\ port[b] = Nothing /\ locationId[b] = Nothing
    /\ \/ at[b] = "adb" /\ told[b] /\ shown[b] = {"adb"}
       \/ at[b] = "away" /\ told[b] /\ shown[b] \subseteq {"adb"}
       \/ at[b] = "loader" /\ ~told[b]
    /\ step = "confirm" => InLoaderMode(b) /\ found = [port |-> b, id |-> b]

BoardsInv ==
    /\ \A s \in Device \ Board : OnAdb(s) \/ (InLoaderMode(s) /\ step \notin MapSteps /\ rebooted = {})
    /\ \A b \in Board \ rebooted : OnAdb(b) /\ port[b] = Nothing /\ locationId[b] = Nothing
    /\ \A b \in rebooted : IF step \in RebootSteps /\ b = cur THEN OnItsWay(b) ELSE MappedRight(b)

\* What the pictures show of the others is what the views still show.
PicturesInv ==
    /\ step \in RebootSteps =>
          /\ cur \in before.adb /\ cur \notin before.download /\ cur \notin Ids(before)
          /\ \A d \in Device \ {cur} : /\ d \in before.adb <=> "adb" \in shown[d]
                                       /\ d \in before.download <=> "dl" \in shown[d]
                                       /\ d \in Ids(before) <=> "ld" \in shown[d]
    /\ listed => \A d \in Device : IF step = "poll" /\ d = cur
                                   THEN d \in listing => at[d] = "loader" /\ "ld" \in shown[d]
                                   ELSE d \in listing <=> "ld" \in shown[d]

\* Nobody is left out.
OrderInv ==
    /\ rebooted \subseteq candidate
    /\ step \in OwnSteps => cur \in candidate
    /\ step \in MapSteps =>
          /\ \A b \in Board \ rebooted : stage[b] # "Loader"
          /\ ~draining => \A b \in candidate \ rebooted :
                             stage[b] = "Selected" /\ (b > cur \/ (b = cur /\ step \in OwnSteps))
    /\ step \in {"reconcile", "writing"} => rebooted = candidate

\* The boards are being reset, with their own addresses.
EndInv ==
    /\ \A d \in Device : ~told[d]
    /\ \A b \in Board : locationId[b] \in {Nothing, b} /\ port[b] = locationId[b]
    /\ step \in {"resets", "closing"} => \A d \in Device \ Bound : at[d] # "loader" /\ "ld" \notin shown[d]
    /\ step = "closing" /\ listed => listing \subseteq Bound

HealthInv ==
    /\ ~stopped /\ ~waitOver
    /\ step \notin EndSteps => BoardsInv /\ PicturesInv /\ OrderInv
    /\ step \in EndSteps => EndInv

\* A layout is read once.
ReadOnce == \A b \in Board : b > cur \/ (b = cur /\ step \in {"kernel", "layout"}) => layout[b] = "unread"

LEMMA RunReadOnce ==
    ASSUME TypeOK, ReadOnce, RunStep \/ WaitElapses \/ Cancel
    PROVE  ReadOnce'
<1>0. Typed
  BY Flat
<1>1. CASE MapNext
  <2>1. UNCHANGED layout /\ (cur' = cur \/ cur' \in Later)
    BY <1>0, <1>1, NextBoard DEF MapNext, Typed
  <2>2. cur' \in Nat /\ cur \in Nat /\ cur' >= cur /\ (cur' = cur => step' \notin {"kernel", "layout"})
    <3>1. step' \notin {"kernel", "layout"} \/ cur' \in Later
      BY <1>0, <1>1, NextBoard DEF MapNext, EndMappingByCancel, ResetMapped, Closing, Typed
    <3>2. cur \in Nat
      BY <1>0, Numbers DEF Typed, Nothing
    <3>3. cur' \in Later => cur' \in Nat /\ cur' > cur
      BY <1>0, Numbers DEF Later, Typed
    <3> QED
      BY <2>1, <3>1, <3>2, <3>3
  <2>3. \A b \in Board : b \in Nat
    BY Numbers
  <2> QED
    BY <2>1, <2>2, <2>3 DEF ReadOnce
<1>2. CASE LayoutEnds
  <2>1. UNCHANGED cur /\ step' \notin {"kernel", "layout"} /\ \A b \in Board \ {cur} : layout'[b] = layout[b]
    BY <1>0, <1>2 DEF LayoutEnds, StopMapping, ResetMapped, Closing, SkipCur, Typed
  <2>2. \A b \in Board : ~(b > b)
    BY Numbers
  <2> QED
    BY <2>1, <2>2 DEF ReadOnce
<1>3. CASE ~MapNext /\ ~LayoutEnds
  <2>1. UNCHANGED <<cur, layout>> /\ (step' \in {"kernel", "layout"} => step \in {"kernel", "layout"})
    BY <1>3 DEF RunStep, DevicesEnds, BaselineEnds, KernelEnds, BeforeEnds, RebootEnds, LdReads, PollTimer,
       PollEnds, PollFails, ConfirmEnds, ReconcileEnds, ClosingEnds, RdEnds, WaitElapses, Cancel, Pictured,
       Refuse, SkipCur, StopMapping, EndMappingByCancel, ResetMapped, Closing
  <2> QED
    BY <2>1 DEF ReadOnce
<1> QED
  BY <1>1, <1>2, <1>3

\* What was not healthy never is again.
LEMMA HealthyBefore ==
    ASSUME TypeOK, ReadOnce, [Next]_vars, Healthy'
    PROVE  Healthy /\ faults' = faults
<1>0. Typed /\ faults \in Nat /\ faults' = 0
  BY Flat, Numbers DEF Typed, Healthy
<1>1. CASE BenchMove
  <2>1. PICK d \in Device : Moved(d)
    BY <1>1, OneMoves
  <2>2. UNCHANGED <<maskrom, layout>>
    BY <1>1, BenchFrame DEF RestOfRun, identity
  <2>3. faults = 0
    BY <1>0, <2>1 DEF Moved
  <2>4. \A e \in Device : at[e] # "maskrom"
    BY <2>1 DEF Moved, Healthy, Leaves, Enters, Returns, Settles, Obeys, Drops
  <2> QED
    BY <1>0, <2>2, <2>3, <2>4 DEF Healthy
<1>2. CASE RunStep \/ WaitElapses \/ Cancel
  <2>1. faults' = faults \/ faults' = faults + 1
    BY <1>2 DEF RunStep, DevicesEnds, BaselineEnds, MapNext, KernelEnds, LayoutEnds, BeforeEnds, RebootEnds,
       LdReads, PollTimer, PollEnds, PollFails, ConfirmEnds, ReconcileEnds, ClosingEnds, RdEnds, WaitElapses,
       Cancel, bench, Fault
  <2>2. maskrom \subseteq maskrom'
    BY <1>2 DEF RunStep, DevicesEnds, BaselineEnds, MapNext, KernelEnds, LayoutEnds, BeforeEnds, RebootEnds,
       LdReads, PollTimer, PollEnds, PollFails, ConfirmEnds, ReconcileEnds, ClosingEnds, RdEnds, WaitElapses,
       Cancel, identity
  <2>3. \A d \in Device : at[d] = "maskrom" => at'[d] = "maskrom"
    <3>1. CASE \E b \in Board : RdEnds(b)
      BY <1>0, <3>1 DEF RdEnds, Moves, Typed
    <3>2. CASE UNCHANGED at
      BY <3>2
    <3>3. (\E b \in Board : RdEnds(b)) \/ UNCHANGED at
      BY <1>2 DEF RunStep, DevicesEnds, BaselineEnds, MapNext, KernelEnds, LayoutEnds, BeforeEnds, RebootEnds,
         LdReads, PollTimer, PollEnds, PollFails, ConfirmEnds, ReconcileEnds, ClosingEnds, WaitElapses, Cancel,
         bench
    <3> QED
      BY <3>1, <3>2, <3>3
  <2>4. \A b \in Board : layout'[b] # layout[b] => layout[b] = "unread"
    <3>1. CASE LayoutEnds
      <4>1. step = "layout" /\ \A b \in Board \ {cur} : layout'[b] = layout[b]
        BY <1>0, <3>1 DEF LayoutEnds, Typed
      <4> QED
        BY <4>1 DEF ReadOnce
    <3>2. UNCHANGED layout \/ LayoutEnds
      BY <1>2 DEF RunStep, DevicesEnds, BaselineEnds, MapNext, KernelEnds, BeforeEnds, RebootEnds, LdReads,
         PollTimer, PollEnds, PollFails, ConfirmEnds, ReconcileEnds, ClosingEnds, RdEnds, WaitElapses, Cancel
    <3> QED
      BY <3>1, <3>2
  <2> QED
    BY <1>0, <2>1, <2>2, <2>3, <2>4 DEF Healthy
<1>3. CASE UNCHANGED vars
  BY <1>0, <1>3 DEF vars, bench, identity, Healthy
<1> QED
  BY <1>1, <1>2, <1>3 DEF Next, BenchMove, Finished

\* What a poll can answer when only one device moved, and that device was an
\* ADB gadget before.
LEMMA PollVerdict ==
    ASSUME NEW b, NEW a, NEW c, c \in b.adb,
           Vanished(b, a) \subseteq {c}, Appeared(b, a) \subseteq {c}, NewIds(b, a) \subseteq {c}
    PROVE  /\ Compare(b, a) \in Pending \cup {"Mapped", "Maskrom"}
           /\ Compare(b, a) = "Mapped" => /\ Vanished(b, a) = {c} /\ Appeared(b, a) = {c}
                                          /\ NewIds(b, a) = {c}
           /\ Compare(b, a) = "Maskrom" => c \in a.maskrom
<1>1. ~Several(Vanished(b, a)) /\ ~Several(Appeared(b, a)) /\ ~Several(NewIds(b, a))
  BY DEF Several
<1>2. CASE Vanished(b, a) = {}
  <2>1. c \in a.adb
    BY <1>2 DEF Vanished
  <2> QED
    BY <1>1, <1>2, <2>1 DEF Compare, CompareNobodyLeft, Pending
<1>3. CASE Vanished(b, a) = {c}
  BY <1>1, <1>3 DEF Compare, CompareLeft, Pending
<1> QED
  BY <1>2, <1>3

\* The mapping is over: every device is at rest, and every board that was
\* rebooted is the one its address names.
LEMMA ToEnd ==
    ASSUME TypeOK, BoardsInv, ~stopped', ~waitOver', ~listed',
           step \in MapSteps \ RebootSteps \/ (step \in StartSteps /\ step' = "done"),
           step' \in EndSteps, UNCHANGED <<at, shown, told, locationId, port>>
    PROVE  HealthInv'
<1> USE DEF StartSteps, MapSteps, OwnSteps, RebootSteps, EndSteps
<1>1. \A b \in Board : (OnAdb(b) /\ port[b] = Nothing /\ locationId[b] = Nothing) \/ MappedRight(b)
  BY DEF BoardsInv
<1>2. \A s \in Device \ Board : OnAdb(s) \/ (InLoaderMode(s) /\ step' = "done")
  BY DEF BoardsInv
<1>3. \A d \in Device : ~told'[d]
  BY <1>1, <1>2 DEF OnAdb, InLoaderMode, MappedRight
<1>4. \A b \in Board : locationId'[b] \in {Nothing, b} /\ port'[b] = locationId'[b]
  BY <1>1 DEF MappedRight
<1>5. ASSUME step' \in {"resets", "closing"}, NEW d \in Device \ Bound'
      PROVE  at'[d] # "loader" /\ "ld" \notin shown'[d]
  <2>1. OnAdb(d)
    <3>1. CASE d \in Board
      <4>1. locationId[d] = Nothing
        BY <1>5, <3>1 DEF Bound
      <4>2. ~MappedRight(d)
        BY <3>1, <4>1, Numbers DEF MappedRight
      <4> QED
        BY <1>1, <3>1, <4>2
    <3>2. CASE d \notin Board
      BY <1>2, <1>5, <3>2
    <3> QED
      BY <3>1, <3>2
  <2> QED
    BY <2>1 DEF OnAdb
<1> QED
  BY <1>3, <1>4, <1>5 DEF HealthInv, EndInv

\* A step that leaves the bench alone, reboots nobody and binds nobody.
LEMMA QuietBoards ==
    ASSUME TypeOK, BoardsInv,
           UNCHANGED <<at, shown, told, rebooted, port, locationId>>,
           \A b \in rebooted : stage'[b] = stage[b],
           step' \in MapSteps => step \in MapSteps \/ \A s \in Device \ Board : OnAdb(s),
           \/ step \notin RebootSteps /\ step' \notin RebootSteps
           \/ /\ step \in RebootSteps /\ step' \in RebootSteps /\ cur' = cur
              /\ step' = "confirm" => step = "confirm" /\ found' = found
    PROVE  BoardsInv'
<1>1. \A d \in Device : (OnAdb(d) => OnAdb(d)') /\ (InLoaderMode(d) => InLoaderMode(d)')
  BY DEF OnAdb, InLoaderMode
<1>2. \A b \in rebooted : b \in Device /\ (MappedRight(b) => MappedRight(b)') 
  BY <1>1, Flat, Numbers DEF MappedRight, Typed
<1>3. \A s \in Device \ Board : OnAdb(s)' \/ (InLoaderMode(s)' /\ step' \notin MapSteps /\ rebooted' = {})
  BY <1>1 DEF BoardsInv
<1>4. \A b \in Board \ rebooted' : OnAdb(b)' /\ port'[b] = Nothing /\ locationId'[b] = Nothing
  BY <1>1, Numbers DEF BoardsInv
<1>5. \A b \in rebooted' : IF step' \in RebootSteps /\ b = cur' THEN OnItsWay(b)' ELSE MappedRight(b)'
  <2>1. CASE step \notin RebootSteps /\ step' \notin RebootSteps
    BY <1>2, <2>1 DEF BoardsInv
  <2>2. CASE /\ step \in RebootSteps /\ step' \in RebootSteps /\ cur' = cur
             /\ step' = "confirm" => step = "confirm" /\ found' = found
    <3>1. \A b \in rebooted : OnItsWay(b) => OnItsWay(b)'
      BY <1>1, <1>2, <2>2 DEF OnItsWay
    <3> QED
      BY <1>2, <2>2, <3>1 DEF BoardsInv
  <2> QED
    BY <2>1, <2>2
<1> QED
  BY <1>3, <1>4, <1>5 DEF BoardsInv

\* A step that takes no picture.
LEMMA QuietPictures ==
    ASSUME PicturesInv, UNCHANGED <<at, shown>>,
           step' \in RebootSteps => step \in RebootSteps /\ cur' = cur /\ before' = before,
           listed' => listed /\ UNCHANGED <<listing, step, cur>>
    PROVE  PicturesInv'
<1>1. before' = before => Ids(before') = Ids(before)
  OBVIOUS
<1>2. Ids(before)' = Ids(before')
  BY DEF Ids
<1> QED
  BY <1>1, <1>2 DEF PicturesInv

\* A device at rest on a healthy bench stays where it is.
LEMMA RestStays ==
    ASSUME TypeOK, NEW d \in Device, Moved(d), faults' = faults, OnAdb(d) \/ InLoaderMode(d)
    PROVE  at'[d] = at[d] /\ shown'[d] = shown[d] /\ told'[d] = told[d]
<1>1. faults \in Nat
  BY Flat, Numbers DEF Typed
<1>2. Settles(d)
  BY <1>1 DEF Moved, OnAdb, InLoaderMode, Leaves, Enters, Returns
<1> QED
  BY <1>2 DEF Settles, Truth, OnAdb, InLoaderMode

LEMMA BenchHealth ==
    ASSUME TypeOK, ControlInv, ListedInv, Healthy, Healthy', HealthInv, faults' = faults, BenchMove
    PROVE  HealthInv'
<1> USE DEF StartSteps, MapSteps, OwnSteps, RebootSteps, EndSteps
<1>0. Typed /\ Typed'
  BY Flat, BenchTyped
<1>1. PICK e \in Device : Moved(e)
  BY OneMoves
<1>2. UNCHANGED <<step, cur, listed, listing, before, found, waitOver, draining, stopped, stage, candidate,
                  rebooted, port, locationId>>
  BY BenchFrame DEF RestOfRun, pictures, endings, selection, identity
<1>3. \A d \in Device \ {e} : at'[d] = at[d] /\ shown'[d] = shown[d] /\ told'[d] = told[d]
  BY <1>1 DEF Moved
<1>4. Leaves(e) \/ Enters(e) \/ Returns(e) \/ Settles(e)
  <2>1. faults \in Nat
    BY <1>0, Numbers DEF Typed
  <2> QED
    BY <1>1, <2>1 DEF Moved
<1>5. CASE step \in EndSteps
  <2>1. EndInv
    BY <1>5 DEF HealthInv
  <2>2. Returns(e) \/ Settles(e)
    BY <1>4, <2>1 DEF EndInv, Leaves, Enters
  <2>3. \A d \in Device : ~told'[d]
    BY <1>3, <2>1, <2>2 DEF EndInv, Returns, Settles
  <2>4. ASSUME at[e] # "loader", "ld" \notin shown[e]
        PROVE  at'[e] # "loader" /\ "ld" \notin shown'[e]
    BY <2>2, <2>4 DEF Returns, Settles, Truth, Healthy
  <2>5. EndInv'
    BY <1>2, <1>3, <2>1, <2>3, <2>4 DEF EndInv, Bound
  <2> QED
    BY <1>2, <1>5, <2>5 DEF HealthInv
<1>6. CASE step \notin EndSteps
  <2>1. BoardsInv /\ PicturesInv /\ OrderInv
    BY <1>6 DEF HealthInv
  <2>2. OrderInv'
    BY <1>2, <2>1 DEF OrderInv
  <2>3. ASSUME OnAdb(e) \/ InLoaderMode(e)
        PROVE  BoardsInv' /\ PicturesInv'
    <3>1. \A d \in Device : at'[d] = at[d] /\ shown'[d] = shown[d] /\ told'[d] = told[d]
      BY <1>1, <1>3, <2>3, RestStays
    <3>2. UNCHANGED <<at, shown, told>>
      BY <1>0, <3>1 DEF Typed
    <3>3. BoardsInv'
      BY <1>2, <2>1, <3>2, QuietBoards
    <3>4. PicturesInv'
      BY <1>2, <2>1, <3>2, QuietPictures
    <3> QED
      BY <3>3, <3>4
  <2>4. ASSUME ~(OnAdb(e) \/ InLoaderMode(e))
        PROVE  BoardsInv' /\ PicturesInv'
    <3>1. step \in RebootSteps /\ e = cur /\ cur \in rebooted /\ OnItsWay(cur) /\ step # "confirm"
      BY <1>0, <2>1, <2>4, Numbers DEF BoardsInv, MappedRight, OnItsWay, ControlInv, Typed
    <3>2. at[cur] \in {"adb", "away", "loader"} /\ at'[cur] # "maskrom"
      BY <3>1 DEF OnItsWay, Healthy
    <3>3. OnItsWay(cur)'
      <4>1. CASE Leaves(cur)
        BY <1>2, <3>1, <4>1 DEF OnItsWay, Leaves
      <4>2. CASE Enters(cur)
        BY <1>2, <3>1, <3>2, <4>2 DEF OnItsWay, Enters
      <4>3. CASE Settles(cur)
        BY <1>2, <3>1, <4>3 DEF OnItsWay, Settles, Truth
      <4> QED
        BY <1>4, <3>1, <3>2, <4>1, <4>2, <4>3 DEF Returns
    <3>4. at[cur] = "loader" /\ "ld" \in shown[cur] => at'[cur] = "loader" /\ "ld" \in shown'[cur]
      BY <1>4, <3>1, <3>2 DEF Leaves, Enters, Returns, Settles, Truth
    <3>5. BoardsInv'
      <4>1. \A d \in Device : d # cur => at'[d] = at[d] /\ shown'[d] = shown[d] /\ told'[d] = told[d]
        BY <1>3, <3>1
      <4>2. \A b \in Board : b # cur /\ MappedRight(b) => MappedRight(b)'
        BY <1>2, <4>1, Numbers DEF MappedRight, InLoaderMode
      <4>3. cur \in Board /\ rebooted \subseteq Board
        BY <1>0, <3>1 DEF Typed
      <4>4. \A s \in Device \ Board : OnAdb(s)' \/ (InLoaderMode(s)' /\ step' \notin MapSteps /\ rebooted' = {})
        BY <1>2, <2>1, <4>1, <4>3 DEF BoardsInv, OnAdb, InLoaderMode
      <4>5. \A b \in Board \ rebooted' : OnAdb(b)' /\ port'[b] = Nothing /\ locationId'[b] = Nothing
        BY <1>2, <2>1, <3>1, <4>1, Numbers DEF BoardsInv, OnAdb
      <4>6. \A b \in rebooted' : IF step' \in RebootSteps /\ b = cur' THEN OnItsWay(b)' ELSE MappedRight(b)'
        <5> TAKE b \in rebooted'
        <5>1. CASE b = cur
          BY <1>2, <3>1, <3>3, <5>1
        <5>2. CASE b # cur
          BY <1>2, <2>1, <4>2, <4>3, <5>2 DEF BoardsInv
        <5> QED
          BY <5>1, <5>2
      <4> QED
        BY <4>4, <4>5, <4>6 DEF BoardsInv
    <3>6. PicturesInv'
      <4>1. Ids(before)' = Ids(before)
        BY <1>2 DEF Ids
      <4>2. listed => step = "poll"
        BY <3>1 DEF ListedInv, Snapshots
      <4> QED
        BY <1>2, <1>3, <2>1, <3>1, <3>4, <4>1, <4>2 DEF PicturesInv
    <3> QED
      BY <3>5, <3>6
  <2> QED
    BY <1>2, <1>6, <2>1, <2>2, <2>3, <2>4 DEF HealthInv
<1> QED
  BY <1>5, <1>6

\* What the lemmas on the steps of the run start from.
StaysHealthy == TypeOK /\ ControlInv /\ ListedInv /\ Healthy /\ Healthy' /\ HealthInv /\ faults' = faults

LEMMA NoFault ==
    ASSUME StaysHealthy
    PROVE  ~Fault
<1>1. faults \in Nat
  BY Flat, Numbers DEF StaysHealthy, Typed
<1> QED
  BY <1>1 DEF StaysHealthy, Fault

LEMMA StartHealth ==
    ASSUME StaysHealthy, DevicesEnds \/ BaselineEnds
    PROVE  HealthInv'
<1> USE DEF StartSteps, MapSteps, OwnSteps, RebootSteps, EndSteps, StaysHealthy
<1>0. Typed /\ ~Fault
  BY Flat, NoFault
<1>1. step \in StartSteps /\ ~stopped /\ ~waitOver /\ BoardsInv /\ PicturesInv /\ OrderInv
  BY DEF DevicesEnds, BaselineEnds, Pictured, HealthInv
<1>2. rebooted = {} /\ cur = Nothing /\ \A b \in Board : stage[b] = "Selected"
  BY <1>1 DEF ControlInv
<1>3. UNCHANGED <<at, shown, told, rebooted, port, locationId, stopped, waitOver, cur, draining>>
  BY <1>0 DEF DevicesEnds, BaselineEnds, bench, pictures, identity
<1>4. ~listed'
  BY DEF DevicesEnds, BaselineEnds, pictures, Pictured, ListedInv, Snapshots
<1>5. CASE step' = "done"
  BY <1>1, <1>3, <1>4, <1>5, ToEnd
<1>6. CASE step' = "baseline"
  <2>1. BoardsInv'
    BY <1>1, <1>2, <1>3, <1>6, QuietBoards
  <2>2. PicturesInv'
    BY <1>1, <1>3, <1>4, <1>6, QuietPictures
  <2>3. OrderInv'
    BY <1>2, <1>3, <1>6 DEF OrderInv
  <2> QED
    BY <1>1, <1>3, <1>6, <2>1, <2>2, <2>3 DEF HealthInv
<1>7. CASE step' = "mapNext"
  <2>1. /\ step = "baseline" /\ listed /\ ~RefusesBench /\ ~dry
        /\ stage' = [b \in Board |-> IF dry \/ b \notin candidate THEN "Finished" ELSE stage[b]]
        /\ candidate' = candidate
    BY <1>0, <1>7 DEF DevicesEnds, BaselineEnds, Pictured, Refuse, selection
  <2>2. listing = {}
    BY <2>1, PictureTyped DEF RefusesBench
  <2>3. \A s \in Device \ Board : OnAdb(s)
    BY <1>1, <2>1, <2>2 DEF BoardsInv, PicturesInv, InLoaderMode
  <2>4. BoardsInv'
    BY <1>1, <1>2, <1>3, <1>7, <2>3, QuietBoards
  <2>5. PicturesInv'
    BY <1>1, <1>3, <1>4, <1>7, QuietPictures
  <2>6. \A b \in Board : stage'[b] # "Loader" /\ (b \in candidate => stage'[b] = "Selected") /\ b > Nothing
    BY <1>2, <2>1, Numbers DEF Board, Nothing
  <2>7. OrderInv'
    BY <1>0, <1>2, <1>3, <1>7, <2>1, <2>6 DEF OrderInv, Typed
  <2> QED
    BY <1>1, <1>3, <1>7, <2>4, <2>5, <2>7 DEF HealthInv
<1>8. step' \in {"done", "baseline", "mapNext"}
  BY <1>0 DEF DevicesEnds, BaselineEnds, Refuse
<1> QED
  BY <1>5, <1>6, <1>7, <1>8

\* The next board: nobody was left out when there is none.
LEMMA NextHealth ==
    ASSUME StaysHealthy, MapNext
    PROVE  HealthInv'
<1> USE DEF StartSteps, MapSteps, OwnSteps, RebootSteps, EndSteps, StaysHealthy
<1>0. Typed
  BY Flat
<1>1. step = "mapNext" /\ ~stopped /\ ~waitOver /\ BoardsInv /\ PicturesInv /\ OrderInv
  BY DEF MapNext, HealthInv
<1>2. /\ UNCHANGED <<at, shown, told, rebooted, port, locationId, stopped, waitOver, draining, candidate, listed>>
      /\ ~listed
  BY <1>1 DEF MapNext, EndMappingByCancel, bench, pictures, identity, selection, ListedInv, Snapshots
<1>3. CASE step' \in EndSteps
  <2>1. step \in MapSteps \ RebootSteps /\ ~stopped' /\ ~waitOver' /\ ~listed'
    BY <1>1, <1>2
  <2>2. TypeOK /\ BoardsInv /\ UNCHANGED <<at, shown, told, locationId, port>>
    BY <1>1, <1>2
  <2>3. step' \in EndSteps
    BY <1>3
  <2> QED
    BY <2>1, <2>2, <2>3, ToEnd
<1>4. CASE step' \notin EndSteps
  <2>1. /\ ~draining /\ stage' = stage
        /\ \/ Later = {} /\ step' = "reconcile" /\ cur' = cur
           \/ Later # {} /\ step' = "kernel" /\ cur' = CHOOSE b \in Later : \A x \in Later : b <= x
    BY <1>4 DEF MapNext, EndMappingByCancel, ResetMapped, Closing, endings
  <2>2. BoardsInv'
    BY <1>1, <1>2, <2>1, QuietBoards
  <2>3. PicturesInv'
    BY <1>1, <1>2, <2>1, QuietPictures
  <2>4. \A b \in candidate \ rebooted : b \in Later /\ stage[b] = "Selected"
    BY <1>1, <2>1 DEF OrderInv, Later, Ended
  <2>5. CASE Later = {}
    <3>1. rebooted = candidate
      BY <1>1, <2>4, <2>5 DEF OrderInv
    <3> QED
      BY <1>1, <1>2, <1>4, <2>1, <2>2, <2>3, <2>5, <3>1 DEF HealthInv, OrderInv
  <2>6. CASE Later # {}
    <3>1. cur' \in Later /\ \A x \in Later : cur' <= x
      BY <1>0, <2>1, <2>6, NextBoard DEF Typed
    <3>2. \A b \in candidate \ rebooted : b > cur' \/ b = cur'
      BY <1>0, <2>4, <3>1, Numbers DEF Later, Typed
    <3>3. OrderInv'
      BY <1>1, <1>2, <2>1, <2>4, <2>6, <3>1, <3>2 DEF OrderInv, Later
    <3> QED
      BY <1>1, <1>2, <1>4, <2>2, <2>3, <3>3 DEF HealthInv
  <2> QED
    BY <2>5, <2>6
<1> QED
  BY <1>3, <1>4

\* readKernel() and readLayout(): a healthy board only leaves when the owner
\* cancelled.
LEMMA ReadHealth ==
    ASSUME StaysHealthy, KernelEnds \/ LayoutEnds
    PROVE  HealthInv'
<1> USE DEF StartSteps, MapSteps, OwnSteps, RebootSteps, EndSteps, StaysHealthy
<1>0. Typed
  BY Flat
<1>1. step \in {"kernel", "layout"} /\ ~stopped /\ ~waitOver /\ BoardsInv /\ PicturesInv /\ OrderInv
  BY DEF KernelEnds, LayoutEnds, HealthInv
<1>2. cur \in Board \ rebooted /\ cur \in candidate
  BY <1>1 DEF ControlInv, OrderInv
<1>3. /\ UNCHANGED <<at, shown, told, rebooted, port, locationId, waitOver, draining, candidate, listed, cur>>
      /\ ~listed
  BY <1>1 DEF KernelEnds, LayoutEnds, bench, pictures, identity, selection, ListedInv, Snapshots
<1>4. \/ draining /\ SkipCur
      \/ step' \in OwnSteps /\ UNCHANGED <<stage, stopped>>
  <2>1. CASE KernelEnds
    BY <2>1 DEF KernelEnds, endings
  <2>2. CASE LayoutEnds
    <3>1. PICK read \in Layouts :
             /\ layout' = [layout EXCEPT ![cur] = read]
             /\ IF read = "mixed" THEN StopMapping(cur, {})
                ELSE IF read \in {"unreadable", "unusable"} \/ draining THEN SkipCur
                ELSE step' = "before" /\ UNCHANGED <<endings, stopped, unattributed>>
      BY <2>2 DEF LayoutEnds
    <3>2. layout'[cur] = read /\ layout'[cur] \in {"unread", "ok"}
      BY <1>0, <1>2, <3>1 DEF Typed, Healthy
    <3> QED
      BY <3>1, <3>2 DEF endings
  <2> QED
    BY <2>1, <2>2
<1>5. step' \in OwnSteps \cup {"mapNext"} /\ ~stopped'
  BY <1>1, <1>4 DEF SkipCur
<1>6. \A b \in Board : b # cur => stage'[b] = stage[b]
  BY <1>0, <1>4 DEF SkipCur, EndBoard, Typed
<1>7. BoardsInv'
  BY <1>0, <1>1, <1>2, <1>3, <1>5, <1>6, QuietBoards DEF Typed
<1>8. PicturesInv'
  BY <1>1, <1>3, <1>5, QuietPictures
<1>9. OrderInv'
  <2>1. CASE step' \in OwnSteps /\ UNCHANGED <<stage, stopped>>
    BY <1>1, <1>3, <2>1 DEF OrderInv
  <2>2. CASE draining /\ SkipCur
    <3>1. stage'[cur] = "Finished" /\ step' = "mapNext"
      BY <1>0, <1>2, <2>2 DEF SkipCur, EndBoard, Typed
    <3> QED
      BY <1>1, <1>3, <1>6, <2>2, <3>1 DEF OrderInv
  <2> QED
    BY <1>4, <2>1, <2>2
<1> QED
  BY <1>1, <1>3, <1>5, <1>7, <1>8, <1>9 DEF HealthInv

\* rebootIntoLoader(): the board is told next to a picture that shows it as the
\* ADB gadget it is and everybody else as they are.
LEMMA RebootHealth ==
    ASSUME StaysHealthy, BeforeEnds
    PROVE  HealthInv'
<1> USE DEF StartSteps, MapSteps, OwnSteps, RebootSteps, EndSteps, StaysHealthy
<1>0. Typed /\ ~Fault
  BY Flat, NoFault
<1>1. step = "before" /\ listed /\ ~listed' /\ ~stopped /\ ~waitOver /\ BoardsInv /\ PicturesInv /\ OrderInv
  BY DEF BeforeEnds, Pictured, HealthInv
<1>2. cur \in Board \ rebooted /\ cur \in candidate /\ cur \in Device
  BY <1>1, Numbers DEF ControlInv, OrderInv
<1>3. UNCHANGED <<at, shown, port, locationId, draining, candidate, cur>>
  BY <1>0 DEF BeforeEnds, identity, selection
<1>4. CASE draining /\ SkipCur /\ UNCHANGED <<told, faults, before, rebooted, waitOver>>
  <2>1. /\ stage'[cur] = "Finished" /\ \A b \in Board : b # cur => stage'[b] = stage[b]
        /\ step' = "mapNext" /\ stopped' = stopped
    BY <1>0, <1>2, <1>4 DEF SkipCur, EndBoard, Typed
  <2>2. BoardsInv'
    BY <1>0, <1>1, <1>2, <1>3, <1>4, <2>1, QuietBoards DEF Typed
  <2>3. PicturesInv'
    BY <1>1, <1>3, <2>1, QuietPictures
  <2>4. OrderInv'
    BY <1>1, <1>2, <1>3, <1>4, <2>1 DEF OrderInv
  <2> QED
    BY <1>1, <1>4, <2>1, <2>2, <2>3, <2>4 DEF HealthInv
<1>5. CASE /\ ~draining /\ before' = Picture /\ step' = "reboot" /\ rebooted' = rebooted \cup {cur}
           /\ stage' = [stage EXCEPT ![cur] = "Mapping"] /\ waitOver' = FALSE
           /\ told' = [told EXCEPT ![cur] = at[cur] = "adb"] /\ stopped' = stopped
  <2>1. OnAdb(cur) /\ port[cur] = Nothing /\ locationId[cur] = Nothing
    BY <1>1, <1>2 DEF BoardsInv
  <2>2. told'[cur] /\ \A d \in Device : d # cur => told'[d] = told[d]
    BY <1>0, <1>2, <1>5, <2>1 DEF Typed, OnAdb
  <2>3. stage'[cur] = "Mapping" /\ \A b \in Board : b # cur => stage'[b] = stage[b]
    BY <1>0, <1>2, <1>5 DEF Typed
  <2>4. BoardsInv'
    <3>1. \A s \in Device \ Board : OnAdb(s)'
      BY <1>1, <1>2, <1>3, <2>2 DEF BoardsInv, OnAdb
    <3>2. \A b \in Board \ rebooted' : OnAdb(b)' /\ port'[b] = Nothing /\ locationId'[b] = Nothing
      BY <1>1, <1>3, <1>5, <2>2, Numbers DEF BoardsInv, OnAdb
    <3>3. OnItsWay(cur)'
      BY <1>3, <1>5, <2>1, <2>2 DEF OnItsWay, OnAdb
    <3>4. \A b \in rebooted : b # cur /\ MappedRight(b)'
      BY <1>0, <1>1, <1>2, <1>3, <2>2, <2>3, Numbers DEF BoardsInv, MappedRight, InLoaderMode, Typed
    <3>5. \A b \in rebooted' : IF step' \in RebootSteps /\ b = cur' THEN OnItsWay(b)' ELSE MappedRight(b)'
      <4> TAKE b \in rebooted'
      <4>1. CASE b = cur
        BY <1>3, <1>5, <3>3, <4>1
      <4>2. CASE b # cur
        BY <1>3, <1>5, <3>4, <4>2
      <4> QED
        BY <4>1, <4>2
    <3> QED
      BY <3>1, <3>2, <3>5 DEF BoardsInv
  <2>5. PicturesInv'
    <3>1. Ids(before') = listing /\ Ids(before)' = Ids(before')
      BY <1>5, PictureTyped DEF Ids
    <3>2. \A d \in Device : d \in listing <=> "ld" \in shown[d]
      BY <1>1 DEF PicturesInv
    <3>3. \A d \in Device : (d \in before'.adb <=> "adb" \in shown[d]) /\ (d \in before'.download <=> "dl" \in shown[d])
      BY <1>5 DEF Picture
    <3>4. cur \in before'.adb /\ cur \notin before'.download /\ cur \notin Ids(before')
      BY <1>2, <2>1, <3>1, <3>2, <3>3 DEF OnAdb
    <3> QED
      BY <1>1, <1>3, <3>1, <3>2, <3>3, <3>4 DEF PicturesInv
  <2>6. OrderInv'
    BY <1>1, <1>2, <1>3, <1>5, <2>3 DEF OrderInv
  <2> QED
    BY <1>1, <1>5, <2>4, <2>5, <2>6 DEF HealthInv
<1> QED
  BY <1>0, <1>4, <1>5 DEF BeforeEnds

\* Timers, listings and the cancel leave everything where it is; the wait of a
\* board that is on its way does not run out.
LEMMA QuietHealth ==
    ASSUME StaysHealthy, RebootEnds \/ PollTimer \/ LdReads \/ Cancel \/ WaitElapses
    PROVE  HealthInv'
<1> USE DEF StartSteps, MapSteps, OwnSteps, RebootSteps, EndSteps, StaysHealthy
<1>0. Typed /\ ~Fault
  BY Flat, NoFault
<1>1. ~WaitElapses
  <2>1. SUFFICES ASSUME WaitElapses PROVE FALSE
    OBVIOUS
  <2>2. step \in RebootSteps /\ ~told[cur] /\ at[cur] \in {"adb", "away"}
    BY <1>0, <2>1 DEF WaitElapses
  <2>3. cur \in rebooted /\ OnItsWay(cur)
    BY <2>2 DEF ControlInv, HealthInv, BoardsInv
  <2> QED
    BY <2>2, <2>3 DEF OnItsWay
<1>2. UNCHANGED <<at, shown, told, rebooted, port, locationId, stage, stopped, waitOver, cur, found, before,
                  candidate>>
  BY <1>1 DEF RebootEnds, PollTimer, LdReads, Cancel, bench, pictures, identity, endings, selection
<1>3. CASE step \notin EndSteps
  <2>1. BoardsInv /\ PicturesInv /\ OrderInv
    BY <1>3 DEF HealthInv
  <2>2. /\ step' = step \/ (step \in RebootSteps /\ step' = "poll")
        /\ ~draining' => ~draining
        /\ listed' => (listed /\ UNCHANGED <<listing, step>>) \/ LdReads
    BY <1>1 DEF RebootEnds, PollTimer, LdReads, Cancel, bench, pictures, ListedInv, Snapshots
  <2>3. BoardsInv'
    BY <1>2, <2>1, <2>2, QuietBoards
  <2>4. OrderInv'
    BY <1>2, <2>1, <2>2 DEF OrderInv
  <2>5. PicturesInv'
    <3>1. CASE LdReads
      <4>1. step' = step /\ listing' = {d \in Device : "ld" \in shown[d]}
        BY <3>1 DEF LdReads
      <4>2. step = "poll" /\ "ld" \in shown[cur] => at[cur] = "loader"
        BY <2>1 DEF BoardsInv, OnItsWay, ControlInv
      <4>3. Ids(before)' = Ids(before)
        BY <1>2 DEF Ids
      <4> QED
        BY <1>2, <2>1, <4>1, <4>2, <4>3 DEF PicturesInv
    <3>2. CASE ~LdReads
      BY <1>2, <2>1, <2>2, <3>2, QuietPictures
    <3> QED
      BY <3>1, <3>2
  <2> QED
    BY <1>2, <1>3, <2>2, <2>1, <2>3, <2>4, <2>5 DEF HealthInv
<1>4. CASE step \in EndSteps
  <2>1. EndInv /\ step' = step
    BY <1>1, <1>4 DEF HealthInv, RebootEnds, PollTimer, LdReads, Cancel
  <2>2. step = "closing" /\ listed' => listing' \subseteq Bound
    <3>1. CASE LdReads
      BY <2>1, <3>1 DEF LdReads, EndInv
    <3>2. CASE ~LdReads
      BY <1>1, <1>4, <2>1, <3>2 DEF RebootEnds, PollTimer, Cancel, pictures, EndInv
    <3> QED
      BY <3>1, <3>2
  <2>3. Bound' = Bound
    BY <1>2 DEF Bound
  <2>4. EndInv'
    BY <1>2, <2>1, <2>2, <2>3 DEF EndInv
  <2> QED
    BY <1>2, <1>4, <2>1, <2>4 DEF HealthInv
<1> QED
  BY <1>3, <1>4

\* poll(): the only difference is the board that was told, so the verdict is
\* either to wait or its own port with its own id.
LEMMA PollHealth ==
    ASSUME StaysHealthy, PollEnds \/ PollFails
    PROVE  HealthInv'
<1> USE DEF StartSteps, MapSteps, OwnSteps, RebootSteps, EndSteps, StaysHealthy
<1>0. Typed /\ ~Fault
  BY Flat, NoFault
<1>1. PollEnds /\ step = "poll" /\ listed /\ ~listed' /\ ~stopped /\ ~waitOver /\ BoardsInv /\ PicturesInv /\ OrderInv
  BY <1>0 DEF PollEnds, PollFails, Pictured, HealthInv
<1>2. cur \in rebooted /\ cur \in Device /\ OnItsWay(cur)
  BY <1>0, <1>1, Numbers DEF ControlInv, BoardsInv, Typed
<1>3. UNCHANGED <<at, shown, told, before, cur, waitOver, draining, candidate, rebooted>>
  BY <1>1 DEF PollEnds, bench, selection
<1>4. Ids(Picture) = listing
  BY PictureTyped
<1>5. /\ cur \in before.adb /\ Vanished(before, Picture) \subseteq {cur}
      /\ Appeared(before, Picture) \subseteq {cur} /\ NewIds(before, Picture) \subseteq {cur}
  <2>1. \A d \in Device : d # cur => /\ d \in before.adb <=> "adb" \in shown[d]
                                     /\ d \in before.download <=> "dl" \in shown[d]
                                     /\ d \in Ids(before) <=> d \in listing
    BY <1>1 DEF PicturesInv
  <2>2. listing \subseteq Device /\ before.adb \subseteq Device
    BY <1>0 DEF Typed, Snapshot
  <2> QED
    BY <1>1, <1>4, <2>1, <2>2 DEF PicturesInv, Vanished, Appeared, NewIds, Picture
<1> DEFINE verdict == Compare(before, Picture)
<1>6. /\ verdict \in Pending \cup {"Mapped", "Maskrom"}
      /\ verdict = "Mapped" => /\ Vanished(before, Picture) = {cur} /\ Appeared(before, Picture) = {cur}
                               /\ NewIds(before, Picture) = {cur}
      /\ verdict = "Maskrom" => cur \in Picture.maskrom
  BY <1>5, PollVerdict
<1>7. verdict # "Maskrom" /\ verdict \notin Stops
  <2>1. cur \notin Picture.maskrom
    BY <1>1, <1>2 DEF Picture, Healthy
  <2> QED
    BY <1>6, <2>1 DEF Pending, Stops
<1>8. /\ UNCHANGED <<stage, port, locationId, stopped>>
      /\ \/ verdict = "Mapped" /\ found' = Recognised(Picture) /\ step' = "confirm"
         \/ step' = "pollWait"
  BY <1>1, <1>7 DEF PollEnds, endings, identity
<1>9. OrderInv'
  BY <1>1, <1>3, <1>8 DEF OrderInv
<1>10. PicturesInv'
  BY <1>1, <1>3, <1>8, QuietPictures
<1>11. CASE step' = "pollWait"
  <2>1. BoardsInv'
    BY <1>1, <1>3, <1>8, <1>11, QuietBoards
  <2> QED
    BY <1>1, <1>3, <1>8, <1>9, <1>10, <1>11, <2>1 DEF HealthInv
<1>12. CASE verdict = "Mapped" /\ found' = Recognised(Picture) /\ step' = "confirm"
  <2>1. found' = [port |-> cur, id |-> cur]
    BY <1>6, <1>12 DEF Recognised, Only
  <2>2. InLoaderMode(cur)
    <3>1. "adb" \notin shown[cur] /\ "dl" \in shown[cur] /\ cur \in listing
      BY <1>2, <1>4, <1>6, <1>12 DEF Vanished, Appeared, NewIds, Picture
    <3>2. at[cur] = "loader" /\ "ld" \in shown[cur]
      BY <1>1, <1>2, <3>1 DEF PicturesInv
    <3>3. shown[cur] \subseteq {"adb", "dl", "ld"}
      BY <1>0, <1>2 DEF Typed
    <3> QED
      BY <1>2, <3>1, <3>2, <3>3 DEF OnItsWay, InLoaderMode
  <2>3. OnItsWay(cur)'
    BY <1>2, <1>3, <1>8, <2>1, <2>2 DEF OnItsWay, InLoaderMode
  <2>4. BoardsInv'
    <3>1. \A s \in Device \ Board : OnAdb(s)'
      BY <1>1, <1>3 DEF BoardsInv, OnAdb
    <3>2. \A b \in Board \ rebooted' : OnAdb(b)' /\ port'[b] = Nothing /\ locationId'[b] = Nothing
      BY <1>1, <1>3, <1>8, Numbers DEF BoardsInv, OnAdb
    <3>3. \A b \in rebooted : b # cur => MappedRight(b)'
      BY <1>0, <1>1, <1>3, <1>8, Numbers DEF BoardsInv, MappedRight, InLoaderMode, Typed
    <3>4. \A b \in rebooted' : IF step' \in RebootSteps /\ b = cur' THEN OnItsWay(b)' ELSE MappedRight(b)'
      <4> TAKE b \in rebooted'
      <4>1. CASE b = cur
        BY <1>3, <1>12, <2>3, <4>1
      <4>2. CASE b # cur
        BY <1>3, <1>12, <3>3, <4>2
      <4> QED
        BY <4>1, <4>2
    <3> QED
      BY <3>1, <3>2, <3>4 DEF BoardsInv
  <2> QED
    BY <1>1, <1>3, <1>8, <1>9, <1>10, <1>12, <2>4 DEF HealthInv
<1> QED
  BY <1>8, <1>11, <1>12

\* confirmMapped(): the board is bound to its own port and its own id.
LEMMA ConfirmHealth ==
    ASSUME StaysHealthy, ConfirmEnds
    PROVE  HealthInv'
<1> USE DEF StartSteps, MapSteps, OwnSteps, RebootSteps, EndSteps, StaysHealthy
<1>0. Typed /\ ~Fault
  BY Flat, NoFault
<1>1. step = "confirm" /\ ~listed /\ ~stopped /\ ~waitOver /\ BoardsInv /\ PicturesInv /\ OrderInv
  BY DEF ConfirmEnds, HealthInv, ListedInv, Snapshots
<1>2. /\ cur \in rebooted /\ cur \in Board /\ cur \in Device
      /\ InLoaderMode(cur) /\ found = [port |-> cur, id |-> cur]
  BY <1>0, <1>1, Numbers DEF ControlInv, BoardsInv, OnItsWay, Typed
<1>3. layout[cur] # "mixedPid" /\ at[cur] # "adb"
  BY <1>2 DEF Healthy, InLoaderMode
<1>4. /\ UNCHANGED <<at, shown, told, cur, rebooted, waitOver, draining, candidate, stopped, before>> /\ ~listed'
      /\ port' = [port EXCEPT ![cur] = cur] /\ locationId' = [locationId EXCEPT ![cur] = cur]
      /\ stage' = [stage EXCEPT ![cur] = "Loader"] /\ step' = "mapNext"
  BY <1>0, <1>1, <1>2, <1>3 DEF ConfirmEnds, pictures, selection
<1>5. /\ port'[cur] = cur /\ locationId'[cur] = cur /\ stage'[cur] = "Loader"
      /\ \A b \in Board : b # cur => port'[b] = port[b] /\ locationId'[b] = locationId[b] /\ stage'[b] = stage[b]
  BY <1>0, <1>2, <1>4 DEF Typed
<1>6. BoardsInv'
  <2>1. \A s \in Device \ Board : OnAdb(s)'
    BY <1>1, <1>4 DEF BoardsInv, OnAdb
  <2>2. \A b \in Board \ rebooted' : OnAdb(b)' /\ port'[b] = Nothing /\ locationId'[b] = Nothing
    BY <1>1, <1>2, <1>4, <1>5, Numbers DEF BoardsInv, OnAdb
  <2>3. MappedRight(cur)'
    BY <1>2, <1>4, <1>5 DEF MappedRight, InLoaderMode
  <2>4. \A b \in rebooted : b # cur => MappedRight(b)'
    BY <1>0, <1>1, <1>4, <1>5, Numbers DEF BoardsInv, MappedRight, InLoaderMode, Typed
  <2>5. \A b \in rebooted' : IF step' \in RebootSteps /\ b = cur' THEN OnItsWay(b)' ELSE MappedRight(b)'
    <3> TAKE b \in rebooted'
    <3>1. CASE b = cur
      BY <1>4, <2>3, <3>1
    <3>2. CASE b # cur
      BY <1>4, <2>4, <3>2
    <3> QED
      BY <3>1, <3>2
  <2> QED
    BY <2>1, <2>2, <2>5 DEF BoardsInv
<1>7. PicturesInv'
  BY <1>1, <1>4, QuietPictures
<1>8. OrderInv'
  BY <1>1, <1>2, <1>4, <1>5 DEF OrderInv
<1> QED
  BY <1>1, <1>4, <1>6, <1>7, <1>8 DEF HealthInv

\* reconcile(): every device in a download mode is a mapped board's own.
LEMMA ReconcileHealth ==
    ASSUME StaysHealthy, ReconcileEnds
    PROVE  HealthInv'
<1> USE DEF StartSteps, MapSteps, OwnSteps, RebootSteps, EndSteps, StaysHealthy
<1>0. Typed /\ ~Fault
  BY Flat, NoFault
<1>1. step = "reconcile" /\ listed /\ ~listed' /\ ~stopped /\ ~waitOver /\ BoardsInv /\ PicturesInv /\ OrderInv
  BY DEF ReconcileEnds, Pictured, HealthInv
<1>2. /\ UNCHANGED <<at, shown, told, before, cur, waitOver, draining, candidate, rebooted, port, locationId>>
  BY DEF ReconcileEnds, selection, identity
<1>3. LatePorts = {} /\ LateIds = {}
  <2>1. \A d \in Device : OnAdb(d) \/ (d \in Board /\ MappedRight(d))
    BY <1>1 DEF BoardsInv
  <2>2. \A d \in Device : "dl" \in shown[d] \/ "ld" \in shown[d] =>
           d \in Known /\ port[d] = d /\ locationId[d] = d
    BY <2>1 DEF OnAdb, MappedRight, Known, InLoader
  <2>3. Ids(Picture) = listing /\ listing \subseteq Device
    BY <1>0, PictureTyped DEF Typed
  <2>4. \A d \in listing : "ld" \in shown[d]
    BY <1>1, <2>3 DEF PicturesInv
  <2>5. \A d \in Picture.download : d \in Device /\ "dl" \in shown[d]
    BY DEF Picture
  <2> QED
    BY <2>2, <2>3, <2>4, <2>5 DEF LatePorts, LateIds
<1>4. \/ step' \in EndSteps /\ stopped' = stopped
      \/ step' = "writing" /\ stage' = stage /\ stopped' = stopped
  BY <1>0, <1>3 DEF ReconcileEnds, EndMappingByCancel, ResetMapped, Closing, endings
<1>5. CASE step' \in EndSteps
  BY <1>1, <1>2, <1>4, <1>5, ToEnd
<1>6. CASE step' = "writing"
  <2>1. stage' = stage /\ stopped' = stopped
    BY <1>4, <1>6
  <2>2. BoardsInv'
    BY <1>1, <1>2, <1>6, <2>1, QuietBoards
  <2>3. PicturesInv'
    BY <1>1, <1>2, <1>6, QuietPictures
  <2>4. OrderInv'
    BY <1>1, <1>2, <1>6, <2>1 DEF OrderInv
  <2> QED
    BY <1>1, <1>2, <1>6, <2>1, <2>2, <2>3, <2>4 DEF HealthInv
<1> QED
  BY <1>4, <1>5, <1>6

\* The resets and the closing picture: nobody else's device is addressed, and
\* no address is taken for another.
LEMMA EndHealth ==
    ASSUME StaysHealthy, ClosingEnds \/ \E b \in Board : RdEnds(b)
    PROVE  HealthInv'
<1> USE DEF StartSteps, MapSteps, OwnSteps, RebootSteps, EndSteps, StaysHealthy
<1>0. Typed /\ ~Fault
  BY Flat, NoFault
<1>1. step \in {"resets", "closing"} /\ ~stopped /\ ~waitOver /\ EndInv
  BY DEF ClosingEnds, Pictured, RdEnds, HealthInv
<1>2. CASE ClosingEnds
  <2>1. /\ step = "closing" /\ listed /\ step' = "done" /\ UNCHANGED <<told, stopped, waitOver, port>>
        /\ locationId' = [b \in Board |-> NewId(b)]
    BY <1>0, <1>2 DEF ClosingEnds, Pictured
  <2>2. StrayIds = {}
    <3>1. Ids(Picture) = listing /\ listing \subseteq Bound
      BY <1>1, <2>1, PictureTyped DEF EndInv
    <3>2. \A b \in Bound : locationId[b] = b
      BY <1>1 DEF EndInv, Bound
    <3> QED
      BY <3>1, <3>2 DEF StrayIds
  <2>3. ~Paired
    BY <2>2, OneIsSome DEF Paired
  <2>4. \A b \in Board : locationId'[b] = locationId[b]
    BY <2>1, <2>3 DEF NewId
  <2>5. EndInv'
    BY <1>1, <2>1, <2>4 DEF EndInv
  <2> QED
    BY <1>1, <2>1, <2>5 DEF HealthInv
<1>3. CASE \E b \in Board : RdEnds(b)
  <2>1. PICK b \in Board : RdEnds(b)
    BY <1>3
  <2>2. /\ step = "resets" /\ step' \in {"resets", "closing"} /\ ~listed' /\ stage[b] = "Resetting"
        /\ UNCHANGED <<told, stopped, waitOver, port, locationId>>
    BY <2>1 DEF RdEnds, pictures, identity, ListedInv, Snapshots
  <2>3. locationId[b] = b
    BY <1>1, <2>2 DEF ControlInv, Bound, EndInv
  <2>4. \A d \in Device : d # b => at'[d] = at[d] /\ shown'[d] = shown[d]
    BY <1>0, <2>1, <2>3 DEF RdEnds, Moves, Typed
  <2>5. b \in Bound /\ Bound' = Bound
    BY <2>2, <2>3, Numbers DEF Bound
  <2>6. EndInv'
    BY <1>1, <2>2, <2>4, <2>5 DEF EndInv
  <2> QED
    BY <1>1, <2>2, <2>6 DEF HealthInv
<1> QED
  BY <1>2, <1>3

LEMMA NextListed ==
    ASSUME ListedInv, [Next]_vars
    PROVE  ListedInv'
<1>1. CASE RunStep \/ WaitElapses \/ Cancel
  BY <1>1, RunListed
<1>2. CASE BenchMove
  BY <1>2, BenchFrame DEF RestOfRun, pictures, ListedInv
<1>3. CASE UNCHANGED vars
  BY <1>3 DEF vars, pictures, ListedInv
<1> QED
  BY <1>1, <1>2, <1>3 DEF Next, BenchMove, Finished

LEMMA NextReadOnce ==
    ASSUME TypeOK, ReadOnce, [Next]_vars
    PROVE  ReadOnce'
<1>1. CASE RunStep \/ WaitElapses \/ Cancel
  BY <1>1, RunReadOnce
<1>2. CASE BenchMove
  BY <1>2, BenchFrame DEF RestOfRun, ReadOnce
<1>3. CASE UNCHANGED vars
  BY <1>3 DEF vars, ReadOnce
<1> QED
  BY <1>1, <1>2, <1>3 DEF Next, BenchMove, Finished

HealthyInv == TypeOK /\ ControlInv /\ ListedInv /\ ReadOnce /\ (Healthy => HealthInv)

LEMMA InitHealthy == Init => HealthyInv
<1> SUFFICES ASSUME Init PROVE HealthyInv
  OBVIOUS
<1>1. step = "devices" /\ cur = Nothing /\ rebooted = {} /\ ~listed /\ ~stopped /\ ~waitOver
  BY DEF Init
<1>2. /\ \A d \in Device : /\ shown[d] = Truth(at[d]) /\ ~told[d] /\ at[d] \in {"adb", "loader"}
                           /\ d \in Board => at[d] = "adb"
      /\ \A b \in Board : port[b] = Nothing /\ locationId[b] = Nothing /\ layout[b] = "unread"
  BY DEF Init
<1>3. BoardsInv
  BY <1>1, <1>2, Numbers DEF BoardsInv, OnAdb, InLoaderMode, Truth, MapSteps, OwnSteps, RebootSteps
<1>4. PicturesInv
  BY <1>1 DEF PicturesInv, RebootSteps
<1>5. OrderInv
  BY <1>1 DEF OrderInv, MapSteps, OwnSteps, RebootSteps
<1>6. ListedInv /\ ReadOnce
  BY <1>1, <1>2 DEF ListedInv, ReadOnce
<1> QED
  BY <1>1, <1>3, <1>4, <1>5, <1>6, InitTypeOK, InitControl DEF HealthyInv, HealthInv, EndSteps

LEMMA NextHealthy ==
    ASSUME HealthyInv, [Next]_vars
    PROVE  HealthyInv'
<1>1. TypeOK' /\ ControlInv' /\ ListedInv' /\ ReadOnce'
  BY NextBase, NextListed, NextReadOnce DEF HealthyInv
<1>2. ASSUME Healthy'
      PROVE  HealthInv'
  <2>1. StaysHealthy
    BY <1>2, HealthyBefore DEF HealthyInv, StaysHealthy
  <2>2. CASE BenchMove
    BY <2>1, <2>2, BenchHealth DEF StaysHealthy
  <2>3. CASE RunStep \/ WaitElapses \/ Cancel
    BY <2>1, <2>3, StartHealth, NextHealth, ReadHealth, RebootHealth, QuietHealth, PollHealth, ConfirmHealth,
       ReconcileHealth, EndHealth DEF RunStep
  <2>4. CASE UNCHANGED vars
    <3>1. UNCHANGED <<at, shown, told, step, cur, listed, listing, before, found, waitOver, draining, stopped, stage,
                      candidate, rebooted, port, locationId>>
      BY <2>4 DEF vars, bench, pictures, identity, endings, selection
    <3> QED
      BY <2>1, <3>1 DEF StaysHealthy, HealthInv, BoardsInv, PicturesInv, OrderInv, EndInv, Bound, Ids, OnAdb,
         InLoaderMode, MappedRight, OnItsWay
  <2> QED
    BY <2>2, <2>3, <2>4 DEF Next, BenchMove, Finished
<1> QED
  BY <1>1, <1>2 DEF HealthyInv

\* On a bench where nothing fails and nobody else moves a device, no mapping is
\* ever stopped, however many boards, however late the views and whenever the
\* owner cancels; every board is bound to its own port and id, and the writing
\* starts with every candidate (FleetFlasher::mapNext() to reconcile()).
THEOREM HealthyBenchMapped == Spec => []HealthyBenchMaps
<1>1. HealthyInv => HealthyBenchMaps
  <2> SUFFICES ASSUME HealthyInv, Healthy
               PROVE  /\ ~stopped
                      /\ \A b \in Board : locationId[b] \in {Nothing, b} /\ port[b] = locationId[b]
                      /\ step = "writing" => InLoader = candidate
    BY DEF HealthyBenchMaps, Healthy
  <2>1. Typed /\ HealthInv
    BY Flat DEF HealthyInv
  <2>2. \A b \in Board : locationId[b] \in {Nothing, b} /\ port[b] = locationId[b]
    BY <2>1 DEF HealthInv, BoardsInv, EndInv, MappedRight, OnItsWay
  <2>3. step = "writing" => InLoader = candidate
    BY <2>1 DEF HealthInv, BoardsInv, OrderInv, MappedRight, InLoader, Typed, MapSteps, OwnSteps, RebootSteps,
       EndSteps
  <2> QED
    BY <2>1, <2>2, <2>3 DEF HealthInv
<1> QED
  BY <1>1, InitHealthy, NextHealthy, PTL DEF Spec

-----------------------------------------------------------------------------
(* What the last picture tells.                                            *)

\* A board found in MASKROM mode is still there.
MaskromInv == \A b \in maskrom : locationId[b] \in Device /\ at[locationId[b]] = "maskrom"

LEMMA NextMaskrom ==
    ASSUME TypeOK, ControlInv, MaskromInv, [Next]_vars
    PROVE  MaskromInv'
<1>0. Typed
  BY Flat
<1>1. CASE BenchMove
  <2>1. PICK e \in Device : Moved(e)
    BY <1>1, OneMoves
  <2>2. \A d \in Device : at[d] = "maskrom" => at'[d] = "maskrom"
    BY <2>1 DEF Moved, Leaves, Enters, Returns, Settles, Obeys, Drops
  <2> QED
    BY <1>1, <2>2, BenchFrame DEF RestOfRun, identity, MaskromInv
<1>2. CASE PollEnds
  <2>1. step = "poll" /\ UNCHANGED at /\ cur \in Board /\ cur \notin maskrom
    BY <1>0, <1>2, Numbers DEF PollEnds, Pictured, bench, ControlInv, RebootSteps, MaskromInv, Typed
  <2>2. CASE UNCHANGED identity
    BY <2>1, <2>2 DEF identity, MaskromInv
  <2>3. CASE /\ Compare(before, Picture) = "Maskrom"
             /\ maskrom' = maskrom \cup {cur}
             /\ locationId' = [locationId EXCEPT ![cur] = Recognised(Picture).id]
    <3>1. before \in Snapshot /\ Picture \in Snapshot
      BY <1>0, PictureTyped DEF Typed
    <3>2. NewIds(before, Picture) # {} /\ NewIds(before, Picture) \subseteq Picture.maskrom
      BY <2>3 DEF Compare, CompareLeft, CompareNobodyLeft
    <3>3. Recognised(Picture).id \in Picture.maskrom
      BY <3>2 DEF Recognised, Only
    <3>4. Recognised(Picture).id \in Device /\ at[Recognised(Picture).id] = "maskrom"
      BY <1>0, <3>3 DEF Picture, Typed
    <3>5. locationId'[cur] = Recognised(Picture).id /\ \A b \in Board : b # cur => locationId'[b] = locationId[b]
      BY <1>0, <2>1, <2>3 DEF Typed
    <3> QED
      BY <1>0, <2>1, <2>3, <3>4, <3>5 DEF MaskromInv, Typed
  <2> QED
    BY <1>2, <2>2, <2>3 DEF PollEnds
<1>3. CASE ConfirmEnds
  <2>1. /\ step = "confirm" /\ UNCHANGED <<at, maskrom>> /\ cur \in Board /\ cur \notin maskrom
        /\ \A b \in Board : b # cur => locationId'[b] = locationId[b]
    BY <1>0, <1>3, Numbers DEF ConfirmEnds, ControlInv, RebootSteps, MaskromInv, Typed
  <2> QED
    BY <1>0, <2>1 DEF MaskromInv, Typed
<1>4. CASE ClosingEnds
  <2>1. UNCHANGED <<at, maskrom>> /\ \A b \in maskrom : locationId'[b] = locationId[b]
    BY <1>0, <1>4 DEF ClosingEnds, NewId, Typed
  <2> QED
    BY <2>1 DEF MaskromInv
<1>5. CASE \E b \in Board : RdEnds(b)
  <2>1. UNCHANGED identity /\ \A d \in Device : at[d] = "maskrom" => at'[d] = "maskrom"
    BY <1>0, <1>5 DEF RdEnds, Moves, Typed
  <2> QED
    BY <2>1 DEF identity, MaskromInv
<1>6. CASE UNCHANGED <<at, identity>>
  BY <1>6 DEF identity, MaskromInv
<1>7. \/ BenchMove \/ PollEnds \/ ConfirmEnds \/ ClosingEnds \/ (\E b \in Board : RdEnds(b))
      \/ UNCHANGED <<at, identity>>
  BY DEF Next, BenchMove, RunStep, DevicesEnds, BaselineEnds, MapNext, KernelEnds, LayoutEnds, BeforeEnds,
     RebootEnds, LdReads, PollTimer, PollFails, ReconcileEnds, WaitElapses, Cancel, Finished, bench, vars, identity
<1> QED
  BY <1>1, <1>2, <1>3, <1>4, <1>5, <1>6, <1>7

\* The step that ends a run which rebooted somebody.
TellsAll ==
    step # "done" /\ step' = "done" /\ rebooted # {} /\ faults' = faults /\ PortAndIdAreOne =>
        \A d \in listing : at[d] = "loader" /\ "dl" \in shown[d] =>
            \/ d \in unattributed' \cup Ids(baseline)
            \/ \E b \in Board : locationId'[b] = d /\ b \in leftInLoader'

LEMMA LastPictureTells ==
    ASSUME TypeOK, ControlInv, MaskromInv, Next
    PROVE  TellsAll
<1> SUFFICES ASSUME step # "done", step' = "done", rebooted # {}, faults' = faults, PortAndIdAreOne,
                    NEW d \in listing, at[d] = "loader", "dl" \in shown[d]
             PROVE  \/ d \in unattributed' \cup Ids(baseline)
                    \/ \E b \in Board : locationId'[b] = d /\ b \in leftInLoader'
  BY DEF TellsAll
<1>0. Typed /\ ~Fault
  <2>1. faults \in Nat
    BY Flat, Numbers DEF Typed
  <2> QED
    BY <2>1, Flat DEF Fault
<1>1. d \in Device /\ d \in Picture.download /\ d \in Picture.loader /\ d \in Ids(Picture)
  BY <1>0 DEF Picture, Ids, Typed
<1>2. baseline.download = {} /\ Ids(baseline) = {}
  BY DEF ControlInv
<1>3. \A b \in maskrom : locationId[b] # d
  BY DEF MaskromInv
<1>4. ClosingEnds \/ (ReconcileEnds /\ ~draining /\ LateIds = {} /\ InLoader = {})
  BY <1>0 DEF Next, BenchStep, LeavesAdb, EntersDownload, Boots, CatchesUp, StrangerTold, BrownOut, RestOfRun,
     RunStep, DevicesEnds, BaselineEnds, MapNext, KernelEnds, LayoutEnds, BeforeEnds, RebootEnds, LdReads, PollTimer,
     PollEnds, PollFails, ConfirmEnds, ReconcileEnds, RdEnds, WaitElapses, Cancel, Finished, vars, Pictured,
     ControlInv, StartSteps, StopMapping, EndMappingByCancel, ResetMapped, Closing, SkipCur, Refuse
<1>5. CASE ReconcileEnds /\ ~draining /\ LateIds = {} /\ InLoader = {}
  BY <1>1, <1>2, <1>3, <1>5 DEF LateIds, Known
<1>6. CASE ClosingEnds
  <2>1. /\ locationId' = [b \in Board |-> NewId(b)]
        /\ leftInLoader' = leftInLoader \cup {b \in Board : Corrected(b)}
        /\ unattributed' = IF StrayPorts = {} /\ Cardinality(StrayIds) <= Cardinality(Renumbered)
                           THEN unattributed ELSE unattributed \cup StrayIds
    BY <1>0, <1>6 DEF ClosingEnds
  <2>2. CASE d \in StrayIds
    <3>1. d \in StrayPorts
      BY <1>1, <1>2, <2>2 DEF StrayIds, StrayPorts, PortAndIdAreOne
    <3> QED
      BY <2>1, <2>2, <3>1
  <2>3. CASE d \notin StrayIds
    <3>1. PICK b \in Bound : locationId[b] = d
      BY <1>1, <1>2, <2>3 DEF StrayIds
    <3>2. b \in Board /\ b \notin maskrom /\ port[b] = d /\ b \notin Renumbered
      BY <1>1, <1>3, <3>1 DEF Bound, PortAndIdAreOne, Renumbered
    <3>3. NewId(b) = d
      BY <3>1, <3>2 DEF NewId
    <3>4. b \in leftInLoader \/ Corrected(b)
      BY <1>1, <3>1, <3>2, <3>3 DEF Corrected
    <3> QED
      BY <2>1, <3>2, <3>3, <3>4
  <2> QED
    BY <2>2, <2>3
<1> QED
  BY <1>4, <1>5, <1>6

\* A run that rebooted a board and got its last picture tells of every device
\* that LD lists in Loader mode: a board's own that is left there, or nobody's
\* (FleetFlasher::closeRun(), reconcile()).
THEOREM LastPictureTellsAll == Spec => EndTellsAll
<1>1. Init => MaskromInv
  BY DEF Init, MaskromInv
<1>2. TypeOK /\ ControlInv /\ MaskromInv /\ [Next]_vars => MaskromInv'
  BY NextMaskrom
<1>3. TypeOK /\ ControlInv /\ MaskromInv /\ [Next]_vars => [TellsAll]_vars
  BY LastPictureTells
<1>4. EndTellsAll <=> [][TellsAll]_vars
  BY DEF EndTellsAll, TellsAll
<1> QED
  BY <1>1, <1>2, <1>3, <1>4, Base, PTL DEF Spec

=============================================================================
