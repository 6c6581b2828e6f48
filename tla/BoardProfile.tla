---------------------------- MODULE BoardProfile ----------------------------
(***************************************************************************)
(* What the firmware tools know of a board's kind (firmware/BoardProfile): *)
(* the evidence in its order, and the rules that refuse a write.  An       *)
(* override, a Loader PID, a product string or a layout is represented by  *)
(* the profile it names; a layout no profile has is "other", an absent or  *)
(* unreadable one "none".                                                  *)
(***************************************************************************)
EXTENDS Naturals, Sequences

Unknown == "unknown"
Node == "node"
Stacked == "stacked"
Profiles == {Node, Stacked}
Layouts == Profiles \cup {"other", "none"}

\* The partitions whose loss takes the board's boot with it.
bootloaderPartitions == {"idblock", "uboot", "env", "meta"}

\* The facts of the table the rules read.
maskromKnown(profile) == profile # Stacked
cc1310ResetCutsSocPower(profile) == profile = Stacked

byLayout(layout) == IF layout \in Profiles THEN layout ELSE Unknown

\* The first piece of evidence that names a profile.
FirstKnown(evidence) ==
    LET known == {i \in DOMAIN evidence : evidence[i] \in Profiles}
    IN IF known = {} THEN Unknown ELSE evidence[CHOOSE i \in known : \A j \in known : i <= j]

detectBoard(override, pid, product, layout) ==
    FirstKnown(<<override, pid, product, byLayout(layout)>>)

detectImage(chipTag, layout) == FirstKnown(<<chipTag, byLayout(layout)>>)

\* Two known profiles that are not the same one.
Contradict(p, q) == p \in Profiles /\ q \in Profiles /\ p # q

imageRefusal(board, image) == Contradict(board, image)
\* A mutant: the owner knows better than the PID.
overrideTrusted(override, pid) == FALSE
overrideRefusal(override, pid) == Contradict(override, pid)
layoutRefusal(imageLayout, boardLayout) ==
    "none" \notin {imageLayout, boardLayout} /\ imageLayout # boardLayout
loaderPartitionRefusal(board, rows) ==
    board \in Profiles /\ ~maskromKnown(board) /\ rows \cap bootloaderPartitions # {}
=============================================================================
