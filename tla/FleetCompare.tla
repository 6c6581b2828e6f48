------------------------------ MODULE FleetCompare ------------------------------
(***************************************************************************)
(* FleetFlasher::compare(), the difference method: which board left ADB,   *)
(* which download-mode port appeared and which LocationID is new between   *)
(* the picture taken before a board's `reboot loader' and one taken after  *)
(* it.  It is a pure function of two pictures; the mapping calls it at     *)
(* every poll.                                                             *)
(***************************************************************************)
EXTENDS FiniteSets

CONSTANTS
    Port,   \* USB port keys
    Id      \* LocationIDs upgrade_tool can list

\* The ADB gadgets and the download-mode devices of the bus, and what LD lists,
\* each LocationID in one mode.
Snapshot ==
    {s \in [adb : SUBSET Port, download : SUBSET Port, loader : SUBSET Id, maskrom : SUBSET Id] :
        s.loader \cap s.maskrom = {}}

Ids(s) == s.loader \cup s.maskrom

Vanished(before, after) == before.adb \ after.adb
Appeared(before, after) == after.download \ before.download
NewIds(before, after) == Ids(after) \ Ids(before)

\* size() > 1
Several(S) == \E x, y \in S : x # y

Pending == {"StillOnAdb", "GhostOnPort", "LdOnly", "LoaderNotEnumerated", "LdNotListing"}
Stops == {"Ambiguous", "ForeignLoader", "PortMismatch"}
Verdicts == Pending \cup Stops \cup {"Mapped", "Maskrom"}

\* The bus shows a download-mode device appearing while no ADB device left.
CompareNobodyLeft(before, after) ==
    LET appeared == Appeared(before, after)
    IN IF appeared = {} THEN "LdOnly"
       ELSE IF appeared \subseteq after.adb THEN "GhostOnPort" ELSE "ForeignLoader"

CompareLeftAnyPort(before, after) ==
    LET appeared == Appeared(before, after)
    IN IF appeared = {} THEN "LoaderNotEnumerated"
       ELSE IF NewIds(before, after) = {} THEN "LdNotListing"
       ELSE IF NewIds(before, after) \subseteq after.maskrom THEN "Maskrom"
       ELSE "Mapped"

\* One board left its port.
CompareLeft(before, after) ==
    LET vanished == Vanished(before, after)
        appeared == Appeared(before, after)
    IN IF appeared = {} THEN "LoaderNotEnumerated"
       ELSE IF appeared # vanished THEN "PortMismatch"
       ELSE IF NewIds(before, after) = {} THEN "LdNotListing"
       ELSE IF NewIds(before, after) \subseteq after.maskrom THEN "Maskrom"
       ELSE "Mapped"

\* compare(), in the order of its early returns.
Compare(before, after) ==
    LET vanished == Vanished(before, after)
        appeared == Appeared(before, after)
        newIds == NewIds(before, after)
    IN IF vanished = {} /\ appeared = {} /\ newIds = {} THEN "StillOnAdb"
       ELSE IF Several(vanished) \/ Several(appeared) \/ Several(newIds) THEN "Ambiguous"
       ELSE IF vanished = {} THEN CompareNobodyLeft(before, after)
       ELSE CompareLeft(before, after)

-----------------------------------------------------------------------------
(* The table the class comment of FleetFlasher.h gives, one row a verdict.  *)

Nobody(S) == S = {}
One(S) == S # {} /\ ~Several(S)

Row(verdict, before, after) ==
    LET vanished == Vanished(before, after)
        appeared == Appeared(before, after)
        newIds == NewIds(before, after)
        several == Several(vanished) \/ Several(appeared) \/ Several(newIds)
        samePort == One(vanished) /\ appeared = vanished
    IN \/ verdict = "StillOnAdb" /\ Nobody(vanished) /\ Nobody(appeared) /\ Nobody(newIds)
       \/ verdict = "Ambiguous" /\ several
       \/ verdict = "GhostOnPort" /\ ~several /\ Nobody(vanished) /\ One(appeared) /\ appeared \subseteq after.adb
       \/ verdict = "ForeignLoader" /\ ~several /\ Nobody(vanished) /\ One(appeared) /\ ~(appeared \subseteq after.adb)
       \/ verdict = "LdOnly" /\ Nobody(vanished) /\ Nobody(appeared) /\ One(newIds)
       \/ verdict = "PortMismatch" /\ ~several /\ One(vanished) /\ One(appeared) /\ vanished # appeared
       \/ verdict = "LoaderNotEnumerated" /\ ~several /\ One(vanished) /\ Nobody(appeared)
       \/ verdict = "LdNotListing" /\ samePort /\ Nobody(newIds)
       \/ verdict = "Mapped" /\ samePort /\ One(newIds) /\ newIds \subseteq after.loader
       \/ verdict = "Maskrom" /\ samePort /\ One(newIds) /\ newIds \subseteq after.maskrom

\* The table gives every pair of pictures one verdict, and it is compare()'s.
TableAgrees(before, after) == {v \in Verdicts : Row(v, before, after)} = {Compare(before, after)}

\* The same picture with devices in download mode that it did not show.
Beside(s, ports, ids) == [s EXCEPT !.download = @ \cup ports, !.loader = @ \cup ids]

\* "Everything that was there at the baseline is excluded by the differences
\* themselves": devices both pictures show change no verdict.
ForeignExcluded(before, after) ==
    \A ports \in SUBSET (Port \ after.download), ids \in SUBSET (Id \ Ids(after)) :
        Compare(Beside(before, ports, ids), Beside(after, ports, ids)) = Compare(before, after)

=============================================================================
