----------------------------- MODULE SessionProofs -----------------------------
(***************************************************************************)
(* What TLAPS proves about what is around a session: the transfer dialog,  *)
(* for any hosts, any names and any number of edits, connects and answers; *)
(* the main window, for any number of sessions and any order of what goes  *)
(* on behind its questions; and the file sent to the board, of any number  *)
(* of chunks.                                                              *)
(***************************************************************************)
EXTENDS MCSession, TLAPS

-----------------------------------------------------------------------------
(* The transfer dialog (RemoteFileDialog): a transfer goes where the user  *)
(* meant it to.                                                            *)

\* A host is a directory, and neither "~" nor the absence of a host.
HostsAreDirectories == Hosts \cap {"", "none", "~"} = {}

-----------------------------------------------------------------------------
(* The form.                                                               *)

Path(path) == DOMAIN path = {"dir", "name"}

FormTyped(f) ==
    /\ DOMAIN f = {"up", "local", "remote", "ld", "rd"}
    /\ f.up \in BOOLEAN /\ f.ld \in BOOLEAN /\ f.rd \in BOOLEAN
    /\ \E d, n : f.local = [dir |-> d, name |-> n]
    /\ \E d, n : f.remote = [dir |-> d, name |-> n]

\* Where a destination the user typed may lead: itself, or a name of its own in
\* the directory he typed.
Leads(path, derived, written) ==
    \/ path = written /\ ~derived
    \/ IsDirectory(written) /\ path.dir \in {written.dir} \cup (IF written.dir = "~" THEN Hosts ELSE {})

\* The destination is what was typed, or nobody has typed it.
FormInv(f, written) ==
    /\ FormTyped(f)
    /\ f.up /\ written # NoPath => Leads(f.remote, f.rd, written)
    /\ f.up /\ written = NoPath => f.rd \/ f.remote = NoPath
    /\ ~f.up /\ written # NoPath => Leads(f.local, f.ld, written)
    /\ ~f.up /\ written = NoPath => f.ld \/ f.local = NoPath

Written == \E d, n : typed = [dir |-> d, name |-> n]

\* The home that is known is the one of the host the session is connected to.
HomeInv ==
    /\ target \in Hosts \cup {"none"}
    /\ home \in {"none", target} /\ cached \in Hosts \cup {"none"}
    /\ target # "none" => cached \in {"none", target}

DialogInv ==
    /\ FormInv(form, typed) /\ Written
    /\ HomeInv
    /\ OwnNameOrTyped

KnownTo(h) == h \in Hosts \cup {"none"}

\* Deriving the destination from the source keeps what the user typed.
LEMMA DerivedForm ==
    ASSUME HostsAreDirectories, NEW f, NEW written, FormInv(f, written), NEW h, KnownTo(h),
           NEW d, NEW n, written = [dir |-> d, name |-> n]
    PROVE  FormInv(Derived(f, h), written) /\ Derived(f, h).up = f.up
<1> DEFINE g == Derived(f, h)
<1>0. PICK ldir, lname, rdir, rname : f.local = [dir |-> ldir, name |-> lname] /\ f.remote = [dir |-> rdir, name |-> rname]
  BY DEF FormInv, FormTyped
<1>1. CASE g = f
  BY <1>1
<1>2. CASE f.up /\ g # f
  <2> DEFINE dir == UploadDirectory(f, h)
  <2>1. g = [f EXCEPT !.remote = [dir |-> dir, name |-> f.local.name], !.rd = TRUE]
        /\ IsFree(f.remote, f.rd) /\ ~(dir = "" /\ (~f.rd \/ f.remote = NoPath))
    BY <1>2 DEF Derived
  <2>2. FormTyped(g) /\ g.up = f.up /\ g.rd = TRUE /\ g.remote = [dir |-> dir, name |-> f.local.name]
    BY <2>1 DEF FormInv, FormTyped
  <2>3. ASSUME written # NoPath PROVE Leads(g.remote, g.rd, written)
    <3>1. Leads(f.remote, f.rd, written)
      BY <1>2, <2>3 DEF FormInv
    <3>2. IsDirectory(written) /\ f.remote.dir \in {written.dir} \cup (IF written.dir = "~" THEN Hosts ELSE {})
      BY <1>0, <2>1, <2>3, <3>1 DEF Leads, IsFree, IsDirectory, NoPath
    <3>3. f.remote.dir # "" /\ (IsDirectory(f.remote) \/ f.rd)
      <4>1. f.remote.dir # ""
        BY <3>2, \A host \in Hosts : host # "" DEF HostsAreDirectories, IsDirectory
      <4>2. f.remote # NoPath
        <5> SUFFICES ASSUME f.remote = NoPath PROVE FALSE
          OBVIOUS
        <5>1. NoPath.dir = ""
          BY DEF NoPath
        <5> QED
          BY <4>1, <5>1
      <4> QED
        BY <2>1, <4>1, <4>2 DEF IsFree
    <3>4. dir = IF f.remote.dir = "~" /\ h # "none" THEN h ELSE f.remote.dir
      BY <3>3 DEF UploadDirectory
    <3>5. dir \in {written.dir} \cup (IF written.dir = "~" THEN Hosts ELSE {})
      BY <3>2, <3>4 DEF KnownTo, HostsAreDirectories
    <3> QED
      BY <2>2, <3>2, <3>5 DEF Leads
  <2> QED
    BY <1>2, <2>2, <2>3 DEF FormInv
<1>3. CASE ~f.up /\ g # f
  <2> DEFINE dir == IF f.local.dir # "" THEN f.local.dir ELSE "Downloads"
             name == RemotePath(f, h).name
  <2>1. g = [f EXCEPT !.local = [dir |-> dir, name |-> name], !.ld = TRUE] /\ IsFree(f.local, f.ld)
    BY <1>3 DEF Derived
  <2>2. FormTyped(g) /\ g.up = f.up /\ g.ld = TRUE /\ g.local = [dir |-> dir, name |-> name]
    <3> HIDE DEF dir, name, g
    <3> QED
      BY <2>1 DEF FormInv, FormTyped
  <2>3. ASSUME written # NoPath PROVE Leads(g.local, g.ld, written)
    <3>1. Leads(f.local, f.ld, written)
      BY <1>3, <2>3 DEF FormInv
    <3>2. IsDirectory(written) /\ f.local.dir \in {written.dir} \cup (IF written.dir = "~" THEN Hosts ELSE {})
      BY <1>0, <2>1, <2>3, <3>1 DEF Leads, IsFree, IsDirectory, NoPath
    <3>3. f.local.dir # ""
      BY <3>2, \A host \in Hosts : host # "" DEF HostsAreDirectories, IsDirectory
    <3>4. g.local.dir = f.local.dir
      <4>1. dir = f.local.dir
        BY <3>3
      <4> HIDE DEF name, dir, g
      <4> QED
        BY <2>2, <4>1
    <3> QED
      BY <3>2, <3>4 DEF Leads
  <2> QED
    BY <1>3, <2>2, <2>3 DEF FormInv
<1> QED
  BY <1>1, <1>2, <1>3 DEF FormInv, FormTyped

-----------------------------------------------------------------------------
(* What the user does to a field.                                          *)

LEMMA LocalIsPath ==
    ASSUME NEW path \in LocalPaths
    PROVE  \E d, n : path = [dir |-> d, name |-> n]
BY DEF LocalPaths, NoPath

LEMMA RemoteIsPath ==
    ASSUME NEW path \in RemotePaths
    PROVE  \E d, n : path = [dir |-> d, name |-> n]
BY DEF RemotePaths

\* A local field written by the user is what he typed when it is the destination.
LEMMA LocalForm ==
    ASSUME NEW f, NEW written, FormInv(f, written), NEW path \in LocalPaths
    PROVE  FormInv([f EXCEPT !.local = path, !.ld = FALSE], IF f.up THEN written ELSE path)
<1> PICK d, n : path = [dir |-> d, name |-> n]
  BY LocalIsPath
<1> QED
  BY DEF FormInv, FormTyped, Leads

\* ... and so is a remote one.
LEMMA RemoteForm ==
    ASSUME NEW f, NEW written, FormInv(f, written), NEW path \in RemotePaths
    PROVE  FormInv([f EXCEPT !.remote = path, !.rd = FALSE], IF f.up THEN path ELSE written)
<1> PICK d, n : path = [dir |-> d, name |-> n]
  BY RemoteIsPath
<1> QED
  BY DEF FormInv, FormTyped, Leads

\* Roles that swapped leave a derived destination.
LEMMA TurnedForm ==
    ASSUME FormInv(form, typed), NEW role \in BOOLEAN, role # form.up
    PROVE  FormInv(Turned(role), NoPath) /\ Turned(role).up = role
BY DEF FormInv, FormTyped, Turned

\* The home is a derived destination when it was asked for, and no destination otherwise.
LEMMA HomeForm ==
    ASSUME HostsAreDirectories, FormInv(form, typed), Written, NEW h, KnownTo(h)
    PROVE  FormInv(HomeFilled(h), IF form.up THEN NoPath ELSE typed)
<1> DEFINE name == IF form.up THEN form.local.name ELSE RemotePath(form, h).name
           f == [form EXCEPT !.remote = [dir |-> h, name |-> name], !.rd = form.up]
<1>1. FormInv(f, IF form.up THEN NoPath ELSE typed) /\ f.up = form.up
  <2> HIDE DEF name
  <2> QED
    BY DEF FormInv, FormTyped
<1>2. HomeFilled(h) = IF form.up THEN f ELSE Derived(f, h)
  BY DEF HomeFilled
<1> HIDE DEF f
<1>3. CASE form.up
  BY <1>1, <1>2, <1>3
<1>4. CASE ~form.up
  <2> PICK d, n : typed = [dir |-> d, name |-> n]
    BY DEF Written
  <2> QED
    BY <1>1, <1>2, <1>4, DerivedForm
<1> QED
  BY <1>3, <1>4

\* The home that is known is one a destination may be derived from.
LEMMA HomeKnown ==
    ASSUME HomeInv
    PROVE  KnownTo(KnownHome)
BY DEF HomeInv, KnownTo, KnownHome

\* A field the user typed nothing into is completed, or the transfer is refused.
LEMMA RequestNames ==
    ASSUME NEW f, FormInv(f, NoPath), NEW g, g = Derived(f, KnownHome),
           Request(g).to # NoPath
    PROVE  Request(g).to.name = Request(g).from.name \/ Request(g).from.name = ""
<1> PICK ldir, lname, rdir, rname : f.local = [dir |-> ldir, name |-> lname] /\ f.remote = [dir |-> rdir, name |-> rname]
  BY DEF FormInv, FormTyped
<1>1. ASSUME NEW path, NEW d, NEW n, path = [dir |-> d, name |-> n], NEW h
      PROVE  Expanded(path, h).name = n
  BY <1>1 DEF Expanded
<1>2. CASE f.up
  <2> DEFINE dir == UploadDirectory(f, KnownHome)
  <2>1. f.rd \/ f.remote = NoPath
    BY <1>2 DEF FormInv
  <2>2. CASE f.local.name = ""
    <3>1. g.local = f.local /\ g.up
      BY <1>2, <2>2 DEF Derived
    <3> QED
      BY <2>2, <3>1 DEF Request
  <2>3. CASE f.local.name # "" /\ dir = "" /\ (~f.rd \/ f.remote = NoPath)
    <3>1. g = f /\ f.remote = NoPath
      BY <1>2, <2>1, <2>3 DEF Derived
    <3>2. RemotePath(f, KnownHome) = Expanded(NoPath, KnownHome)
      BY <3>1 DEF RemotePath
    <3>3. Expanded(NoPath, KnownHome) = NoPath
      <4>1. NoPath.dir = ""
        BY DEF NoPath
      <4> QED
        BY <4>1 DEF Expanded
    <3> QED
      BY <1>2, <3>1, <3>2, <3>3 DEF Request
  <2>4. CASE f.local.name # "" /\ ~(dir = "" /\ (~f.rd \/ f.remote = NoPath))
    <3>1. g = [f EXCEPT !.remote = [dir |-> dir, name |-> f.local.name], !.rd = TRUE]
      BY <1>2, <2>1, <2>4 DEF Derived, IsFree
    <3> HIDE DEF dir
    <3>2. g.up /\ g.local = f.local /\ g.remote = [dir |-> dir, name |-> f.local.name]
      BY <1>2, <3>1 DEF FormInv, FormTyped
    <3>3. Expanded(g.remote, KnownHome).name = f.local.name
      BY <1>1, <3>2
    <3>4. RemotePath(g, KnownHome).name = f.local.name
      BY <2>4, <3>3 DEF RemotePath
    <3> QED
      BY <3>2, <3>4 DEF Request
  <2> QED
    BY <2>2, <2>3, <2>4
<1>3. CASE ~f.up
  <2> DEFINE name == RemotePath(f, KnownHome).name
             dir == IF f.local.dir # "" THEN f.local.dir ELSE "Downloads"
  <2>1. IsFree(f.local, f.ld)
    BY <1>3 DEF FormInv, IsFree
  <2>2. CASE name = ""
    <3>1. g = f
      BY <1>3, <2>2 DEF Derived
    <3> QED
      BY <1>3, <2>2, <3>1 DEF Request
  <2>3. CASE name # ""
    <3>1. g = [f EXCEPT !.local = [dir |-> dir, name |-> name], !.ld = TRUE]
      BY <1>3, <2>1, <2>3 DEF Derived
    <3> HIDE DEF dir
    <3>2. ~g.up /\ g.remote = f.remote /\ g.local = [dir |-> dir, name |-> name]
      <4> HIDE DEF name
      <4> QED
        BY <1>3, <3>1 DEF FormInv, FormTyped
    <3>3. RemotePath(g, KnownHome) = RemotePath(f, KnownHome)
      BY <1>3, <3>2 DEF RemotePath
    <3>4. Request(g).to.name = name /\ Request(g).from.name = name
      BY <3>2, <3>3 DEF Request
    <3> QED
      BY <3>4
  <2> QED
    BY <2>2, <2>3
<1> QED
  BY <1>2, <1>3

-----------------------------------------------------------------------------
(* Every step keeps the invariant.                                         *)

LEMMA InitHolds ==
    ASSUME HostsAreDirectories, DialogInit
    PROVE  DialogInv
<1>1. form \in [up : {TRUE}, local : LocalPaths, remote : RemotePaths, ld : {TRUE}, rd : {TRUE}]
  BY DEF DialogInit
<1>2. FormTyped(form) /\ form.up /\ form.rd
  BY <1>1, LocalIsPath, RemoteIsPath DEF FormTyped
<1>3. FormInv(form, typed) /\ Written
  BY <1>2 DEF FormInv, DialogInit, Written, NoPath
<1>4. HomeInv
  BY DEF DialogInit, HomeInv
<1>5. OwnNameOrTyped
  BY DEF DialogInit, OwnNameOrTyped, Nowhere
<1> QED
  BY <1>3, <1>4, <1>5 DEF DialogInv

\* The form filled in after f keeps what was typed into f.
LEMMA FillsForm ==
    ASSUME HostsAreDirectories, HomeInv, NEW f, NEW written, FormInv(f, written),
           NEW d, NEW n, written = [dir |-> d, name |-> n], Fills(f)
    PROVE  FormInv(form', written)
BY HomeKnown, DerivedForm DEF Fills

LEMMA FormKept ==
    ASSUME HostsAreDirectories, DialogInv, [DialogNext]_dialogVars
    PROVE  FormInv(form', typed') /\ Written'
<1> USE DEF DialogInv
<1> PICK d, n : typed = [dir |-> d, name |-> n]
  BY DEF Written
<1>0. Written /\ \E dd, nn : NoPath = [dir |-> dd, name |-> nn]
  BY DEF NoPath
<1>1. CASE TypeLocal
  <2>1. PICK path \in LocalPaths : /\ form' = [form EXCEPT !.local = path, !.ld = FALSE]
                                  /\ typed' = IF form.up THEN typed ELSE path
    BY <1>1 DEF TypeLocal
  <2> QED
    BY <1>0, <2>1, LocalForm, LocalIsPath DEF Written
<1>2. CASE TypeRemote
  <2>1. PICK path \in RemotePaths : /\ form' = [form EXCEPT !.remote = path, !.rd = FALSE]
                                   /\ typed' = IF form.up THEN path ELSE typed
    BY <1>2 DEF TypeRemote
  <2> QED
    BY <1>0, <2>1, RemoteForm, RemoteIsPath DEF Written
<1>3. CASE LeaveField
  BY <1>0, <1>3, FillsForm DEF LeaveField, Written
<1>4. CASE Browse
  <2>1. PICK path \in LocalPaths : /\ Fills([form EXCEPT !.local = path, !.ld = FALSE])
                                  /\ typed' = IF form.up THEN typed ELSE path
    BY <1>4 DEF Browse
  <2>2. FormInv([form EXCEPT !.local = path, !.ld = FALSE], typed')
    BY <2>1, LocalForm
  <2>3. PICK dd, nn : typed' = [dir |-> dd, name |-> nn]
    BY <2>1, LocalIsPath
  <2> QED
    BY <2>1, <2>2, <2>3, FillsForm DEF Written
<1>5. CASE Switch
  <2>1. Fills(Turned(~form.up)) /\ typed' = NoPath
    BY <1>5 DEF Switch
  <2>2. FormInv(Turned(~form.up), NoPath)
    BY TurnedForm DEF FormInv, FormTyped
  <2> QED
    BY <1>0, <2>1, <2>2, FillsForm DEF Written
<1>6. CASE Drop
  <2> DEFINE turned == IF form.up THEN form ELSE Derived(Turned(TRUE), KnownHome)
  <2>1. PICK path \in LocalPaths : Fills([turned EXCEPT !.local = path, !.ld = FALSE])
    BY <1>6 DEF Drop
  <2>2. typed' = IF form.up THEN typed ELSE NoPath
    BY <1>6 DEF Drop
  <2>3. FormInv(turned, typed') /\ turned.up
    <3>1. CASE form.up
      BY <2>2, <3>1
    <3>2. CASE ~form.up
      <4>1. FormInv(Turned(TRUE), NoPath) /\ Turned(TRUE).up
        BY <3>2, TurnedForm
      <4> QED
        BY <1>0, <2>2, <3>2, <4>1, HomeKnown, DerivedForm
    <3> QED
      BY <3>1, <3>2
  <2> HIDE DEF turned
  <2>4. FormInv([turned EXCEPT !.local = path, !.ld = FALSE], typed')
    BY <2>3, LocalForm
  <2>5. Written'
    BY <1>0, <2>2 DEF Written
  <2> QED
    BY <2>1, <2>4, <2>5, FillsForm DEF Written
<1>7. CASE HomeButton
  <2>1. CASE KnownHome # "none"
    <3>1. form' = HomeFilled(KnownHome) /\ typed' = IF form.up THEN NoPath ELSE typed
      BY <1>7, <2>1 DEF HomeButton
    <3> QED
      BY <1>0, <3>1, HomeKnown, HomeForm DEF Written
  <2>2. CASE KnownHome = "none"
    BY <1>0, <1>7, <2>2 DEF HomeButton, Written
  <2> QED
    BY <2>1, <2>2
<1>8. CASE HomeReceived
  <2>1. KnownTo(target)
    BY DEF HomeInv, KnownTo
  <2>2. CASE form' = (IF wanted THEN HomeFilled(target) ELSE Derived(form, target))
             /\ typed' = IF wanted /\ form.up THEN NoPath ELSE typed
    <3>1. CASE wanted
      BY <1>0, <2>1, <2>2, <3>1, HomeForm DEF Written
    <3>2. CASE ~wanted
      BY <1>0, <2>1, <2>2, <3>2, DerivedForm DEF Written
    <3> QED
      BY <3>1, <3>2
  <2>3. CASE form' = form /\ typed' = typed
    BY <1>0, <2>3 DEF Written
  <2>4. CASE /\ form.up /\ form.remote = NoPath /\ typed' = typed
             /\ form' = [form EXCEPT !.remote = [dir |-> "", name |-> form.local.name], !.rd = TRUE]
    <3>1. typed = NoPath
      <4> SUFFICES ASSUME typed # NoPath PROVE FALSE
        OBVIOUS
      <4>1. Leads(NoPath, form.rd, typed)
        BY <2>4 DEF FormInv
      <4>2. NoPath.dir = ""
        BY DEF NoPath
      <4> QED
        BY <4>1, <4>2, \A host \in Hosts : host # "" DEF Leads, IsDirectory, HostsAreDirectories
    <3>2. FormInv(form', NoPath)
      BY <2>4 DEF FormInv, FormTyped
    <3> QED
      BY <1>0, <2>4, <3>1, <3>2 DEF Written
  <2> QED
    BY <1>8, <2>2, <2>3, <2>4 DEF HomeReceived
<1>9. CASE Start
  BY <1>0, <1>9, FillsForm DEF Start, Written
<1>10. CASE Connects \/ Disconnects \/ Reconnects \/ Finishes \/ UNCHANGED dialogVars
  BY <1>0, <1>10 DEF Connects, Disconnects, Reconnects, Finishes, dialogVars, Written
<1> QED
  BY <1>1, <1>2, <1>3, <1>4, <1>5, <1>6, <1>7, <1>8, <1>9, <1>10 DEF DialogNext, UserStep, Session

LEMMA HomeKept ==
    ASSUME HostsAreDirectories, HomeInv, [DialogNext]_dialogVars
    PROVE  HomeInv'
<1> USE DEF HomeInv
<1>1. CASE UserStep \/ Finishes \/ UNCHANGED dialogVars
  BY <1>1 DEF UserStep, TypeLocal, TypeRemote, LeaveField, Browse, Switch, Drop, HomeButton, Start, Finishes, dialogVars
<1>2. CASE HomeReceived
  BY <1>2 DEF HomeReceived
<1>3. CASE Connects
  BY <1>3 DEF Connects
<1>4. CASE Disconnects
  BY <1>4 DEF Disconnects
<1>5. CASE Reconnects
  BY <1>5 DEF Reconnects
<1> QED
  BY <1>1, <1>2, <1>3, <1>4, <1>5 DEF DialogNext, Session

LEMMA NameKept ==
    ASSUME HostsAreDirectories, DialogInv, [DialogNext]_dialogVars
    PROVE  OwnNameOrTyped'
<1>1. CASE Start
  <2>1. CASE sent' = sent
    BY <2>1 DEF DialogInv, OwnNameOrTyped
  <2>2. CASE sent' = Request(form') /\ Request(form').to # NoPath
    <3>1. Request(form').typed = (typed # NoPath)
      BY DEF Request
    <3>2. CASE typed = NoPath
      BY <1>1, <2>2, <3>2, RequestNames DEF Start, Fills, DialogInv, OwnNameOrTyped
    <3> QED
      BY <2>2, <3>1, <3>2 DEF OwnNameOrTyped
  <2> QED
    BY <1>1, <2>1, <2>2 DEF Start
<1>2. CASE ~Start
  <2>1. sent' = sent
    BY <1>2 DEF DialogNext, UserStep, Session, TypeLocal, TypeRemote, LeaveField, Browse, Switch, Drop, HomeButton,
                HomeReceived, Connects, Disconnects, Reconnects, Finishes, dialogVars
  <2> QED
    BY <2>1 DEF DialogInv, OwnNameOrTyped
<1> QED
  BY <1>1, <1>2

\* A transfer goes where the user meant it to, whatever hosts he connects to and whenever their
\* homes are answered: what he typed is kept, and what nobody typed has the name of what is
\* copied (RemoteFileDialog::applyDefaults()).
THEOREM DestinationsAreMeant ==
    ASSUME HostsAreDirectories
    PROVE  DialogSpec => []DestinationIsMeant
<1>1. DialogInit => DialogInv
  BY InitHolds
<1>2. DialogInv /\ [DialogNext]_dialogVars => DialogInv'
  <2> SUFFICES ASSUME DialogInv, [DialogNext]_dialogVars PROVE DialogInv'
    OBVIOUS
  <2>1. HomeInv'
    BY HomeKept DEF DialogInv
  <2> QED
    BY <2>1, FormKept, NameKept DEF DialogInv
<1>3. DialogInv => DestinationIsMeant
  <2> SUFFICES ASSUME DialogInv PROVE DestinationIsMeant
    OBVIOUS
  <2>1. TypedIsKept
    BY DEF DialogInv, FormInv, FormTyped, Leads, TypedIsKept, Completes
  <2>2. HomeIsOfTheHost
    BY DEF DialogInv, HomeInv, HomeIsOfTheHost, KnownHome
  <2> QED
    BY <2>1, <2>2 DEF DialogInv, DestinationIsMeant
<1> QED
  BY <1>1, <1>2, <1>3, PTL DEF DialogSpec

-----------------------------------------------------------------------------
(* The main window (MainWindow).                                           *)

\* A session is none of the other things a question can be about.
SessionsAreNoQuestions == Sessions \cap {"none", "quit", "quit firmware"} = {}

\* What a question is about is there, and a closed window asks nothing.
WindowInv ==
    /\ QuitLeavesNothing
    /\ open \subseteq Sessions /\ Sessions # {}
    /\ window \in {"open", "closed"}
    /\ window = "closed" => question = "none"

LEMMA InitWindowInv == SessionsAreNoQuestions /\ WindowInit => WindowInv
  BY DEF SessionsAreNoQuestions, WindowInit, WindowInv, QuitLeavesNothing

LEMMA NeverEmptyIs ==
    ASSUME Sessions # {}, NEW tabs \in SUBSET Sessions, NEW tab
    PROVE  /\ NeverEmpty(tabs, tab) \in SUBSET Sessions
           /\ tabs \subseteq NeverEmpty(tabs, tab)
           /\ NeverEmpty(tabs, tab) # {} \/ tab # "none"
  BY DEF NeverEmpty

\* A tab that is removed takes its link and its log with it.
LEMMA RemoveWindowInv ==
    ASSUME WindowInv, window = "open", NEW s, RemoveSession(s), question' = question \/ question' = "none",
           UNCHANGED <<firmware, window>>
    PROVE  WindowInv'
<1>1. open \ {s} \in SUBSET Sessions
  BY DEF WindowInv
<1>2. open' \in SUBSET Sessions /\ open \ {s} \subseteq open' /\ (open' # {} \/ firmware # "none")
  BY <1>1, NeverEmptyIs DEF RemoveSession, WindowInv
<1> QED
  BY <1>2 DEF RemoveSession, WindowInv, QuitLeavesNothing

LEMMA AcceptsWindowInv ==
    ASSUME WindowInv, Accepts, UNCHANGED open
    PROVE  WindowInv'
<1>1. window' = "closed" /\ question' = "none" /\ up' = {} /\ logging' = {}
      /\ ~profiles'.dirty /\ firmware' # "waiting"
  BY DEF Accepts
<1> QED
  BY <1>1 DEF WindowInv, QuitLeavesNothing

LEMMA NextWindowInv ==
    ASSUME SessionsAreNoQuestions, WindowInv, [WindowNext]_mainWindow
    PROVE  WindowInv'
<1> USE DEF WindowInv, QuitLeavesNothing
<1>1. CASE Link
  BY <1>1 DEF Link
<1>2. CASE Operation
  BY <1>2 DEF Operation
<1>3. CASE ProfileChanges
  BY <1>3 DEF ProfileChanges
<1>4. CASE ProfilesSaved
  BY <1>4 DEF ProfilesSaved
<1>5. CASE NewSession
  BY <1>5 DEF NewSession, UserActs
<1>6. CASE ToggleLog
  BY <1>6 DEF ToggleLog, UserActs
<1>7. CASE CloseSession
  <2>1. PICK s \in open : \/ question' = s /\ UNCHANGED <<open, up, logging, profiles>>
                          \/ RemoveSession(s) /\ UNCHANGED question
    BY <1>7 DEF CloseSession
  <2>2. window = "open" /\ UNCHANGED <<firmware, window>>
    BY <1>7 DEF CloseSession, UserActs
  <2>3. CASE question' = s /\ UNCHANGED <<open, up, logging, profiles>>
    BY <2>2, <2>3
  <2>4. CASE RemoveSession(s) /\ UNCHANGED question
    BY <2>2, <2>4, RemoveWindowInv
  <2> QED
    BY <2>1, <2>3, <2>4
<1>8. CASE CloseAnswered
  <2>1. question # "none" /\ window = "open" /\ question' = "none" /\ UNCHANGED <<firmware, window>>
    BY <1>8 DEF CloseAnswered, SessionsAreNoQuestions
  <2>2. CASE RemoveSession(question)
    BY <2>1, <2>2, RemoveWindowInv
  <2>3. CASE UNCHANGED <<open, up, logging, profiles>>
    BY <2>1, <2>3
  <2> QED
    BY <1>8, <2>2, <2>3 DEF CloseAnswered
<1>9. CASE ShowFirmware \/ BeginOperation
  BY <1>9 DEF ShowFirmware, BeginOperation, UserActs
<1>10. CASE CloseFirmware
  <2>1. open \in SUBSET Sessions /\ open' \in SUBSET Sessions /\ open \subseteq open' /\ open' # {}
    BY <1>10, NeverEmptyIs DEF CloseFirmware
  <2> QED
    BY <1>10, <2>1 DEF CloseFirmware, UserActs
<1>11. CASE Quit
  <2>1. CASE Accepts
    BY <1>11, <2>1, AcceptsWindowInv DEF Quit
  <2>2. CASE UNCHANGED <<up, logging, firmware, profiles, window, killed>>
    BY <1>11, <2>2 DEF Quit, UserActs
  <2> QED
    BY <1>11, <2>1, <2>2 DEF Quit
<1>12. CASE QuitAnswered
  <2>1. CASE Accepts
    BY <1>12, <2>1, AcceptsWindowInv DEF QuitAnswered
  <2>2. CASE question' = "none" /\ UNCHANGED <<up, logging, firmware, profiles, window, killed>>
    BY <1>12, <2>2 DEF QuitAnswered
  <2> QED
    BY <1>12, <2>1, <2>2 DEF QuitAnswered
<1>13. CASE UNCHANGED mainWindow
  BY <1>13 DEF mainWindow
<1> QED
  BY <1>1, <1>2, <1>3, <1>4, <1>5, <1>6, <1>7, <1>8, <1>9, <1>10, <1>11, <1>12, <1>13 DEF WindowNext, Behind, Tabs

\* Whatever happens behind its questions, a window that is open has a tab, and
\* one that has closed left no link, no log, no waiting operation and no unsaved
\* profile (closeSession(), closeEvent()).
THEOREM QuittingLeavesNothing ==
    ASSUME SessionsAreNoQuestions
    PROVE  WindowSpec => []QuitLeavesNothing
<1>1. WindowInv => QuitLeavesNothing
  BY DEF WindowInv
<1>2. WindowInit => WindowInv
  BY InitWindowInv
<1>3. WindowInv /\ [WindowNext]_mainWindow => WindowInv'
  BY NextWindowInv
<1> QED
  BY <1>1, <1>2, <1>3, PTL DEF WindowSpec

\* No tab with a firmware operation in it is ever closed (closeSession()).
THEOREM OperationsKeepTheirTab == WindowSpec => BusyTabStays
<1>1. [WindowNext]_mainWindow => [Busy => firmware' # "none"]_mainWindow
  <2> SUFFICES ASSUME [WindowNext]_mainWindow, Busy PROVE firmware' # "none" \/ UNCHANGED mainWindow
    OBVIOUS
  <2> QED
    BY DEF Busy, WindowNext, Behind, Tabs, Link, Operation, ProfileChanges, ProfilesSaved, NewSession, ToggleLog,
           CloseSession, CloseAnswered, ShowFirmware, BeginOperation, CloseFirmware, Quit, QuitAnswered, Accepts
<1> QED
  BY <1>1, PTL DEF WindowSpec, BusyTabStays

-----------------------------------------------------------------------------
(* The file that is sent (FileSend).                                       *)

\* A file has a chunk.
FileAssumption == Chunks \in Nat \ {0}

Elems(s) == {s[i] : i \in 1..Len(s)}
Rises(s) == \A i, j \in 1..Len(s) : i < j => s[i] < s[j]

\* The chunks the sender has handed over.
Given == IF sender.run THEN sender.pos ELSE IF outcome = "completed" THEN Chunks ELSE 0

\* What left the port comes before what waits in its buffer, and both before what is still to be
\* handed over; unless the send was aborted no chunk is missing from the wire, the buffer and what
\* was told lost.  A send is paused by its user while the session is not connected.
SendInv ==
    /\ sender \in [run : BOOLEAN, paused : BOOLEAN, armed : BOOLEAN, pos : Nat]
    /\ queue \in Seq(Nat) /\ out \in Seq(Nat)
    /\ Rises(out) /\ Rises(queue) /\ \A x \in Elems(out), y \in Elems(queue) : x < y
    /\ sender.run => /\ outcome = "none" /\ sender.pos < Chunks
                     /\ \A x \in Elems(out) \cup Elems(queue) : x <= sender.pos
    /\ outcome # "aborted" => Elems(out) \cup Elems(queue) \cup lost = 1..Given
    /\ awaitingDrain => outcome = "completed"
    /\ bar = "100" => outcome = "completed" /\ queue = <<>>
    /\ sender.run /\ userPaused => sender.paused
    /\ sender.run /\ ~connected => userPaused

LEMMA ChunkAppended ==
    ASSUME NEW s \in Seq(Nat), NEW x \in Nat, Rises(s), \A y \in Elems(s) : y < x
    PROVE  /\ Append(s, x) \in Seq(Nat) /\ Len(Append(s, x)) > 0
           /\ Rises(Append(s, x)) /\ Elems(Append(s, x)) = Elems(s) \cup {x}
<1> DEFINE t == Append(s, x)
<1>1. /\ t \in Seq(Nat) /\ Len(s) \in Nat /\ Len(t) = Len(s) + 1
      /\ t[Len(s) + 1] = x /\ \A i \in 1..Len(s) : t[i] = s[i]
  OBVIOUS
<1> HIDE DEF t
<1>2. Elems(t) = Elems(s) \cup {x}
  BY <1>1 DEF Elems
<1>3. Rises(t)
  <2> SUFFICES ASSUME NEW i \in 1..Len(t), NEW j \in 1..Len(t), i < j
               PROVE  t[i] < t[j]
    BY DEF Rises
  <2>1. i \in 1..Len(s) /\ s[i] \in Elems(s) /\ t[i] = s[i]
    BY <1>1 DEF Elems
  <2>2. CASE j = Len(s) + 1
    <3>1. t[j] = x /\ s[i] < x
      BY <1>1, <2>1, <2>2
    <3> QED
      BY <2>1, <3>1
  <2>3. CASE j # Len(s) + 1
    <3>1. Len(s) \in Nat /\ Len(t) = Len(s) + 1
      BY <1>1
    <3>2. j \in 1..Len(s)
      BY <2>3, <3>1
    <3>3. t[j] = s[j]
      BY <1>1, <3>2
    <3> QED
      BY <2>1, <3>2, <3>3 DEF Rises
  <2> QED
    BY <2>2, <2>3
<1> QED
  BY <1>1, <1>2, <1>3 DEF t

LEMMA ChunkTaken ==
    ASSUME NEW s \in Seq(Nat), s # <<>>, Rises(s)
    PROVE  /\ Tail(s) \in Seq(Nat) /\ Head(s) \in Nat /\ Rises(Tail(s))
           /\ Elems(s) = {Head(s)} \cup Elems(Tail(s)) /\ \A y \in Elems(Tail(s)) : Head(s) < y
<1> DEFINE t == Tail(s)
<1>1. /\ t \in Seq(Nat) /\ Head(s) = s[1] /\ Head(s) \in Nat /\ Len(s) \in Nat \ {0} /\ Len(t) = Len(s) - 1
      /\ \A i \in 1..Len(t) : t[i] = s[i + 1]
  OBVIOUS
<1> HIDE DEF t
<1>2. Elems(s) = {Head(s)} \cup Elems(t)
  <2>1. \A i \in 1..Len(t) : i + 1 \in 1..Len(s)
    BY <1>1
  <2>2. Elems(t) \subseteq Elems(s) /\ Head(s) \in Elems(s)
    BY <1>1, <2>1 DEF Elems
  <2>3. ASSUME NEW i \in 1..Len(s)
        PROVE  s[i] \in {Head(s)} \cup Elems(t)
    <3>1. CASE i = 1
      BY <1>1, <3>1
    <3>2. CASE i # 1
      <4>1. i - 1 \in 1..Len(t) /\ t[i - 1] = s[i]
        BY <1>1, <3>2
      <4> QED
        BY <4>1 DEF Elems
    <3> QED
      BY <3>1, <3>2
  <2> QED
    BY <2>2, <2>3 DEF Elems
<1>3. Rises(t) /\ \A y \in Elems(t) : Head(s) < y
  <2>1. \A i \in 1..Len(t) : i + 1 \in 1..Len(s) /\ t[i] = s[i + 1]
    BY <1>1
  <2>2. \A i \in 1..Len(t) : s[1] < s[i + 1]
    <3>1. 1 \in 1..Len(s) /\ \A i \in 1..Len(t) : 1 < i + 1
      BY <1>1
    <3> QED
      BY <2>1, <3>1 DEF Rises
  <2>3. \A i, j \in 1..Len(t) : i < j => i + 1 < j + 1
    BY <1>1
  <2>4. Rises(t)
    BY <2>1, <2>3 DEF Rises
  <2> QED
    BY <1>1, <2>1, <2>2, <2>4 DEF Elems
<1> QED
  BY <1>1, <1>2, <1>3 DEF t

LEMMA SendBegins ==
    ASSUME Send!SendInit
    PROVE  SendInv
<1>1. <<>> \in Seq(Nat) /\ Len(<<>>) = 0
  OBVIOUS
<1> QED
  BY <1>1 DEF Send!SendInit, Send!Idle, SendInv, Rises, Elems, Given

\* A sender that is paused or let go is the same sender.
LEMMA SameSender ==
    ASSUME SendInv
    PROVE  /\ Send!Paused(sender) \in [run : BOOLEAN, paused : BOOLEAN, armed : BOOLEAN, pos : Nat]
           /\ Send!Paused(sender).run = sender.run /\ Send!Paused(sender).pos = sender.pos
           /\ sender.run => Send!Paused(sender).paused
           /\ Send!Running(sender) \in [run : BOOLEAN, paused : BOOLEAN, armed : BOOLEAN, pos : Nat]
           /\ Send!Running(sender).run = sender.run /\ Send!Running(sender).pos = sender.pos
<1>1. sender \in [run : BOOLEAN, paused : BOOLEAN, armed : BOOLEAN, pos : Nat]
  BY DEF SendInv
<1>2. /\ Send!Paused(sender) \in [run : BOOLEAN, paused : BOOLEAN, armed : BOOLEAN, pos : Nat]
      /\ Send!Paused(sender).run = sender.run /\ Send!Paused(sender).pos = sender.pos
      /\ sender.run => Send!Paused(sender).paused
  BY <1>1 DEF Send!Paused
<1>3. /\ Send!Running(sender) \in [run : BOOLEAN, paused : BOOLEAN, armed : BOOLEAN, pos : Nat]
      /\ Send!Running(sender).run = sender.run /\ Send!Running(sender).pos = sender.pos
  BY <1>1 DEF Send!Running
<1> QED
  BY <1>2, <1>3

\* The end of a send that hands over no chunk.
LEMMA SendAborted ==
    ASSUME SendInv, sender.run, Send!Finished(FALSE), UNCHANGED <<connected, queue, out, lost>>
    PROVE  SendInv'
<1>1. /\ sender' = [run |-> FALSE, paused |-> FALSE, armed |-> FALSE, pos |-> 0] /\ outcome' = "aborted"
      /\ ~awaitingDrain' /\ bar' = bar
  BY DEF Send!Finished, Send!Idle
<1> QED
  BY <1>1 DEF SendInv, Rises, Elems

LEMMA SendStarts ==
    ASSUME FileAssumption, SendInv, Send!Start
    PROVE  SendInv'
<1>1. /\ connected /\ ~sender.run /\ outcome = "none" /\ bar' = "part" /\ ~userPaused' /\ ~awaitingDrain'
      /\ sender' = [run |-> TRUE, paused |-> FALSE, armed |-> TRUE, pos |-> 0]
      /\ UNCHANGED <<connected, queue, out, lost, outcome>>
  BY DEF Send!Start, Send!Idle, Send!line
<1>2. Elems(out) \cup Elems(queue) \cup lost = {}
  BY <1>1 DEF SendInv, Given
<1>3. 1..Given' = {}
  BY <1>1 DEF Given
<1>4. Elems(out)' = Elems(out) /\ Elems(queue)' = Elems(queue) /\ Rises(out)' = Rises(out) /\ Rises(queue)' = Rises(queue)
  BY <1>1 DEF Elems, Rises
<1> QED
  BY <1>1, <1>2, <1>3, <1>4 DEF SendInv, FileAssumption

\* The next chunk, the last one among them.
LEMMA SendsNext ==
    ASSUME FileAssumption, SendInv, Send!SendNext
    PROVE  SendInv'
<1>1. sender \in [run : BOOLEAN, paused : BOOLEAN, armed : BOOLEAN, pos : Nat] /\ sender.run /\ UNCHANGED connected
  BY DEF SendInv, Send!SendNext
<1>2. CASE sender' = [sender EXCEPT !.armed = FALSE] /\ UNCHANGED <<userPaused, awaitingDrain, bar, queue, out, lost, outcome>>
  <2>1. /\ sender' \in [run : BOOLEAN, paused : BOOLEAN, armed : BOOLEAN, pos : Nat]
        /\ sender'.run /\ sender'.paused = sender.paused /\ sender'.pos = sender.pos
    BY <1>1, <1>2
  <2>2. Elems(out)' = Elems(out) /\ Elems(queue)' = Elems(queue) /\ Rises(out)' = Rises(out) /\ Rises(queue)' = Rises(queue)
    BY <1>2 DEF Elems, Rises
  <2> QED
    BY <1>1, <1>2, <2>1, <2>2 DEF SendInv, Given
<1>3. ASSUME ~sender.paused, queue' = Append(queue, sender.pos + 1), lastPending' = Len(queue'), UNCHANGED <<out, lost>>,
             IF sender.pos + 1 = Chunks
               THEN Send!Finished(TRUE)
               ELSE /\ sender' = [Send!Held(sender, lastPending') EXCEPT !.pos = @ + 1, !.armed = TRUE]
                    /\ UNCHANGED <<userPaused, awaitingDrain, bar, outcome>>
      PROVE  SendInv'
  <2> DEFINE x == sender.pos + 1
  <2>1. /\ x \in Nat /\ x <= Chunks /\ ~userPaused /\ outcome = "none" /\ connected
        /\ \A y \in Elems(out) \cup Elems(queue) : y < x
        /\ Elems(out) \cup Elems(queue) \cup lost = 1..sender.pos
    <3>1. /\ sender.pos < Chunks /\ sender.pos \in Nat /\ Chunks \in Nat
          /\ \A y \in Elems(out) \cup Elems(queue) : y <= sender.pos
          /\ Elems(out) \cup Elems(queue) \subseteq Nat
      BY <1>1 DEF SendInv, FileAssumption, Elems
    <3>2. \A y \in Nat : y <= sender.pos => y < sender.pos + 1
      BY <3>1
    <3>3. \A y \in Elems(out) \cup Elems(queue) : y < x
      BY <3>1, <3>2
    <3> QED
      BY <1>1, <1>3, <3>1, <3>3 DEF SendInv, Given
  <2>2. /\ queue' \in Seq(Nat) /\ Len(queue') > 0 /\ Rises(queue)' /\ Elems(queue)' = Elems(queue) \cup {x}
    <3>1. queue \in Seq(Nat) /\ Rises(queue) /\ \A y \in Elems(queue) : y < x
      BY <2>1 DEF SendInv
    <3>2. /\ Append(queue, x) \in Seq(Nat) /\ Len(Append(queue, x)) > 0 /\ Rises(Append(queue, x))
          /\ Elems(Append(queue, x)) = Elems(queue) \cup {x}
      BY <2>1, <3>1, ChunkAppended
    <3> QED
      BY <1>3, <3>2 DEF Rises, Elems
  <2>3. /\ out' \in Seq(Nat) /\ Elems(out)' = Elems(out) /\ Rises(out)' /\ \A a \in Elems(out)', b \in Elems(queue)' : a < b
    <3>1. Elems(out)' = Elems(out) /\ Rises(out)' = Rises(out)
      BY <1>3 DEF Elems, Rises
    <3> QED
      BY <1>3, <2>1, <2>2, <3>1 DEF SendInv
  <2>4. Elems(out)' \cup Elems(queue)' \cup lost' = 1..x
    BY <1>1, <1>3, <2>1, <2>2, <2>3
  <2>5. CASE x = Chunks
    <3>1. /\ sender' = [run |-> FALSE, paused |-> FALSE, armed |-> FALSE, pos |-> 0] /\ outcome' = "completed"
          /\ bar' = IF lastPending' > 0 THEN "99" ELSE "100"
      BY <1>3, <2>5 DEF Send!Finished, Send!Idle
    <3>2. bar' = "99"
      BY <1>3, <2>2, <3>1
    <3>3. Given' = Chunks
      BY <3>1 DEF Given
    <3> QED
      BY <2>2, <2>3, <2>4, <2>5, <3>1, <3>2, <3>3 DEF SendInv
  <2>6. CASE x # Chunks
    <3> DEFINE s == Send!Held(sender, lastPending')
    <3>1. sender' = [s EXCEPT !.pos = @ + 1, !.armed = TRUE] /\ UNCHANGED <<userPaused, awaitingDrain, bar, outcome>>
      BY <1>3, <2>6
    <3>2. s \in [run : BOOLEAN, paused : BOOLEAN, armed : BOOLEAN, pos : Nat] /\ s.run = sender.run /\ s.pos = sender.pos
      BY SameSender DEF Send!Held, SendInv
    <3> HIDE DEF s
    <3>3. /\ sender' \in [run : BOOLEAN, paused : BOOLEAN, armed : BOOLEAN, pos : Nat]
          /\ sender'.run /\ sender'.pos = x
      <4> DEFINE t == [s EXCEPT !.pos = @ + 1]
      <4>0. s.pos + 1 = x /\ x \in Nat /\ s.run
        BY <1>1, <2>1, <3>2
      <4>1. t \in [run : BOOLEAN, paused : BOOLEAN, armed : BOOLEAN, pos : Nat] /\ t.run /\ t.pos = x
        <5> HIDE DEF x
        <5> QED
          BY <3>2, <4>0
      <4>2. sender' = [t EXCEPT !.armed = TRUE]
        BY <3>1, <3>2
      <4> HIDE DEF t
      <4> QED
        BY <4>1, <4>2
    <3>4. x < Chunks /\ \A y \in Elems(out)' \cup Elems(queue)' : y <= x
      <4>1. \A y \in 1..x : y <= x
        OBVIOUS
      <4> QED
        BY <2>1, <2>4, <2>6, <4>1 DEF FileAssumption
    <3>5. Given' = x /\ bar # "100" /\ ~awaitingDrain
      BY <2>1, <3>3 DEF Given, SendInv
    <3> HIDE DEF x
    <3> QED
      BY <1>1, <2>1, <2>2, <2>3, <2>4, <3>1, <3>3, <3>4, <3>5 DEF SendInv
  <2> QED
    BY <2>5, <2>6
<1> QED
  BY <1>1, <1>2, <1>3 DEF Send!SendNext, Send!dialog, Send!line

\* The port sends a chunk.
LEMMA SendDrains ==
    ASSUME FileAssumption, SendInv, Send!Drain
    PROVE  SendInv'
<1>1. /\ connected /\ queue # <<>> /\ out' = Append(out, Head(queue)) /\ queue' = Tail(queue)
      /\ lastPending' = Len(queue') /\ UNCHANGED <<connected, userPaused, lost, outcome>>
  BY DEF Send!Drain
<1>2. /\ queue' \in Seq(Nat) /\ Head(queue) \in Nat /\ Rises(queue)'
      /\ Elems(queue) = {Head(queue)} \cup Elems(queue)' /\ \A y \in Elems(queue)' : Head(queue) < y
  <2>1. queue \in Seq(Nat) /\ Rises(queue)
    BY DEF SendInv
  <2>2. /\ Tail(queue) \in Seq(Nat) /\ Head(queue) \in Nat /\ Rises(Tail(queue))
        /\ Elems(queue) = {Head(queue)} \cup Elems(Tail(queue)) /\ \A y \in Elems(Tail(queue)) : Head(queue) < y
    BY <1>1, <2>1, ChunkTaken
  <2> QED
    BY <1>1, <2>2 DEF Rises, Elems
<1>3. /\ out' \in Seq(Nat) /\ Rises(out)' /\ Elems(out)' = Elems(out) \cup {Head(queue)}
  <2>1. out \in Seq(Nat) /\ Rises(out) /\ \A y \in Elems(out) : y < Head(queue)
    BY <1>2 DEF SendInv
  <2>2. /\ Append(out, Head(queue)) \in Seq(Nat) /\ Rises(Append(out, Head(queue)))
        /\ Elems(Append(out, Head(queue))) = Elems(out) \cup {Head(queue)}
    BY <1>2, <2>1, ChunkAppended
  <2> QED
    BY <1>1, <2>2 DEF Rises, Elems
<1>4. \A a \in Elems(out)', b \in Elems(queue)' : a < b
  BY <1>2, <1>3 DEF SendInv
<1>5. Elems(out)' \cup Elems(queue)' = Elems(out) \cup Elems(queue)
  BY <1>2, <1>3
<1>6. /\ sender' \in [run : BOOLEAN, paused : BOOLEAN, armed : BOOLEAN, pos : Nat]
      /\ sender'.run = sender.run /\ sender'.pos = sender.pos /\ (userPaused => sender' = sender)
      /\ awaitingDrain' => awaitingDrain
      /\ bar' = "100" => bar = "100" \/ (awaitingDrain /\ ~sender.run /\ Len(queue') = 0)
  <2>1. CASE sender.run
    BY <1>1, <2>1, SameSender DEF Send!Drain, Send!Held, SendInv
  <2>2. CASE ~sender.run
    BY <1>1, <2>2 DEF Send!Drain, SendInv
  <2> QED
    BY <2>1, <2>2
<1>7. Given' = Given
  BY <1>1, <1>6 DEF Given
<1>8. Len(queue') = 0 => queue' = <<>>
  BY <1>2
<1>9. bar # "100"
  BY <1>1 DEF SendInv
<1> QED
  BY <1>1, <1>2, <1>3, <1>4, <1>5, <1>6, <1>7, <1>8, <1>9 DEF SendInv

\* The user pauses and resumes, and the session goes and comes back.
LEMMA SendPauses ==
    ASSUME FileAssumption, SendInv, Send!PauseResume \/ Send!Disconnect \/ Send!Reconnect
    PROVE  SendInv'
<1>1. /\ sender' \in {sender, Send!Paused(sender), Send!Running(sender)}
      /\ UNCHANGED <<out, bar, outcome>> /\ (awaitingDrain' => awaitingDrain)
      /\ sender.run /\ userPaused' => sender' = Send!Paused(sender) \/ (sender' = sender /\ userPaused)
      /\ sender.run /\ ~connected' => userPaused'
      /\ \/ UNCHANGED <<queue, lost>>
         \/ queue' = <<>> /\ lost' = lost \cup ToSet(queue)
  <2>1. CASE Send!PauseResume
    BY <2>1 DEF SendInv, Send!PauseResume, Send!line
  <2>2. CASE Send!Disconnect
    <3>1. /\ UNCHANGED <<out, bar, outcome>> /\ (awaitingDrain' => awaitingDrain)
          /\ queue' = <<>> /\ lost' = lost \cup ToSet(queue)
      BY <2>2 DEF Send!Disconnect, Send!ToSet, ToSet
    <3>2. /\ sender' \in {sender, Send!Paused(sender)}
          /\ sender.run /\ userPaused' => sender' = Send!Paused(sender) \/ (sender' = sender /\ userPaused)
          /\ sender.run => userPaused'
      BY <2>2 DEF Send!Disconnect
    <3> QED
      BY <3>1, <3>2
  <2>3. CASE Send!Reconnect
    BY <2>3 DEF Send!Reconnect, Send!dialog, Send!line
  <2> QED
    BY <2>1, <2>2, <2>3
<1>2. /\ sender' \in [run : BOOLEAN, paused : BOOLEAN, armed : BOOLEAN, pos : Nat]
      /\ sender'.run = sender.run /\ sender'.pos = sender.pos
      /\ sender.run /\ userPaused' => sender'.paused
  BY <1>1, SameSender DEF SendInv
<1>3. Given' = Given /\ Elems(out)' = Elems(out) /\ Rises(out)' = Rises(out)
  BY <1>1, <1>2 DEF Given, Elems, Rises
<1>4. CASE UNCHANGED <<queue, lost>>
  <2>1. Elems(queue)' = Elems(queue) /\ Rises(queue)' = Rises(queue)
    BY <1>4 DEF Elems, Rises
  <2> QED
    BY <1>1, <1>2, <1>3, <1>4, <2>1 DEF SendInv
<1>5. CASE queue' = <<>> /\ lost' = lost \cup ToSet(queue)
  <2>1. ToSet(queue) = Elems(queue)
    BY DEF ToSet, Elems, SendInv
  <2>2. Elems(queue)' = {} /\ Rises(queue)' /\ queue' \in Seq(Nat)
    <3>1. <<>> \in Seq(Nat) /\ Len(<<>>) = 0
      OBVIOUS
    <3> QED
      BY <1>5, <3>1 DEF Elems, Rises
  <2> QED
    BY <1>1, <1>2, <1>3, <1>5, <2>1, <2>2 DEF SendInv
<1> QED
  BY <1>1, <1>4, <1>5

LEMMA SendNextInv ==
    ASSUME FileAssumption, SendInv, Send!SendNextStep \/ UNCHANGED ofSend
    PROVE  SendInv'
<1>1. CASE Send!ReadFails \/ Send!Cancel
  BY <1>1, SendAborted DEF Send!ReadFails, Send!Cancel, Send!line
<1>2. CASE UNCHANGED ofSend
  <2>1. UNCHANGED <<connected, sender, userPaused, awaitingDrain, bar, queue, out, lost, outcome>>
    BY <1>2 DEF ofSend
  <2>2. Elems(out)' = Elems(out) /\ Elems(queue)' = Elems(queue)
    BY <2>1 DEF Elems
  <2>3. Rises(out)' = Rises(out) /\ Rises(queue)' = Rises(queue)
    BY <2>1 DEF Rises
  <2>4. Given' = Given
    BY <2>1 DEF Given
  <2> QED
    BY <2>1, <2>2, <2>3, <2>4 DEF SendInv
<1> QED
  BY <1>1, <1>2, SendStarts, SendsNext, SendDrains, SendPauses DEF Send!SendNextStep

\* A file is sent into no closed port, whichever of user, buffer and session paused it last; its
\* chunks leave in their order and none twice; and the bar says 100 % only when the last one has left
\* the port or was told lost (SendFileDialog, FileSender).
THEOREM FilesLeaveInOrder ==
    ASSUME FileAssumption
    PROVE  SessionSpec => []FileLeavesInOrder
<1>1. SessionInit => SendInv
  BY SendBegins DEF SessionInit
<1>2. SendInv /\ [SessionNext]_<<which, vars, ofTransfer, dialogVars, ofSend, mainWindow>> => SendInv'
  <2> SUFFICES ASSUME SendInv, [SessionNext]_<<which, vars, ofTransfer, dialogVars, ofSend, mainWindow>>
               PROVE  SendInv'
    OBVIOUS
  <2>1. Send!SendNextStep \/ UNCHANGED ofSend
    BY DEF SessionNext
  <2> QED
    BY <2>1, SendNextInv
<1>3. SendInv => FileLeavesInOrder
  <2> SUFFICES ASSUME SendInv
               PROVE  FileLeavesInOrder
    OBVIOUS
  <2>1. Send!NothingIntoClosedPort
    BY DEF SendInv, Send!NothingIntoClosedPort
  <2>2. \A i \in 1..Len(out) - 1 : out[i] < out[i + 1]
    <3>1. \A i \in 1..Len(out) - 1 : i \in 1..Len(out) /\ i + 1 \in 1..Len(out) /\ i < i + 1
      BY DEF SendInv
    <3> QED
      BY <3>1 DEF SendInv, Rises
  <2>3. bar = "100" => queue = <<>> /\ Send!ToSet(out) \cup lost = 1..Chunks
    <3> SUFFICES ASSUME bar = "100"
                 PROVE  queue = <<>> /\ Send!ToSet(out) \cup lost = 1..Chunks
      OBVIOUS
    <3>1. Send!ToSet(out) = Elems(out)
      BY DEF Send!ToSet, Elems, SendInv
    <3>2. queue = <<>> /\ Elems(queue) = {} /\ Given = Chunks
      BY DEF SendInv, Elems, Given
    <3> QED
      BY <3>1, <3>2 DEF SendInv
  <2> QED
    BY <2>1, <2>2, <2>3 DEF FileLeavesInOrder, Send!FileLeavesInOrder
<1> QED
  BY <1>1, <1>2, <1>3, PTL DEF SessionSpec
===============================================================================
