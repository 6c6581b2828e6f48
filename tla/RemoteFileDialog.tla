---------------------------- MODULE RemoteFileDialog ----------------------------
(***************************************************************************)
(* The file transfer dialog of an SSH session (dialogs/RemoteFileDialog):  *)
(* two paths, one of them derived from the other until the user types it,  *)
(* a remote home that is answered late or not at all, a direction that     *)
(* swaps their roles, and the transfer that is asked for in the end.       *)
(*                                                                         *)
(* A path is a directory and a file name, either may be "".  "~" is the    *)
(* home as the user writes it, a host stands for its home spelled out.     *)
(***************************************************************************)
EXTENDS Naturals

CONSTANTS Hosts,      \* hosts the session connects to
          Names,      \* file names
          MaxEdits    \* bound: what the user does to the form, connects

VARIABLES
    form,       \* up: upload; local, remote: the fields; ld, rd: m_localDerived, m_remoteDerived
    target,     \* the host the session is connected to, "none"
    home,       \* m_remoteHome
    cached,     \* SshConnection::remoteHome()
    asked, wanted, \* m_homeAsked, m_homeWanted
    requests,   \* home requests that are not answered
    copying,    \* a transfer runs
    typed,      \* the destination as the user typed it, NoPath
    sent,       \* the last request: source, destination, whether that was typed
    edits

dialogVars == <<form, target, home, cached, asked, wanted, requests, copying, typed, sent, edits>>

NoPath == [dir |-> "", name |-> ""]
LocalPaths == [dir : {"Downloads", "work"}, name : Names \cup {""}] \cup {NoPath}
RemotePaths == [dir : {"", "~", "tmp"}, name : Names \cup {""}]
IsDirectory(path) == path.dir # "" /\ path.name = ""
Nowhere == [from |-> NoPath, to |-> NoPath, typed |-> FALSE]

DialogInit ==
    \* loadPaths(): what the last session left, as derived values.
    /\ form \in [up : {TRUE}, local : LocalPaths, remote : RemotePaths, ld : {TRUE}, rd : {TRUE}]
    /\ target = "none" /\ home = "none" /\ cached = "none"
    /\ asked = FALSE /\ wanted = FALSE /\ requests = 0
    /\ copying = FALSE /\ typed = NoPath /\ sent = Nowhere /\ edits = 0

KnownHome == IF home # "none" THEN home ELSE cached
Edit == edits < MaxEdits /\ edits' = edits + 1
Inputs == ~copying

\* expandTilde() and remotePath(): an upload into a directory gets the file's name.
Expanded(path, h) == IF path.dir # "~" THEN path ELSE [path EXCEPT !.dir = IF h = "none" THEN "" ELSE h]
RemotePath(f, h) ==
    LET path == Expanded(f.remote, h)
    IN IF f.up /\ f.remote # NoPath /\ path.name = "" THEN [path EXCEPT !.name = f.local.name] ELSE path

\* Mutant: a destination follows its source whoever wrote it.
IsFreeAlways(path, derived) == TRUE

\* The field of the destination may be replaced.
IsFree(path, derived) == path = NoPath \/ IsDirectory(path) \/ derived

\* The directory an upload goes to.
UploadDirectory(f, h) ==
    LET dir == IF f.remote.dir # "" /\ (IsDirectory(f.remote) \/ f.rd) THEN f.remote.dir
               ELSE IF h = "none" THEN "" ELSE h
    IN IF dir = "~" /\ h # "none" THEN h ELSE dir

\* applyDefaults(): the destination is derived from the source.
Derived(f, h) ==
    IF f.up
    THEN LET dir == UploadDirectory(f, h) IN
         IF f.local.name = "" \/ ~IsFree(f.remote, f.rd) \/ (dir = "" /\ (~f.rd \/ f.remote = NoPath)) THEN f
         ELSE [f EXCEPT !.remote = [dir |-> dir, name |-> f.local.name], !.rd = TRUE]
    ELSE LET name == RemotePath(f, h).name
             dir == IF f.local.dir # "" THEN f.local.dir ELSE "Downloads" IN
         IF name = "" \/ ~IsFree(f.local, f.ld) THEN f
         ELSE [f EXCEPT !.local = [dir |-> dir, name |-> name], !.ld = TRUE]

\* ... which asks for the home, once per connect, when that would complete it.
AsksHome(f, h) ==
    /\ f.up /\ f.local.name # "" /\ IsFree(f.remote, f.rd)
    /\ UploadDirectory(f, h) \in {"", "~"} /\ target # "none" /\ ~asked

\* The form becomes f, and what applyDefaults() makes of it.
Fills(f) ==
    /\ form' = Derived(f, KnownHome)
    /\ IF AsksHome(f, KnownHome) THEN asked' = TRUE /\ requests' = requests + 1
       ELSE UNCHANGED <<asked, requests>>

-----------------------------------------------------------------------------
(* The user.                                                               *)

TypeLocal ==
    /\ Inputs /\ Edit
    /\ \E path \in LocalPaths :
          /\ form' = [form EXCEPT !.local = path, !.ld = FALSE]
          /\ typed' = IF form.up THEN typed ELSE path
    /\ UNCHANGED <<target, home, cached, asked, wanted, requests, copying, sent>>

TypeRemote ==
    /\ Inputs /\ Edit
    /\ \E path \in RemotePaths :
          /\ form' = [form EXCEPT !.remote = path, !.rd = FALSE]
          /\ typed' = IF form.up THEN path ELSE typed
    /\ UNCHANGED <<target, home, cached, asked, wanted, requests, copying, sent>>

\* editingFinished.
LeaveField ==
    /\ Inputs /\ Fills(form)
    /\ UNCHANGED <<target, home, cached, wanted, copying, typed, sent, edits>>

\* onBrowseLocal(): the file to upload, or where to save.
Browse ==
    /\ Inputs /\ Edit
    /\ \E path \in LocalPaths :
          /\ path.name # ""
          /\ Fills([form EXCEPT !.local = path, !.ld = FALSE])
          /\ typed' = IF form.up THEN typed ELSE path
    /\ UNCHANGED <<target, home, cached, wanted, copying, sent>>

\* Mutant: the paths keep their flags when they change their roles.
TurnedAsTheyAre(up) == [form EXCEPT !.up = up]

\* The roles swap: the previous source becomes a derived destination.
Turned(up) == [form EXCEPT !.up = up, !.rd = @ \/ up, !.ld = @ \/ ~up]

\* onDirectionChanged().
Switch ==
    /\ Inputs /\ Edit
    /\ Fills(Turned(~form.up)) /\ typed' = NoPath
    /\ UNCHANGED <<target, home, cached, wanted, copying, sent>>

\* SessionWidget::uploadFile(): a file dropped on the terminal; the dialog, a transfer
\* running or not, gets the direction first.
Drop ==
    /\ target # "none" /\ Edit
    /\ \E path \in LocalPaths :
          /\ path.name # ""
          /\ LET turned == IF form.up THEN form ELSE Derived(Turned(TRUE), KnownHome)
             IN Fills([turned EXCEPT !.local = path, !.ld = FALSE])
    /\ typed' = IF form.up THEN typed ELSE NoPath
    /\ UNCHANGED <<target, home, cached, wanted, copying, sent>>

\* fillRemoteHome().
HomeFilled(h) ==
    LET f == [form EXCEPT !.remote = [dir |-> h, name |-> IF form.up THEN form.local.name ELSE RemotePath(form, h).name],
                          !.rd = form.up]
    IN IF form.up THEN f ELSE Derived(f, h)

\* onRemoteHome(): the "~" button.
HomeButton ==
    /\ Inputs /\ Edit
    /\ IF KnownHome # "none"
       THEN /\ form' = HomeFilled(KnownHome)
            /\ typed' = IF form.up THEN NoPath ELSE typed
            /\ UNCHANGED <<wanted, requests>>
       ELSE /\ wanted' = (wanted \/ target # "none")
            /\ requests' = IF target # "none" THEN requests + 1 ELSE requests
            /\ UNCHANGED <<form, typed>>
    /\ UNCHANGED <<target, home, cached, asked, copying, sent>>

-----------------------------------------------------------------------------
(* The connection.                                                         *)

\* onRemoteHomeReceived(): the home, or none that can be told.
HomeReceived ==
    /\ requests > 0 /\ requests' = requests - 1 /\ target # "none"
    /\ \/ /\ cached' = target /\ home' = target /\ wanted' = FALSE
          /\ form' = IF wanted THEN HomeFilled(target) ELSE Derived(form, target)
          /\ typed' = IF wanted /\ form.up THEN NoPath ELSE typed
       \/ /\ form' = IF form.up /\ form.remote = NoPath /\ form.local.name # ""
                     THEN [form EXCEPT !.remote = [dir |-> "", name |-> form.local.name], !.rd = TRUE] ELSE form
          /\ wanted' = FALSE
          /\ UNCHANGED <<cached, home, typed>>
    /\ UNCHANGED <<target, asked, copying, sent, edits>>

\* SshConnection::open() forgets the home; SessionWidget asks for it once connected.
Connects ==
    /\ target = "none" /\ Edit
    /\ target' \in Hosts
    /\ cached' = "none" /\ asked' = FALSE /\ requests' = 1
    /\ UNCHANGED <<form, home, wanted, copying, typed, sent>>

\* Mutant: the home outlives the connection.
DisconnectsKeepingHome ==
    /\ target # "none" /\ target' = "none"
    /\ asked' = FALSE /\ wanted' = FALSE /\ requests' = 0
    /\ copying' = FALSE
    /\ UNCHANGED <<form, home, cached, typed, sent, edits>>

\* onConnectionState(Disconnected): the next connect may reach another host; its answers
\* are dropped by their generation.
Disconnects ==
    /\ target # "none" /\ target' = "none"
    /\ home' = "none" /\ asked' = FALSE /\ wanted' = FALSE /\ requests' = 0
    /\ copying' = FALSE
    /\ UNCHANGED <<form, cached, typed, sent, edits>>

\* The link drops and the connection reaches the same host again: the home stays, and is
\* asked for again.
Reconnects ==
    /\ target # "none" /\ Edit
    /\ wanted' = FALSE /\ asked' = FALSE /\ requests' = 1
    /\ home' = IF cached # "none" THEN cached ELSE home
    /\ copying' = FALSE
    /\ UNCHANGED <<form, target, cached, typed, sent>>

-----------------------------------------------------------------------------
(* The transfer.                                                           *)

\* request() of a form.
Request(f) ==
    IF f.up THEN [from |-> f.local, to |-> RemotePath(f, KnownHome), typed |-> typed # NoPath]
    ELSE [from |-> RemotePath(f, KnownHome), to |-> f.local, typed |-> typed # NoPath]

\* onStart(): what is in the fields is completed first; an empty path, or a folder to
\* upload, is refused.
Start ==
    /\ Inputs /\ target # "none"
    /\ form.local # NoPath /\ RemotePath(form, KnownHome) # NoPath
    /\ Fills(form)
    /\ LET request == Request(form') IN
       IF request.from = NoPath \/ request.to = NoPath \/ (form.up /\ IsDirectory(request.from))
       THEN UNCHANGED <<copying, sent>>
       ELSE copying' = TRUE /\ sent' = request
    /\ UNCHANGED <<target, home, cached, wanted, typed, edits>>

\* onFinished().
Finishes ==
    /\ copying /\ copying' = FALSE
    /\ UNCHANGED <<form, target, home, cached, asked, wanted, requests, typed, sent, edits>>

UserStep == TypeLocal \/ TypeRemote \/ LeaveField \/ Browse \/ Switch \/ Drop \/ HomeButton \/ Start
Session == HomeReceived \/ Connects \/ Disconnects \/ Reconnects \/ Finishes

DialogNext == UserStep \/ Session
DialogSpec == DialogInit /\ [][DialogNext]_dialogVars

-----------------------------------------------------------------------------
Completes(path, written) ==
    path = written \/ (IsDirectory(written) /\ path.dir \in {written.dir} \cup (IF written.dir = "~" THEN Hosts ELSE {}))

\* "A destination the user typed is never replaced" - but by the answer to a press of the
\* "~" button before he typed it.
TypedIsKept == typed # NoPath => Completes(IF form.up THEN form.remote ELSE form.local, typed)

\* A destination nobody typed has the name of what is copied: a path restored from an earlier
\* session, or chosen as a source before the roles swapped, is never written over.
OwnNameOrTyped == sent.typed \/ sent.to.name = sent.from.name \/ sent.from.name = ""

\* "~" is the home of the host the session is connected to.
HomeIsOfTheHost == target # "none" => KnownHome \in {"none", target}

\* What is asked for is what the user means, whenever the home is answered (RemoteFileDialog).
DestinationIsMeant == TypedIsKept /\ OwnNameOrTyped /\ HomeIsOfTheHost
===============================================================================
