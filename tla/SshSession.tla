------------------------------ MODULE SshSession ------------------------------
(* One SSH tab: ssh/SshConnection on the GUI thread, ssh/SshWorker on a thread *)
(* of its own.  Calls are queued to the worker and its signals are queued back,*)
(* each with the generation of the open() it belongs to; beside the two queues *)
(* the threads share the abort mark, the answer of the question being asked    *)
(* (a mutex and a condition) and the bytes to send.  libssh blocks the worker  *)
(* while it connects and authenticates.  Transfers are SshTransfer's; port     *)
(* forwards, the banner, sizes and counters are left out.                      *)
EXTENDS Naturals, Sequences, FiniteSets, Functions, SequencesExt

CONSTANTS
    Secrets,           \* passwords and passphrases, right or wrong
    NoSecret,
    Worlds,            \* profiles and the servers they lead to, see World
    MaxAuthAttempts,   \* kMaxAuthAttempts
    MaxGen,            \* bound: generations the facade counts up to
    MaxFaults          \* bound: failures while connecting and changes of the server

Auths == {"Auto", "PublicKey", "Password", "KeyboardInteractive", "Agent"}
Offers == {"publickey", "password", "interactive"}
Kinds == {"password", "passphrase"}
Keys == {"own", "shared"}   \* the profile's entry; the one of the target or of the key file

\* key: the identity file: absent, without or with a passphrase.  trust: the
\* host key is in known_hosts.  hasId: the profile has been saved once.
World == [auth : Auths, offers : SUBSET Offers, agent : BOOLEAN,
          key : {"none", "plain", "locked"}, trust : BOOLEAN, hasId : BOOLEAN]

ASSUME SshAssumption ==
    /\ NoSecret \notin Secrets
    /\ Worlds \subseteq World
    /\ MaxAuthAttempts \in Nat \ {0} /\ MaxGen \in Nat \ {0} /\ MaxFaults \in Nat

VARIABLES
    world,       \* the profile and the server
    accepts,     \* the secret of each kind that is right now
    store,       \* SecretStore: what is remembered, of each kind, under each key
    faults,      \* those so far
    state, auto, link,   \* the Transport
    generation,  \* d->generation
    busy,        \* d->workerBusy
    gui,         \* "idle", the handler blocked in abortWorker(), "joining" or "joined"
    dialog,      \* the question whose dialog is open, or 0
    calls,       \* queued for the worker
    reports,     \* queued for the facade
    abortGen,    \* m_abortGeneration
    pending,     \* *m_pending, with the question the answer was given to
    outgoing,    \* generations that have bytes in m_outgoing
    w            \* the worker's own state

ui == <<state, auto, link, generation, busy, gui, dialog>>
env == <<world, accepts, store, faults>>
vars == <<env, ui, calls, reports, abortGen, pending, outgoing, w>>

T == INSTANCE Transport

\* The plan of authenticate().
Plan(wd) ==
    LET when(c, method) == IF c THEN <<method>> ELSE <<>>
        agent == when("publickey" \in wd.offers /\ wd.agent, "plain")
        keys == when("publickey" \in wd.offers /\ wd.key # "none",
                     IF wd.key = "plain" THEN "plain" ELSE "key")
        password == when("password" \in wd.offers, "password")
        interactive == when("interactive" \in wd.offers, "interactive")
    IN CASE wd.auth = "Auto" -> agent \o keys \o password \o interactive
         [] wd.auth = "PublicKey" -> keys
         [] wd.auth = "Password" -> IF password # <<>> THEN password ELSE interactive
         [] wd.auth = "KeyboardInteractive" -> interactive
         [] wd.auth = "Agent" -> agent

KindOf(method) == IF method = "key" THEN "passphrase" ELSE "password"

NoSaved == [kind \in Kinds |-> NoSecret]
NothingTried == [plan |-> <<>>, cands |-> <<>>, tries |-> 0, from |-> "none", val |-> NoSecret, keep |-> NoSecret]
auth == w.auth
Method == Head(auth.plan)

\* The candidates of a method: what worked earlier in this session, then what
\* open() found in the store, the profile's entry first.
Candidates(kind) ==
    LET saved(k) == IF w.saved[kind][k] = NoSecret THEN <<>> ELSE <<[from |-> k, val |-> w.saved[kind][k]]>>
        session == IF w.secret[kind] = NoSecret THEN <<>> ELSE <<[from |-> "none", val |-> w.secret[kind]]>>
    IN session \o saved("own") \o saved("shared")

Aborted == w.gen # 0 /\ abortGen >= w.gen

\* The worker emits a signal; nobody listens once the facade is being destroyed.
Emit(rs) == reports' = IF gui \in {"joining", "joined"} THEN <<>> ELSE reports \o rs
Report(what) == [what |-> what, gen |-> w.gen]

Init ==
    /\ world \in Worlds
    /\ accepts = [kind \in Kinds |-> CHOOSE s \in Secrets : TRUE]   \* which one does not matter
    /\ store \in [Kinds -> [Keys -> Secrets \cup {NoSecret}]]
    /\ \A kind \in Kinds : ~world.hasId => store[kind]["own"] = NoSecret
    /\ \A kind \in Kinds : store[kind] = [k \in Keys |-> NoSecret]
          \/ \E i \in DOMAIN Plan(world) : Plan(world)[i] # "plain" /\ KindOf(Plan(world)[i]) = kind
    /\ faults = 0
    /\ T!Init
    /\ generation = 0 /\ busy = FALSE /\ gui = "idle" /\ dialog = 0
    /\ calls = <<>> /\ reports = <<>> /\ abortGen = 0
    /\ pending = [active |-> FALSE, answered |-> FALSE, cancelled |-> FALSE,
                  val |-> NoSecret, remember |-> FALSE, to |-> 0]
    /\ outgoing = {}
    /\ w = [gen |-> 0, at |-> "idle", again |-> FALSE, auth |-> NothingTried, saved |-> store,
            secret |-> NoSaved, known |-> FALSE, q |-> 0]

-----------------------------------------------------------------------------
(* The facade.                                                             *)

OpenCountsTwice ==
    /\ gui = "idle" /\ dialog = 0 /\ state = "Disconnected" /\ generation < MaxGen
    /\ generation' = generation + 1
    /\ busy' = TRUE
    /\ state' = "Connecting"
    /\ calls' = Append(calls, [fn |-> "open", gen |-> generation + 2, saved |-> store])
    /\ UNCHANGED <<env, auto, link, gui, dialog, reports, abortGen, pending, outgoing, w>>

\* open(): what is remembered travels with the request.
Open ==
    /\ gui = "idle" /\ dialog = 0 /\ state = "Disconnected" /\ generation < MaxGen
    /\ generation' = generation + 1
    /\ busy' = TRUE
    /\ state' = "Connecting"
    /\ calls' = Append(calls, [fn |-> "open", gen |-> generation + 1, saved |-> store])
    /\ UNCHANGED <<env, auto, link, gui, dialog, reports, abortGen, pending, outgoing, w>>

\* abortWorker() up to the mutex: requestAbort() marks the generation.
BeginAbort(handler) ==
    /\ gui' = handler
    /\ busy' = FALSE
    /\ abortGen' = IF abortGen < generation THEN generation ELSE abortGen

EndAbortUnlocked ==
    /\ gui \in {"closing", "dropping", "givingUp", "leaving"}
    /\ w' = IF w.at = "asleep" THEN [w EXCEPT !.at = "asking"] ELSE w
    /\ calls' = Append(calls, [fn |-> "close", gen |-> generation])
                \o (IF gui = "leaving" THEN <<[fn |-> "quit", gen |-> 0]>> ELSE <<>>)
    /\ generation' = generation + 1
    /\ state' = "Disconnected"
    /\ link' = IF gui = "dropping" THEN "lost" ELSE link
    /\ gui' = IF gui = "leaving" THEN "joining" ELSE "idle"
    /\ dialog' = IF gui = "leaving" THEN 0 ELSE dialog
    /\ reports' = IF gui = "leaving" THEN <<>> ELSE reports
    /\ UNCHANGED <<env, auto, busy, abortGen, pending, outgoing>>

\* The rest of it, when the worker does not hold the mutex of the question, and
\* the rest of the handler.
EndAbort ==
    /\ gui \in {"closing", "dropping", "givingUp", "leaving"}
    /\ w.at # "checking"
    /\ w' = IF w.at = "asleep" THEN [w EXCEPT !.at = "asking"] ELSE w
    /\ calls' = Append(calls, [fn |-> "close", gen |-> generation])
                \o (IF gui = "leaving" THEN <<[fn |-> "quit", gen |-> 0]>> ELSE <<>>)
    /\ generation' = generation + 1
    /\ state' = "Disconnected"
    /\ link' = IF gui = "dropping" THEN "lost" ELSE link
    /\ gui' = IF gui = "leaving" THEN "joining" ELSE "idle"
    /\ dialog' = IF gui = "leaving" THEN 0 ELSE dialog
    /\ reports' = IF gui = "leaving" THEN <<>> ELSE reports
    /\ UNCHANGED <<env, auto, busy, abortGen, pending, outgoing>>

\* close(): also while a dialog of the connection is open.
Close ==
    /\ gui = "idle" /\ (state # "Disconnected" \/ busy)
    /\ BeginAbort("closing")
    /\ UNCHANGED <<env, state, auto, link, generation, dialog, calls, reports, pending, outgoing, w>>

SetAutoReconnectOnly ==
    /\ gui = "idle" /\ dialog = 0
    /\ auto' = ~auto
    /\ IF auto /\ state = "Reconnecting"
          THEN state' = "Disconnected" /\ UNCHANGED <<busy, gui, abortGen>>
          ELSE UNCHANGED <<state, busy, gui, abortGen>>
    /\ UNCHANGED <<env, link, generation, dialog, calls, reports, pending, outgoing, w>>

\* setAutoReconnect() gives up a reconnect; the slot on stateChanged() ends the
\* worker's.
SetAutoReconnect ==
    /\ gui = "idle" /\ dialog = 0
    /\ auto' = ~auto
    /\ IF auto /\ state = "Reconnecting"
          THEN state' = "Disconnected" /\ BeginAbort("givingUp")
          ELSE UNCHANGED <<state, busy, gui, abortGen>>
    /\ UNCHANGED <<env, link, generation, dialog, calls, reports, pending, outgoing, w>>

Write ==
    /\ gui = "idle" /\ dialog = 0 /\ state = "Connected"
    /\ outgoing' = outgoing \cup {generation}
    /\ UNCHANGED <<env, ui, calls, reports, abortGen, pending, w>>

\* ~SshConnection(): the tab closes, its dialog with it.  close() runs only when
\* there is something to close; the worker's thread is joined.
Destroy ==
    /\ gui = "idle"
    /\ IF state # "Disconnected" \/ busy
          THEN BeginAbort("leaving") /\ UNCHANGED <<dialog, calls, reports>>
          ELSE /\ gui' = "joining" /\ dialog' = 0 /\ reports' = <<>>
               /\ calls' = Append(calls, [fn |-> "quit", gen |-> 0])
               /\ UNCHANGED <<busy, abortGen>>
    /\ UNCHANGED <<env, state, auto, link, generation, pending, outgoing, w>>

Joined ==
    /\ gui = "joining" /\ w.at = "ended"
    /\ gui' = "joined"
    /\ UNCHANGED <<env, state, auto, link, generation, busy, dialog, calls, reports, abortGen, pending, outgoing, w>>

\* The dialog ends: an answer, or Cancel.  It reaches whatever question is being
\* asked, and none that has been answered.
GiveAnswer(val, remember, cancel) ==
    /\ gui = "idle" /\ dialog # 0 /\ w.at # "checking"
    /\ dialog' = 0
    /\ pending' = IF ~pending.active \/ (~cancel /\ pending.answered) THEN pending
                  ELSE IF cancel THEN [pending EXCEPT !.cancelled = TRUE]
                  ELSE [pending EXCEPT !.answered = TRUE, !.val = val, !.remember = remember, !.to = dialog]
    /\ w' = IF pending' # pending /\ w.at = "asleep" THEN [w EXCEPT !.at = "asking"] ELSE w
    /\ UNCHANGED <<env, state, auto, link, generation, busy, gui, calls, reports, abortGen, outgoing>>

AnswerDialog ==
    \/ \E val \in Secrets, remember \in BOOLEAN : GiveAnswer(val, remember, FALSE)
    \/ GiveAnswer(NoSecret, FALSE, FALSE)   \* a host key refused
    \/ GiveAnswer(NoSecret, FALSE, TRUE)

-----------------------------------------------------------------------------
(* The relays of the worker's signals: those of another generation are dropped. *)

RelayStale(what, handler) ==
    /\ gui = "idle" /\ reports # <<>> /\ Head(reports).what = what
    /\ reports' = Tail(reports)
    /\ handler
    /\ UNCHANGED <<world, accepts, faults, pending, outgoing, w>>

Relay(what, handler) ==
    /\ gui = "idle" /\ reports # <<>> /\ Head(reports).what = what
    /\ reports' = Tail(reports)
    /\ IF Head(reports).gen = generation THEN handler ELSE UNCHANGED <<store, ui, calls, abortGen>>
    /\ UNCHANGED <<world, accepts, faults, pending, outgoing, w>>

OnConnected == Relay("connected",
    /\ state' = "Connected" /\ link' = "up"
    /\ UNCHANGED <<store, auto, generation, busy, gui, dialog, calls, abortGen>>)

OnDisconnected == Relay("disconnected",
    /\ state' = "Disconnected" /\ busy' = FALSE
    /\ UNCHANGED <<store, auto, link, generation, gui, dialog, calls, abortGen>>)

\* linkDropped: reconnects, or gives up what the worker may still do.
OnLinkDropped == Relay("dropped",
    IF auto
       THEN /\ state' = "Reconnecting" /\ link' = "lost"
            /\ calls' = Append(calls, [fn |-> "reconnect", gen |-> generation])
            /\ UNCHANGED <<store, auto, generation, busy, gui, dialog, abortGen>>
       ELSE /\ BeginAbort("dropping")
            /\ UNCHANGED <<store, state, auto, link, generation, dialog, calls>>)

\* The dialog runs a nested event loop: later reports are relayed meanwhile.
OnQuestion == Relay("question",
    /\ dialog' = Head(reports).q
    /\ UNCHANGED <<store, state, auto, link, generation, busy, gui, calls, abortGen>>)

OnStoreSecret == Relay("store",
    /\ store' = [store EXCEPT ![Head(reports).kind] =
                    [k \in Keys |-> IF k \in Head(reports).keys THEN Head(reports).val ELSE @[k]]]
    /\ UNCHANGED <<ui, calls, abortGen>>)

OnSecretRejected == Relay("rejected",
    /\ store' = [store EXCEPT ![Head(reports).kind][Head(reports).key] = NoSecret]
    /\ UNCHANGED <<ui, calls, abortGen>>)

OnReport ==
    \/ OnConnected \/ OnDisconnected \/ OnLinkDropped
    \/ OnQuestion \/ OnStoreSecret \/ OnSecretRejected

-----------------------------------------------------------------------------
(* The worker: queued calls, between two events.                           *)

InLoop == w.at \in {"idle", "waiting", "live"}
Quiet(record) == [record EXCEPT !.again = FALSE, !.auth = NothingTried]

Call(fn) == InLoop /\ calls # <<>> /\ Head(calls).fn = fn /\ calls' = Tail(calls)

RunOpenKeepsBytes ==
    /\ Call("open")
    /\ LET c == Head(calls)
           dead == abortGen >= c.gen
       IN /\ w' = [Quiet(w) EXCEPT !.gen = c.gen, !.saved = c.saved, !.secret = NoSaved, !.known = FALSE, !.q = 0,
                                   !.at = IF dead THEN "idle" ELSE "connect"]
          /\ IF dead THEN Emit(<<[what |-> "disconnected", gen |-> c.gen]>>) ELSE UNCHANGED reports
    /\ UNCHANGED outgoing
    /\ UNCHANGED <<env, ui, abortGen, pending>>

\* An aborted request is answered without connecting.
RunOpen ==
    /\ Call("open")
    /\ LET c == Head(calls)
           dead == abortGen >= c.gen
       IN /\ w' = [Quiet(w) EXCEPT !.gen = c.gen, !.saved = c.saved, !.secret = NoSaved, !.known = FALSE, !.q = 0,
                                   !.at = IF dead THEN "idle" ELSE "connect"]
          /\ IF dead THEN Emit(<<[what |-> "disconnected", gen |-> c.gen]>>) ELSE UNCHANGED reports
    /\ outgoing' = {}
    /\ UNCHANGED <<env, ui, abortGen, pending>>

\* close() of the generation it serves: timers and the live session end.
RunClose ==
    /\ Call("close")
    /\ IF Head(calls).gen = w.gen
          THEN w' = [Quiet(w) EXCEPT !.at = "idle"] /\ Emit(<<Report("disconnected")>>)
          ELSE UNCHANGED <<w, reports>>
    /\ UNCHANGED <<env, ui, abortGen, pending, outgoing>>

RunBeginReconnect ==
    /\ Call("reconnect")
    /\ w' = IF Head(calls).gen = w.gen /\ ~Aborted /\ w.at # "live" THEN [w EXCEPT !.at = "waiting"] ELSE w
    /\ UNCHANGED <<env, ui, reports, abortGen, pending, outgoing>>

RunQuit ==
    /\ Call("quit")
    /\ w' = [Quiet(w) EXCEPT !.at = "ended"]
    /\ UNCHANGED <<env, ui, reports, abortGen, pending, outgoing>>

ReconnectTimer ==
    /\ w.at = "waiting"
    /\ w' = IF Aborted THEN [w EXCEPT !.at = "idle"] ELSE [w EXCEPT !.at = "connect", !.again = TRUE]
    /\ UNCHANGED <<env, ui, calls, reports, abortGen, pending, outgoing>>

\* A connect that does not succeed: runConnect() retries a reconnect that the
\* network failed, and reports the end of every other.
EndConnect(step) ==
    IF step = "NetworkFailed" /\ w.again /\ ~Aborted
       THEN w' = [Quiet(w) EXCEPT !.at = "waiting"] /\ UNCHANGED reports
       ELSE w' = [Quiet(w) EXCEPT !.at = "idle"] /\ Emit(<<Report("disconnected")>>)

Fault == faults < MaxFaults /\ faults' = faults + 1

\* The network fails a call of libssh, or the server refuses a request of it.
Fails(at) ==
    /\ w.at = at /\ (at = "try" => auth.cands # <<>>) /\ Fault
    /\ EndConnect(IF Aborted THEN "Aborted" ELSE "NetworkFailed")
    /\ UNCHANGED <<world, accepts, store, ui, calls, abortGen, pending, outgoing>>

Refused(at) ==
    /\ w.at = at /\ Fault /\ EndConnect("Failed")
    /\ UNCHANGED <<world, accepts, store, ui, calls, abortGen, pending, outgoing>>

WorkerKeeps == UNCHANGED <<env, ui, calls, abortGen, outgoing>>

\* ssh_connect() and the mark after it.
ConnectTcp ==
    /\ w.at = "connect"
    /\ IF Aborted THEN EndConnect("Aborted") ELSE w' = [w EXCEPT !.at = "hostkey"] /\ UNCHANGED reports
    /\ WorkerKeeps /\ UNCHANGED pending

AskKeepsAnswer(kind) ==
    /\ w' = [w EXCEPT !.at = "asking", !.q = w.q + 1]
    /\ pending' = [pending EXCEPT !.active = TRUE]
    /\ Emit(<<[what |-> "question", gen |-> w.gen, q |-> w.q + 1, kind |-> kind]>>)

\* askHostKey() and askPrompt() up to the wait: the answer of the last question
\* is cleared before the new one is asked.
Ask(kind) ==
    /\ w' = [w EXCEPT !.at = "asking", !.q = w.q + 1]
    /\ pending' = [active |-> TRUE, answered |-> FALSE, cancelled |-> FALSE,
                   val |-> NoSecret, remember |-> FALSE, to |-> 0]
    /\ Emit(<<[what |-> "question", gen |-> w.gen, q |-> w.q + 1, kind |-> kind]>>)

\* verifyHostKey().
VerifyHostKey ==
    /\ w.at = "hostkey"
    /\ IF world.trust \/ w.known
          THEN w' = [w EXCEPT !.at = "method", !.auth.plan = Plan(world)] /\ UNCHANGED <<reports, pending>>
          ELSE IF w.again THEN EndConnect("NeedsInteraction") /\ UNCHANGED pending
          ELSE Ask("hostkey")
    /\ WorkerKeeps

\* The next method of the plan; the agent and a key without a passphrase ask
\* nothing.
NextMethod ==
    /\ w.at = "method"
    /\ IF Aborted THEN EndConnect("Aborted")
       ELSE IF auth.plan = <<>> THEN EndConnect("Failed")
       ELSE /\ UNCHANGED reports
            /\ IF Method = "plain"
                  THEN \E taken \in BOOLEAN :
                          w' = IF taken THEN [w EXCEPT !.at = "shell", !.auth = NothingTried]
                               ELSE [w EXCEPT !.auth.plan = Tail(@)]
                  ELSE w' = [w EXCEPT !.at = "try", !.auth = [NothingTried EXCEPT
                                !.plan = auth.plan, !.cands = Candidates(KindOf(Method))]]
    /\ WorkerKeeps /\ UNCHANGED pending

Denied == w' = [w EXCEPT !.at = "method", !.auth = [NothingTried EXCEPT !.plan = Tail(auth.plan)]]

RememberKeys == IF Method = "key" THEN (IF world.hasId THEN Keys ELSE {"shared"})
                ELSE IF world.hasId THEN {"own"} ELSE {"shared"}

\* The secret is right.  An interactive round keeps the answer to remember from
\* the round it was given in.
Accepted(a) ==
    LET kind == KindOf(Method)
        kept == IF Method = "interactive" /\ a.keep # NoSecret THEN a.keep ELSE a.val
        works == Method # "interactive" \/ a.from # "asked" \/ a.keep # NoSecret
    IN /\ w' = [w EXCEPT !.at = "shell", !.auth = NothingTried,
                         !.secret[kind] = IF works THEN kept ELSE @]
       /\ IF a.keep = NoSecret THEN UNCHANGED reports
          ELSE Emit(<<[what |-> "store", gen |-> w.gen, kind |-> kind, keys |-> RememberKeys, val |-> kept]>>)

\* It is wrong: that entry of the store only is forgotten.
Rejected(a) ==
    LET kind == KindOf(Method)
        forgets == a.val = w.secret[kind] /\ (Method # "interactive" \/ a.from # "asked")
        over == Method = "interactive" /\ a.tries + 1 >= MaxAuthAttempts
    IN /\ w' = [w EXCEPT !.at = IF over THEN "method" ELSE "try",
                         !.secret[kind] = IF forgets THEN NoSecret ELSE @,
                         !.auth = IF over THEN [NothingTried EXCEPT !.plan = Tail(auth.plan)]
                                  ELSE [a EXCEPT !.tries = @ + 1, !.from = "none", !.val = NoSecret]]
       /\ IF a.from \in Keys
             THEN Emit(<<[what |-> "rejected", gen |-> w.gen, kind |-> kind, key |-> a.from]>>)
             ELSE UNCHANGED reports

\* One secret is tried; a key the passphrase opens may still be refused.
Test(a) ==
    \/ a.val = accepts[KindOf(Method)] /\ Accepted(a)
    \/ a.val = accepts[KindOf(Method)] /\ Method = "key" /\ Denied /\ UNCHANGED reports
    \/ a.val # accepts[KindOf(Method)] /\ Rejected(a)

\* authenticateWithKey(), authenticateWithPassword(), authenticateInteractive():
\* remembered secrets first, then the user, unless nobody can be asked.
NextSecret ==
    /\ w.at = "try"
    /\ IF auth.cands # <<>>
          THEN Test([auth EXCEPT !.cands = Tail(@), !.from = Head(auth.cands).from, !.val = Head(auth.cands).val])
               /\ UNCHANGED pending
       ELSE IF auth.tries >= MaxAuthAttempts THEN Denied /\ UNCHANGED <<reports, pending>>
       ELSE IF w.again THEN EndConnect("NeedsInteraction") /\ UNCHANGED pending
       ELSE Ask(Method)
    /\ WorkerKeeps

TestAnswer == w.at = "test" /\ Test(auth) /\ WorkerKeeps /\ UNCHANGED pending

\* openShellChannel().
OpenShell ==
    /\ w.at = "shell"
    /\ IF Aborted THEN EndConnect("Aborted")
       ELSE w' = [w EXCEPT !.at = "live", !.again = FALSE] /\ Emit(<<Report("connected")>>)
    /\ WorkerKeeps /\ UNCHANGED pending

-----------------------------------------------------------------------------
(* waitForAnswer().                                                        *)

\* What the caller makes of an answer.
UseAnswer ==
    IF auth.plan = <<>>
       THEN IF pending.val = NoSecret
               THEN EndConnect("Cancelled") /\ UNCHANGED world
               ELSE /\ w' = [w EXCEPT !.at = "method", !.known = TRUE, !.auth.plan = Plan(world)]
                    /\ world' = [world EXCEPT !.trust = @ \/ pending.remember]
                    /\ UNCHANGED reports
       ELSE /\ w' = [w EXCEPT !.at = "test", !.auth.from = "asked", !.auth.val = pending.val,
                              !.auth.keep = IF pending.remember /\ pending.val # NoSecret THEN pending.val
                                            ELSE IF Method = "interactive" THEN @ ELSE NoSecret]
            /\ UNCHANGED <<world, reports>>

EndWait ==
    /\ pending' = [pending EXCEPT !.active = FALSE, !.val = NoSecret, !.remember = FALSE, !.to = 0]
    /\ IF Aborted THEN EndConnect("Aborted") /\ UNCHANGED world
       ELSE IF pending.answered THEN UseAnswer
       ELSE EndConnect("Cancelled") /\ UNCHANGED world
    /\ UNCHANGED <<accepts, store, faults, ui, calls, abortGen, outgoing>>

CheckAnswerOnly ==
    /\ w.at = "asking"
    /\ IF pending.answered \/ pending.cancelled
          THEN EndWait
          ELSE w' = [w EXCEPT !.at = "checking"] /\ WorkerKeeps /\ UNCHANGED <<reports, pending>>

\* The mutex is taken, and the loop's test made.
CheckAnswer ==
    /\ w.at = "asking"
    /\ IF pending.answered \/ pending.cancelled \/ Aborted
          THEN EndWait
          ELSE w' = [w EXCEPT !.at = "checking"] /\ WorkerKeeps /\ UNCHANGED <<reports, pending>>

\* The condition gives the mutex back.
FallAsleep ==
    /\ w.at = "checking"
    /\ w' = [w EXCEPT !.at = "asleep"]
    /\ WorkerKeeps /\ UNCHANGED <<reports, pending>>

AnswerTimeoutLoops == w.at = "asleep" /\ w' = [w EXCEPT !.at = "asking"] /\ WorkerKeeps /\ UNCHANGED <<reports, pending>>

\* Five minutes have passed.
AnswerTimeout == w.at = "asleep" /\ EndWait

-----------------------------------------------------------------------------
(* The live session, and the server.                                       *)

\* pumpShell(): what was written goes to the shell.
Pump ==
    /\ w.at = "live" /\ outgoing # {}
    /\ outgoing' = {}
    /\ UNCHANGED <<env, ui, calls, reports, abortGen, pending, w>>

\* The shell ends, or the link does: finishShell(), handleConnectionLost().
SessionEnds ==
    /\ w.at = "live"
    /\ w' = [w EXCEPT !.at = "idle"]
    /\ \E what \in {"disconnected", "dropped"} : Emit(<<Report(what)>>)
    /\ UNCHANGED <<env, ui, calls, abortGen, pending, outgoing>>

\* The server gets another host key, or the account another password.
ServerChanges ==
    /\ Fault
    /\ \/ /\ world' = [world EXCEPT !.trust = FALSE]
          /\ w' = [w EXCEPT !.known = FALSE]
          /\ UNCHANGED accepts
       \/ \E s \in Secrets \ {accepts["password"]} :
             accepts' = [accepts EXCEPT !["password"] = s] /\ UNCHANGED <<world, w>>
    /\ UNCHANGED <<store, ui, calls, reports, abortGen, pending, outgoing>>

-----------------------------------------------------------------------------
User == Open \/ Close \/ SetAutoReconnect \/ Write \/ Destroy \/ AnswerDialog
Blocking == {"connect", "hostkey", "method", "try", "test", "shell"}
Worker ==
    \/ RunOpen \/ RunClose \/ RunBeginReconnect \/ RunQuit \/ ReconnectTimer
    \/ ConnectTcp \/ VerifyHostKey \/ NextMethod \/ NextSecret \/ TestAnswer \/ OpenShell
    \/ CheckAnswer \/ FallAsleep \/ Pump
Environment == ServerChanges \/ SessionEnds \/ (\E at \in Blocking : Fails(at)) \/ Refused("shell")

Next == User \/ EndAbort \/ Joined \/ OnReport \/ Worker \/ AnswerTimeout \/ Environment

\* Both threads run; the deadline of a question passes.  An aborted wait is not
\* to need it, and nobody has to answer.
Fairness ==
    /\ WF_vars(EndAbort) /\ WF_vars(Joined) /\ WF_vars(OnReport) /\ WF_vars(Worker)
    /\ WF_vars(~Aborted /\ AnswerTimeout)

Spec == Init /\ [][Next]_vars /\ Fairness

-----------------------------------------------------------------------------
(* Properties.                                                             *)

\* Every variable has its type.
TypeOK ==
    /\ world \in World /\ accepts \in [Kinds -> Secrets]
    /\ store \in [Kinds -> [Keys -> Secrets \cup {NoSecret}]] /\ faults \in 0..MaxFaults
    /\ state \in {"Disconnected", "Connecting", "Connected", "Reconnecting"}
    /\ auto \in BOOLEAN /\ link \in {"up", "lost"}
    /\ generation \in Nat /\ busy \in BOOLEAN /\ dialog \in Nat
    /\ gui \in {"idle", "closing", "dropping", "givingUp", "leaving", "joining", "joined"}
    /\ \A i \in DOMAIN calls : calls[i].fn \in {"open", "close", "reconnect", "quit"}
    /\ \A i \in DOMAIN reports : reports[i].gen \in Nat
    /\ abortGen \in Nat
    /\ pending \in [active : BOOLEAN, answered : BOOLEAN, cancelled : BOOLEAN,
                    val : Secrets \cup {NoSecret}, remember : BOOLEAN, to : Nat]
    /\ outgoing \subseteq 1..generation
    /\ w.at \in Blocking \cup {"idle", "waiting", "live", "asking", "checking", "asleep", "ended"}
    /\ w.gen \in 0..generation /\ w.q \in Nat

\* requestAbort() ends a wait for an answer: the worker never sleeps on a
\* question of an aborted generation while nobody is about to wake it.
AbortWakesTheWait == (w.at = "asleep" /\ Aborted) => gui \in {"closing", "dropping", "givingUp", "leaving"}

\* The answer a question gets was given to the dialog of that very question.
AnswerReachesItsQuestion == (pending.active /\ pending.answered) => pending.to = w.q

\* What was typed in one session is not sent to the shell of a later open().
BytesStayInTheirOpen == w.at = "live" => outgoing \subseteq {w.gen}

\* With nothing queued, the tab shows what the worker does: no session or timer
\* is left behind a tab that says Disconnected, and a tab that waits has a
\* worker that will report.
QuietAgrees ==
    (gui = "idle" /\ calls = <<>> /\ reports = <<>>) =>
        /\ busy <=> state # "Disconnected"
        /\ state = "Disconnected" <=> w.at = "idle"
        /\ state = "Connected" <=> w.at = "live"
        /\ state # "Disconnected" => w.gen = generation /\ ~Aborted

\* What belongs to one open() stays there: an answer reaches the question whose dialog it
\* was given to, what was typed never reaches the shell of a later open(), and with nothing
\* queued the tab shows what its worker does (SshConnection, SshWorker).
GenerationsApart == AnswerReachesItsQuestion /\ BytesStayInTheirOpen /\ QuietAgrees

\* A connect ends, and so does a reconnect, whatever is asked and whoever does
\* not answer.
ConnectEnds == state \in {"Connecting", "Reconnecting"} ~> state \in {"Connected", "Disconnected"}

\* A tab that closes is not held up: the worker's thread is joined, without
\* waiting for an answer that nobody can give any more.
TabCloses == gui = "joining" ~> gui = "joined"

\* To a session tab the two threads are one Transport.
IsTransport == T!Spec

\* "A credential entered with 'remember' worked": what is stored is what the
\* server took.
RememberedWorked ==
    [][\A i \in DOMAIN reports' : (i > Len(reports) /\ reports'[i].what = "store")
          => reports'[i].val = accepts[reports'[i].kind]]_vars

=============================================================================
