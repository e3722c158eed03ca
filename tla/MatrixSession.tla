---------------------------- MODULE MatrixSession ----------------------------
(***************************************************************************)
(* The session of the Matrix backend: matrix/commands.rs over the state of *)
(* matrix/mod.rs, the session file of matrix/client.rs, the sync loop of   *)
(* matrix/sync.rs, and the screens that call them (MatrixApp, MatrixLogin, *)
(* MatrixUnlock, MatrixChat).                                              *)
(*                                                                         *)
(* A login draws a fresh passphrase (here the number of the login) that    *)
(* encrypts the SQLite store and is sealed in the session file beside it.  *)
(* "store" and "file" are what the disk holds of the two; "client" is the  *)
(* passphrase of the client in the RwLock of MatrixState, "syncing" its    *)
(* flag, and loops[p] the number of sync loops that run on clients of p.   *)
(* The commands are asynchronous: each takes a slot of "cmd" and moves one *)
(* await at a time, and every one that awaits the homeserver with the lock *)
(* held is at a step that HoldsRead or HoldsWrite names.                   *)
(***************************************************************************)
EXTENDS Integers, FiniteSets

CONSTANTS
  MaxLogins,     \* bound: logins and registrations
  MaxCrossings,  \* bound: session commands begun, or reloads, during another
  Slots,      \* bound: commands under way at a time, one in each
  None,       \* no store, no file, no client
  Torn        \* a session file that was cut off while it was written

ASSUME ConstantsAssumption ==
  /\ MaxLogins \in Nat /\ MaxCrossings \in Nat
  /\ IsFiniteSet(Slots)
  /\ None \notin 1..MaxLogins /\ Torn \notin 1..MaxLogins /\ None # Torn

VARIABLES
  store,    \* the passphrase the SQLite store was created with
  file,     \* the passphrase sealed in session.json
  client,   \* MatrixState.client
  syncing,  \* MatrixState.syncing
  loops,    \* [passphrase -> sync loops running on its client]
  ended,    \* the passphrases whose sync loop has ended in this process
  cmd,      \* [slot -> the command that runs in it]
  ui,       \* MatrixApp: mounted, logged, session and a start-sync effect due
  logins,   \* logins so far, the last passphrase drawn
  crossed,  \* the session commands that another one, or a reload, has crossed
  crossings \* how many times that happened

disk == <<store, file>>
sync == <<syncing, loops, ended>>
history == <<logins, crossed, crossings>>
vars == <<disk, client, sync, cmd, ui, history>>

Passphrases == 1..MaxLogins

---------------------------------------------------------------------------
(* Commands. "from" says what their answer still reaches: the "form" that  *)
(* sent it, the callback of the "chat" or of the "unlock" screen, the      *)
(* "app" (the form that sent it is gone), or "none" (the page reloaded).   *)

Idle == [do |-> "idle", at |-> "-", pass |-> None, from |-> "none"]
Begun(do, at, from) == [do |-> do, at |-> at, pass |-> None, from |-> from]

Free == {s \in Slots : cmd[s] = Idle}
NextSlot == CHOOSE s \in Slots : cmd[s] = Idle
At(s, do, at) == cmd[s].do = do /\ cmd[s].at = at
MovesTo(s, at) == cmd' = [cmd EXCEPT ![s].at = at]
Ends(s) == cmd' = [cmd EXCEPT ![s] = Idle]

SessionCommands == {"login", "unlock", "logout"}
UnderWay == {cmd[s].do : s \in Slots} \cap SessionCommands

\* History: the commands that were under way when another began or the page
\* was reloaded.
Crosses(kinds) ==
  \/ kinds = {} /\ UNCHANGED <<crossed, crossings>>
  \/ /\ kinds # {} /\ crossings < MaxCrossings
     /\ crossed' = crossed \cup kinds
     /\ crossings' = crossings + 1

Busy == \E s \in Slots : cmd[s].from = "form"

(* tokio's RwLock queues: a reader that arrives behind a waiting writer    *)
(* waits for it.                                                           *)
HoldsRead(s) == cmd[s].do = "request"
HoldsWrite(s) == At(s, "logout", "server")
QueuedWriter(s) == At(s, "logout", "take") \/ cmd[s].at = "install"
CanRead == \A s \in Slots : ~ HoldsWrite(s) /\ ~ QueuedWriter(s)
CanWrite == \A s \in Slots : ~ HoldsWrite(s) /\ ~ HoldsRead(s)

---------------------------------------------------------------------------
Init ==
  /\ store = None /\ file = None
  /\ client = None
  /\ syncing = FALSE
  /\ loops = [p \in Passphrases |-> 0]
  /\ ended = {}
  /\ cmd = [s \in Slots |-> Idle]
  /\ ui = [up |-> FALSE, logged |-> FALSE, session |-> FALSE, effect |-> FALSE]
  /\ logins = 0
  /\ crossed = {} /\ crossings = 0

---------------------------------------------------------------------------
(* The screens *)

\* MatrixApp asks matrix_status and matrix_has_session; the second removes a
\* file that is not a sealed session.
Mount ==
  /\ ~ ui.up /\ CanRead
  /\ file' = IF file = Torn THEN None ELSE file
  /\ ui' = [up |-> TRUE, logged |-> client # None,
            session |-> file \in Passphrases, effect |-> client # None]
  /\ UNCHANGED <<store, client, sync, cmd, history>>

\* The user starts a command that changes the session. The effect of the
\* last render, the start of the sync, was sent before. A login during a login
\* does not count as crossing: the form is there to prevent it.
Begins(do, at, from) ==
  /\ ui.up /\ ~ ui.effect /\ Free # {}
  /\ cmd' = [cmd EXCEPT ![NextSlot] = Begun(do, at, from)]
  /\ Crosses(UnderWay \ IF do = "login" THEN {do} ELSE {})
  /\ UNCHANGED <<disk, client, sync, ui, logins>>

\* Mutant: the form can be submitted again while it works.
SubmitLoginTwice ==
  /\ ~ ui.logged /\ ~ ui.session
  /\ Begins("login", "wipe", "form")

SubmitLogin ==
  /\ ~ ui.logged /\ ~ ui.session /\ ~ Busy
  /\ Begins("login", "wipe", "form")

SubmitUnlock ==
  /\ ~ ui.logged /\ ui.session /\ ~ Busy
  /\ Begins("unlock", "read", "form")

\* "Sign out" of the chat and "Sign in as someone else" of the unlock screen
\* are the same command; neither button is disabled while a command runs.
SignOut == ui.logged /\ Begins("logout", "take", "chat")
Forget == ~ ui.logged /\ ui.session /\ Begins("logout", "take", "unlock")

\* An unmounted form still passes its answer to MatrixApp.
Unmounted(c) == [s \in Slots |->
  IF c[s].from = "form" THEN [c[s] EXCEPT !.from = "app"] ELSE c[s]]

\* A command failed: the form shows the error and can be submitted again.
Fails(s) ==
  /\ Ends(s)
  /\ UNCHANGED <<disk, client, sync, ui, history>>

\* The webview reloads; the commands it started go on without it.
Reload ==
  /\ ui.up
  /\ ui' = [up |-> FALSE, logged |-> FALSE, session |-> FALSE, effect |-> FALSE]
  /\ cmd' = [s \in Slots |-> [cmd[s] EXCEPT !.from = "none"]]
  /\ Crosses(UnderWay)
  /\ UNCHANGED <<disk, client, sync, logins>>

---------------------------------------------------------------------------
(* matrix_login and matrix_register *)

\* Mutant: no wipe before a login, what the comment of line 67 warns of.
WipesNothing(s) ==
  /\ At(s, "login", "wipe") /\ MovesTo(s, "build")
  /\ UNCHANGED <<disk, client, sync, ui, history>>

\* remove_dir_all removes the entries of the store directory one by one; the
\* session file is one of them.
LoginWipes(s) ==
  /\ At(s, "login", "wipe")
  /\ \/ store' = None /\ file' = None /\ MovesTo(s, "build")
     \/ store # None /\ store' = None /\ UNCHANGED <<file, cmd>>
     \/ file # None /\ file' = None /\ UNCHANGED <<store, cmd>>
  /\ UNCHANGED <<client, sync, ui, history>>

\* Mutant: the passphrase of the login before.
OldPassphrase == logins

\* Fresh random bytes: the number of this login.
NewPassphrase == logins + 1

\* A store is opened with the passphrase it was created with, or created.
Opens(pass) == store \in {None, pass}

LoginBuilds(s) ==
  /\ At(s, "login", "build") /\ logins < MaxLogins
  /\ logins' = logins + 1
  /\ IF Opens(NewPassphrase)
     THEN /\ store' = NewPassphrase
          /\ \E at \in {"ask", "challenge"} :
               cmd' = [cmd EXCEPT ![s].pass = NewPassphrase, ![s].at = at]
     ELSE store' = store /\ Ends(s)
  /\ UNCHANGED <<file, client, sync, ui, crossed, crossings>>

\* The bound on logins stands for the server refusing any further one.
NoMoreLogins(s) == At(s, "login", "build") /\ logins = MaxLogins /\ Fails(s)

\* A registration is challenged for the token before it is accepted.
Challenged(s) ==
  /\ At(s, "login", "challenge")
  /\ MovesTo(s, "ask")
  /\ UNCHANGED <<disk, client, sync, ui, history>>

\* Mutant: the session is not written.
AcceptedUnsaved(s) ==
  /\ At(s, "login", "ask") /\ MovesTo(s, "install")
  /\ UNCHANGED <<disk, client, sync, ui, history>>

Accepted(s) ==
  /\ At(s, "login", "ask") /\ MovesTo(s, "open")
  /\ UNCHANGED <<disk, client, sync, ui, history>>

\* Refused, or no answer within the timeout of the request.
Refused(s) == (At(s, "login", "challenge") \/ At(s, "login", "ask")) /\ Fails(s)

\* write_encrypted_session: std::fs::write truncates, then writes.
FileOpened(s) ==
  /\ At(s, "login", "open") /\ file' = Torn /\ MovesTo(s, "write")
  /\ UNCHANGED <<store, client, sync, ui, history>>

FileWritten(s) ==
  /\ At(s, "login", "write")
  /\ file' = IF file = None THEN None ELSE cmd[s].pass
  /\ MovesTo(s, "install")
  /\ UNCHANGED <<store, client, sync, ui, history>>

\* The disk refuses: the truncated file stays.
WriteFails(s) == (At(s, "login", "open") \/ At(s, "login", "write")) /\ Fails(s)

\* The last step of a login and of an unlock: the client is installed and the
\* page, if it still hears, shows the chat.
Installs(s) ==
  /\ cmd[s].at = "install" /\ CanWrite
  /\ client' = cmd[s].pass
  /\ IF cmd[s].from = "none"
     THEN ui' = ui /\ Ends(s)
     ELSE /\ ui' = [ui EXCEPT !.logged = TRUE, !.effect = @ \/ ~ ui.logged]
          /\ cmd' = Unmounted([cmd EXCEPT ![s] = Idle])
  /\ UNCHANGED <<disk, sync, history>>

---------------------------------------------------------------------------
(* matrix_unlock *)

\* Without a file it answers with a status that is not logged in.
NothingToUnlock(s) ==
  /\ At(s, "unlock", "read") /\ file = None
  /\ ui' = IF cmd[s].from = "none" THEN ui ELSE [ui EXCEPT !.logged = FALSE]
  /\ Ends(s)
  /\ UNCHANGED <<disk, client, sync, history>>

UnlockReads(s) ==
  /\ At(s, "unlock", "read") /\ file \in Passphrases
  /\ cmd' = [cmd EXCEPT ![s].pass = file, ![s].at = "build"]
  /\ UNCHANGED <<disk, client, sync, ui, history>>

\* A wrong password, or a file that does not parse.
UnlockRefused(s) == At(s, "unlock", "read") /\ file # None /\ Fails(s)

UnlockBuilds(s) ==
  /\ At(s, "unlock", "build")
  /\ IF Opens(cmd[s].pass)
     THEN store' = cmd[s].pass /\ MovesTo(s, "install")
     ELSE store' = store /\ Ends(s)
  /\ UNCHANGED <<file, client, sync, ui, history>>

---------------------------------------------------------------------------
(* matrix_logout *)

\* The guard of the "if let" lives until the homeserver has answered.
LogoutTakes(s) ==
  /\ At(s, "logout", "take") /\ CanWrite
  /\ client' = None
  /\ MovesTo(s, IF client = None THEN "clear" ELSE "server")
  /\ UNCHANGED <<disk, sync, ui, history>>

\* Answered or not: the result is ignored.
LogoutAnswered(s) ==
  /\ At(s, "logout", "server") /\ MovesTo(s, "clear")
  /\ UNCHANGED <<disk, client, sync, ui, history>>

\* Mutant: the flag outlives the session.
LogoutKeepsFlag(s) ==
  /\ At(s, "logout", "clear") /\ MovesTo(s, "remove")
  /\ UNCHANGED <<disk, client, sync, ui, history>>

LogoutClears(s) ==
  /\ At(s, "logout", "clear")
  /\ syncing' = FALSE
  /\ MovesTo(s, "remove")
  /\ UNCHANGED <<disk, client, loops, ended, ui, history>>

\* The callback of the chat resets the status and the session, that of the
\* unlock screen the session only. A login form that is shown stays.
LogoutRemoves(s) ==
  /\ At(s, "logout", "remove")
  /\ file' = None
  /\ ui' = CASE cmd[s].from = "chat" -> [ui EXCEPT !.logged = FALSE,
                                           !.session = FALSE, !.effect = FALSE]
             [] cmd[s].from = "unlock" -> [ui EXCEPT !.session = FALSE]
             [] OTHER -> ui
  /\ LET answered == [cmd EXCEPT ![s] = Idle]
     IN cmd' = IF ui.session /\ ~ ui'.session THEN Unmounted(answered) ELSE answered
  /\ UNCHANGED <<store, client, sync, history>>

---------------------------------------------------------------------------
(* matrix_start_sync and the loop of sync.rs *)

\* A loop on the client; without one the command fails and the flag stays.
LoopsStarted == IF client = None THEN loops ELSE [loops EXCEPT ![client] = @ + 1]

\* Mutant: the flag is set without being read.
StartSyncAgain ==
  /\ ui.effect /\ CanRead
  /\ ui' = [ui EXCEPT !.effect = FALSE]
  /\ syncing' = TRUE /\ loops' = LoopsStarted
  /\ UNCHANGED <<disk, client, ended, cmd, history>>

\* The effect of MatrixApp sends the command. Its first poll swaps the flag
\* and takes the lock, or queues for it.
StartSync ==
  /\ ui.effect
  /\ ui' = [ui EXCEPT !.effect = FALSE]
  /\ syncing' = TRUE
  /\ \/ syncing /\ UNCHANGED <<loops, cmd>>
     \/ ~ syncing /\ CanRead /\ loops' = LoopsStarted /\ cmd' = cmd
     \/ /\ ~ syncing /\ ~ CanRead /\ Free # {}
        /\ loops' = loops
        /\ cmd' = [cmd EXCEPT ![NextSlot] = Begun("start", "read", "app")]
  /\ UNCHANGED <<disk, client, ended, history>>

SyncStarts(s) ==
  /\ cmd[s].do = "start" /\ CanRead
  /\ loops' = LoopsStarted
  /\ Ends(s)
  /\ UNCHANGED <<disk, client, syncing, ended, ui, history>>

\* client.sync returns at its first error (no network, or a token the server
\* no longer takes) and nothing starts it again.
SyncEnds(p) ==
  /\ loops[p] > 0
  /\ loops' = [loops EXCEPT ![p] = @ - 1]
  /\ ended' = ended \cup {p}
  /\ UNCHANGED <<disk, client, syncing, cmd, ui, history>>

---------------------------------------------------------------------------
(* The commands of the chat. Each resolves the client under the read guard *)
(* and keeps the guard while it awaits the homeserver, once or, from the   *)
(* step "first", twice; the first error ends it.                           *)

Asks(trips) ==
  /\ ui.up /\ ui.logged /\ ~ ui.effect
  /\ CanRead /\ client # None /\ Free # {}
  /\ cmd' = [cmd EXCEPT ![NextSlot] = Begun("request", trips, "app")]
  /\ UNCHANGED <<disk, client, sync, ui, history>>

Rooms == Asks("last")
SendMessage == Asks("last")
RoomMessages == Asks("last")
RoomCommand == Asks("last")   \* react, redact, create, invite, join, leave
RoomMembers == Asks("last")
SendFile == Asks("first")               \* the upload, then the message
ReadMedia == Asks("first")              \* the event, then its media
OwnDevices == Asks("first")             \* the device, then its signature
BootstrapCrossSigning == Asks("first")  \* a challenge, then with the password
RecoveryEnable == Asks("first")
DeleteDevices == Asks("first")          \* a challenge, then with the password
Recover == Asks("first")
RequestVerification == Asks("first")    \* the device, then the request
RegisterPusher == Asks("last")
VerificationStatus == Asks("last")

ChatCommand ==
  \/ Rooms \/ SendMessage \/ RoomMessages \/ RoomCommand \/ RoomMembers
  \/ SendFile \/ ReadMedia \/ OwnDevices \/ BootstrapCrossSigning
  \/ RecoveryEnable \/ DeleteDevices \/ Recover \/ RequestVerification
  \/ RegisterPusher \/ VerificationStatus

RequestReplied(s) ==
  /\ cmd[s].do = "request"
  /\ \/ cmd[s].at = "first" /\ MovesTo(s, "last")
     \/ Ends(s)
  /\ UNCHANGED <<disk, client, sync, ui, history>>

---------------------------------------------------------------------------
\* The process ends, at any step; the disk stays as it is.
EndProcess ==
  /\ client' = None
  /\ syncing' = FALSE
  /\ loops' = [p \in Passphrases |-> 0]
  /\ ended' = {}
  /\ cmd' = [s \in Slots |-> Idle]
  /\ ui' = [up |-> FALSE, logged |-> FALSE, session |-> FALSE, effect |-> FALSE]
  /\ UNCHANGED <<disk, history>>

\* Every step of a command but the homeserver's answers.
CommandSteps(s) ==
  \/ LoginWipes(s) \/ LoginBuilds(s) \/ NoMoreLogins(s)
  \/ FileOpened(s) \/ FileWritten(s) \/ WriteFails(s) \/ Installs(s)
  \/ NothingToUnlock(s) \/ UnlockReads(s) \/ UnlockRefused(s) \/ UnlockBuilds(s)
  \/ LogoutTakes(s) \/ LogoutClears(s) \/ LogoutRemoves(s)
  \/ SyncStarts(s)

Answered(s) ==
  \/ Challenged(s) \/ Accepted(s) \/ Refused(s)
  \/ LogoutAnswered(s) \/ RequestReplied(s)

Next ==
  \/ Mount \/ Reload \/ SubmitLogin \/ SubmitUnlock \/ SignOut \/ Forget
  \/ StartSync
  \/ ChatCommand
  \/ \E s \in Slots : CommandSteps(s) \/ Answered(s)
  \/ \E p \in Passphrases : SyncEnds(p)
  \/ EndProcess

Spec == Init /\ [][Next]_vars

\* Mutant: a stalled request never ends.
NoTimeout == TRUE

\* The timeout of 30 seconds, without retries, ends every request.
RequestsEnd == \A s \in Slots : WF_vars(Answered(s))

\* A command that can move does: the runtime polls it.
FairSpec == Spec /\ RequestsEnd /\ \A s \in Slots : WF_vars(CommandSteps(s))

---------------------------------------------------------------------------
(* Properties *)

Calm == crossed = {}

Kinds == SessionCommands \cup {"idle", "start", "request"}
Stages(do) ==
  CASE do = "login" -> {"wipe", "build", "challenge", "ask", "open", "write", "install"}
    [] do = "unlock" -> {"read", "build", "install"}
    [] do = "logout" -> {"take", "server", "clear", "remove"}
    [] do = "start" -> {"read"}
    [] do = "request" -> {"first", "last"}
    [] do = "idle" -> {"-"}

\* The state has the types of MatrixState, the files and the screens; a
\* passphrase is one that was drawn, and a command is at a step of its own.
TypeOK ==
  /\ store \in Passphrases \cup {None}
  /\ file \in Passphrases \cup {None, Torn}
  /\ client \in Passphrases \cup {None}
  /\ syncing \in BOOLEAN
  /\ loops \in [Passphrases -> Nat]
  /\ ended \subseteq Passphrases
  /\ cmd \in [Slots -> [do : Kinds, at : UNION {Stages(do) : do \in Kinds},
                        pass : Passphrases \cup {None},
                        from : {"form", "chat", "unlock", "app", "none"}]]
  /\ \A s \in Slots : cmd[s].at \in Stages(cmd[s].do)
  /\ ui \in [up : BOOLEAN, logged : BOOLEAN, session : BOOLEAN, effect : BOOLEAN]
  /\ logins \in 0..MaxLogins
  /\ \A p \in Passphrases :
       p \in {store, file, client} \cup {cmd[s].pass : s \in Slots} => p =< logins
  /\ crossed \subseteq SessionCommands /\ crossings \in 0..MaxCrossings

\* Wherever the process stops, in the middle of a wipe or of a login included,
\* a session file on disk has its store beside it. A login that was crossed may
\* break this, and so may unlocks and logouts that were both crossed: their late
\* answers can bring up the login form while a login is under way.
SessionOpensStore ==
  /\ crossed \subseteq {"unlock"} \/ crossed \subseteq {"logout"}
  /\ file \in Passphrases
  => store = file

\* matrix_login, commands.rs 67: a fresh login starts from a clean store, so
\* it never meets a store it has no passphrase for.
LoginStartsClean ==
  crossed \subseteq {"logout"} =>
    \A s \in Slots : At(s, "login", "build") => store = None

\* Once the chat is shown and no session command runs, the client, its store
\* and the session file are those of one login: the next launch unlocks it.
LoggedInIsKept ==
  ui.logged /\ Calm /\ UnderWay = {} =>
    client # None /\ file = client /\ store = client

\* mod.rs 31, commands.rs 172: the sync is started once for a client.
SyncOnce == Calm => \A p \in Passphrases : loops[p] =< 1

\* MatrixApp 2: once a client is live its sync runs, until it has failed once.
SyncRuns ==
  /\ ui.logged /\ ~ ui.effect /\ Calm
  /\ \A s \in Slots : cmd[s].do \in {"idle", "request"}
  => loops[client] > 0 \/ client \in ended

\* Every command ends: no command waits forever for the lock of another.
CommandsEnd == \A s \in Slots : cmd[s] # Idle ~> cmd[s] = Idle

=============================================================================
