---------------------------- MODULE MatrixProofs ----------------------------
(***************************************************************************)
(* Proofs about MatrixSession, for any number of logins, crossings and     *)
(* commands under way at a time.                                           *)
(***************************************************************************)
EXTENDS MatrixSession, TLAPS

-----------------------------------------------------------------------------
(* The inductive invariant.                                                *)

Login(s) == cmd[s].do = "login"
Unlock(s) == cmd[s].do = "unlock"
Logout(s) == cmd[s].do = "logout"
InSession(s) == cmd[s].do \in SessionCommands

\* Of two session commands under way, one has been crossed; a login during a
\* login does not count.
Met ==
  \A s, t \in Slots :
    s # t /\ InSession(s) /\ InSession(t) =>
      \/ cmd[s].do \in crossed \/ cmd[t].do \in crossed
      \/ Login(s) /\ Login(t)

\* Who has lost its page was crossed by the reload.
Unheard ==
  \A s \in Slots : InSession(s) /\ cmd[s].from = "none" => cmd[s].do \in crossed

\* Without a page nobody is heard.
PageDown ==
  ~ ui.up => /\ ~ ui.logged /\ ~ ui.session /\ ~ ui.effect
             /\ \A s \in Slots : cmd[s].from = "none"

\* Only a login and an unlock have a passphrase; a logout came from a screen.
Fields ==
  \A s \in Slots :
    /\ ~ Login(s) /\ ~ Unlock(s) => cmd[s].pass = None
    /\ Logout(s) => cmd[s].from \in {"chat", "unlock", "none"}
    /\ Login(s) \/ Unlock(s) => cmd[s].from \in {"form", "app", "none"}

\* The late answer of an unlock, or of a logout, may find another screen; where
\* only one of the two is crossed, the login form still shows one login at most.
Ordered == crossed \subseteq {"unlock"} \/ crossed \subseteq {"logout"}

OneLogin == \A s, t \in Slots : Login(s) /\ Login(t) => s = t
LoginShown ==
  \A s \in Slots : Login(s) =>
    /\ ~ ui.session
    /\ \/ cmd[s].from = "form"
       \/ cmd[s].from = "app" /\ ui.logged /\ "unlock" \in crossed
          /\ \A t \in Slots : Unlock(t) => cmd[t].from = "none"
UnlockShown ==
  \A s \in Slots : Unlock(s) /\ cmd[s].from # "none" =>
    /\ cmd[s].from = "form" => ui.session /\ ~ ui.logged
    /\ cmd[s].from = "app" => ~ ui.session
    /\ \A t \in Slots : Unlock(t) /\ cmd[t].from # "none" => s = t
Screens == OneLogin /\ LoginShown /\ UnlockShown

\* The login form is shown only if there is no session to unlock, or one that
\* was just written.
FormShown ==
  ui.up /\ ~ ui.session /\ ~ ui.logged /\ file \in Passphrases =>
    \E s \in Slots : At(s, "login", "install")

LoginStore ==
  \A s \in Slots : Login(s) =>
    /\ cmd[s].at # "install" => file \notin Passphrases
    /\ cmd[s].at \in {"challenge", "ask", "open", "write", "install"} =>
         cmd[s].pass \in Passphrases /\ store = cmd[s].pass

StoreInv == FormShown /\ LoginStore /\ (file \in Passphrases => store = file)

\* LoginStartsClean, and what a login writes to the store and the file nobody
\* else takes away.
CleanInv ==
  \A s \in Slots : At(s, "login", "build") => store = None /\ file = None

\* Where nothing crosses.
Quiet == \A s \in Slots : ~ InSession(s)
LogoutOn(at) == \E s \in Slots : Logout(s) /\ cmd[s].at \in at

EffectAlone == ui.effect => ui.logged /\ Quiet
NoStart == \A s \in Slots : cmd[s].do # "start"
LoginAlone ==
  \A s \in Slots :
    /\ Login(s) \/ Unlock(s) => client = None /\ ~ ui.logged
    /\ Unlock(s) /\ cmd[s].at \in {"build", "install"} =>
         cmd[s].pass \in Passphrases /\ file = cmd[s].pass
    /\ At(s, "login", "write") => file = Torn
    /\ At(s, "login", "install") => file = cmd[s].pass
LogoutAlone ==
  \A s \in Slots : Logout(s) =>
    /\ cmd[s].at # "take" => client = None
    /\ cmd[s].from = "unlock" => ~ ui.logged /\ client = None
QuietKept ==
  Quiet => /\ ui.up => (ui.logged <=> client # None)
           /\ client # None => file = client /\ store = client

\* A loop runs on the client, or on one that is gone for good.
LoopsOnce ==
  \A p \in Passphrases :
    /\ loops[p] =< 1
    /\ loops[p] > 0 => /\ p =< logins
                       /\ \/ p = client /\ syncing
                          \/ LogoutOn({"server", "clear", "remove"})
                          \/ p # file /\ p # client /\ \A s \in Slots : cmd[s].pass # p
FlagInv ==
  /\ syncing /\ client # None => loops[client] > 0 \/ client \in ended
  /\ syncing /\ client = None => LogoutOn({"server", "clear"})
  /\ ui.logged /\ ~ ui.effect /\ Quiet => syncing

CalmInv ==
  /\ EffectAlone /\ NoStart /\ LoginAlone /\ LogoutAlone /\ QuietKept
  /\ LoopsOnce /\ FlagInv

IInv ==
  /\ TypeOK
  /\ Met /\ Unheard /\ PageDown /\ Fields
  /\ Ordered => Screens /\ StoreInv
  /\ crossed \subseteq {"logout"} => CleanInv
  /\ Calm => CalmInv

-----------------------------------------------------------------------------
(* Constants and types.                                                    *)

LEMMA Constants ==
  /\ MaxLogins \in Nat /\ MaxCrossings \in Nat
  /\ Passphrases \subseteq Nat
  /\ None \notin Passphrases /\ Torn \notin Passphrases /\ None # Torn
  /\ \A n \in 0..MaxLogins : n < MaxLogins => n + 1 \in Passphrases /\ n + 1 \in 0..MaxLogins
BY ConstantsAssumption DEF Passphrases

CmdOK ==
  /\ cmd \in [Slots -> [do : Kinds, at : UNION {Stages(do) : do \in Kinds},
                        pass : Passphrases \cup {None},
                        from : {"form", "chat", "unlock", "app", "none"}]]
  /\ \A s \in Slots : cmd[s].at \in Stages(cmd[s].do)

\* The fields of a command.
LEMMA CmdFields ==
  ASSUME CmdOK, NEW s \in Slots
  PROVE  /\ cmd[s] = [do |-> cmd[s].do, at |-> cmd[s].at, pass |-> cmd[s].pass,
                      from |-> cmd[s].from]
         /\ cmd[s].do \in Kinds /\ cmd[s].at \in Stages(cmd[s].do)
         /\ cmd[s].pass \in Passphrases \cup {None}
         /\ cmd[s].from \in {"form", "chat", "unlock", "app", "none"}
BY DEF CmdOK

\* A step belongs to one kind of command.
LEMMA StageNames ==
  ASSUME NEW do \in Kinds, NEW at \in Stages(do)
  PROVE  /\ at = "install" => do \in {"login", "unlock"}
         /\ do = "login" => at \in {"wipe", "build", "challenge", "ask", "open", "write", "install"}
         /\ do = "unlock" => at \in {"read", "build", "install"}
         /\ do = "logout" => at \in {"take", "server", "clear", "remove"}
BY DEF Kinds, SessionCommands, Stages

LEMMA InKinds ==
  ASSUME NEW do \in Kinds, NEW at \in Stages(do)
  PROVE  at \in UNION {Stages(x) : x \in Kinds}
OBVIOUS

\* What a step makes of its own command.
Becomes(s, c) ==
  /\ CmdOK'
  /\ cmd'[s] = c
  /\ \A t \in Slots : t # s => cmd'[t] = cmd[t]

LEMMA Puts ==
  ASSUME CmdOK, NEW s \in Slots, NEW do \in Kinds, NEW at \in Stages(do),
         NEW pass \in Passphrases \cup {None},
         NEW from \in {"form", "chat", "unlock", "app", "none"},
         cmd' = [cmd EXCEPT ![s] = [do |-> do, at |-> at, pass |-> pass, from |-> from]]
  PROVE  Becomes(s, [do |-> do, at |-> at, pass |-> pass, from |-> from])
<1>1. at \in UNION {Stages(x) : x \in Kinds}
  BY InKinds
<1>2. cmd' \in [Slots -> [do : Kinds, at : UNION {Stages(x) : x \in Kinds},
                        pass : Passphrases \cup {None},
                        from : {"form", "chat", "unlock", "app", "none"}]]
  BY <1>1 DEF CmdOK
<1>3. /\ cmd'[s] = [do |-> do, at |-> at, pass |-> pass, from |-> from]
      /\ \A t \in Slots : t # s => cmd'[t] = cmd[t]
  BY DEF CmdOK
<1> QED BY <1>2, <1>3 DEF CmdOK, Becomes

LEMMA Moved ==
  ASSUME CmdOK, NEW s \in Slots, NEW at \in Stages(cmd[s].do), MovesTo(s, at)
  PROVE  Becomes(s, [do |-> cmd[s].do, at |-> at, pass |-> cmd[s].pass,
                     from |-> cmd[s].from])
<1>1. cmd' = [cmd EXCEPT ![s] = [do |-> cmd[s].do, at |-> at, pass |-> cmd[s].pass,
                                 from |-> cmd[s].from]]
  <2>1. cmd' = [cmd EXCEPT ![s] = [cmd[s] EXCEPT !.at = at]]
    BY DEF MovesTo
  <2>2. [cmd[s] EXCEPT !.at = at] = [do |-> cmd[s].do, at |-> at, pass |-> cmd[s].pass,
                                 from |-> cmd[s].from]
    BY DEF CmdOK
  <2> QED BY <2>1, <2>2
<1> QED BY <1>1, CmdFields, Puts

LEMMA Drawn ==
  ASSUME CmdOK, NEW s \in Slots, NEW at \in Stages(cmd[s].do), NEW p \in Passphrases,
         cmd' = [cmd EXCEPT ![s].pass = p, ![s].at = at]
  PROVE  Becomes(s, [do |-> cmd[s].do, at |-> at, pass |-> p, from |-> cmd[s].from])
<1>1. cmd' = [cmd EXCEPT ![s] = [do |-> cmd[s].do, at |-> at, pass |-> p,
                                 from |-> cmd[s].from]]
  <2>1. [cmd[s] EXCEPT !.pass = p]
          = [do |-> cmd[s].do, at |-> cmd[s].at, pass |-> p, from |-> cmd[s].from]
    BY DEF CmdOK
  <2>2. [[do |-> cmd[s].do, at |-> cmd[s].at, pass |-> p, from |-> cmd[s].from]
           EXCEPT !.at = at]
          = [do |-> cmd[s].do, at |-> at, pass |-> p, from |-> cmd[s].from]
    OBVIOUS
  <2> QED BY <2>1, <2>2
<1> QED BY <1>1, CmdFields, Puts

LEMMA Ended ==
  ASSUME CmdOK, NEW s \in Slots, Ends(s)
  PROVE  Becomes(s, Idle)
<1>1. "idle" \in Kinds /\ "-" \in Stages("idle")
  BY DEF Kinds, Stages
<1> QED BY <1>1, Puts DEF Ends, Idle

LEMMA Started ==
  ASSUME CmdOK, Free # {}, NEW do \in Kinds, NEW at \in Stages(do),
         NEW from \in {"form", "chat", "unlock", "app", "none"},
         cmd' = [cmd EXCEPT ![NextSlot] = Begun(do, at, from)]
  PROVE  \E s \in Slots :
           cmd[s] = Idle /\ Becomes(s, [do |-> do, at |-> at, pass |-> None, from |-> from])
<1>1. NextSlot \in Slots /\ cmd[NextSlot] = Idle
  BY DEF Free, NextSlot
<1> QED BY <1>1, Puts DEF Begun

\* A step of one command keeps the types, if it uses passphrases that are there.
LEMMA Typed ==
  ASSUME TypeOK, NEW s \in Slots, NEW c, Becomes(s, c),
         c.pass \in {None, cmd[s].pass, file, logins'},
         store' \in {store, None, c.pass}, file' \in {file, None, Torn, c.pass},
         client' \in {client, None, c.pass},
         logins' \in {logins, logins + 1}, logins' \in 0..MaxLogins,
         UNCHANGED <<crossed, crossings>>,
         syncing' \in BOOLEAN, loops' \in [Passphrases -> Nat], ended' \subseteq Passphrases,
         ui' \in [up : BOOLEAN, logged : BOOLEAN, session : BOOLEAN, effect : BOOLEAN]
  PROVE  TypeOK'
<1>1. CmdOK' /\ cmd'[s] = c /\ \A t \in Slots : t # s => cmd'[t] = cmd[t]
  BY DEF Becomes
<1>2. c.pass \in Passphrases \cup {None}
  BY <1>1 DEF CmdOK
<1>3. /\ store' \in Passphrases \cup {None}
      /\ file' \in Passphrases \cup {None, Torn}
      /\ client' \in Passphrases \cup {None}
  BY <1>2 DEF TypeOK
<1>4. ASSUME NEW p \in Passphrases,
             p \in {store', file', client'} \cup {cmd'[t].pass : t \in Slots}
      PROVE  p =< logins'
  <2>1. logins \in Nat /\ p \in Nat
    BY Constants DEF TypeOK
  <2>2. p \in {store, file, client} \cup {cmd[t].pass : t \in Slots} \cup {logins'}
    BY <1>1, <1>4, Constants
  <2>3. CASE p = logins'
    BY <2>1, <2>3
  <2>4. CASE p \in {store, file, client} \cup {cmd[t].pass : t \in Slots}
    <3>1. p =< logins
      BY <2>4 DEF TypeOK
    <3> QED BY <2>1, <3>1
  <2> QED BY <2>2, <2>3, <2>4
<1>5. \A p \in Passphrases :
        p \in {store', file', client'} \cup {cmd'[t].pass : t \in Slots} => p =< logins'
  BY <1>4
<1>6. crossed' \subseteq SessionCommands /\ crossings' \in 0..MaxCrossings
  BY DEF TypeOK
<1> QED BY <1>1, <1>3, <1>5, <1>6 DEF TypeOK, CmdOK

-----------------------------------------------------------------------------
(* History and screens.                                                    *)

Keeps(s) == cmd'[s].do = cmd[s].do /\ cmd'[s].from = cmd[s].from
Beside(s) ==
  /\ ~ InSession(s) /\ ~ InSession(s)'
  /\ ui.up \/ cmd'[s].from = "none"
Gone(s) == cmd'[s] = Idle

\* Steps that leave the screen, but for the effect, and start no session command.
LEMMA Paged ==
  ASSUME IInv, UNCHANGED crossed,
         ui'.up = ui.up, ui'.logged = ui.logged, ui'.session = ui.session,
         ui'.effect => ui.effect,
         \A s \in Slots : Keeps(s) \/ Beside(s) \/ Gone(s)
  PROVE  Met' /\ Unheard' /\ PageDown' /\ (Ordered' => Screens')
<1>1. \A s \in Slots : /\ InSession(s)' => InSession(s) /\ Keeps(s)
                       /\ Login(s)' => Login(s) /\ Keeps(s)
                       /\ Unlock(s)' => Unlock(s) /\ Keeps(s)
  BY DEF InSession, Login, Unlock, Keeps, Beside, Gone, Idle, SessionCommands
<1>2. Met'
  BY <1>1 DEF IInv, Met, Keeps, Login
<1>3. Unheard'
  BY <1>1 DEF IInv, Unheard, Keeps
<1>4. PageDown'
  BY DEF IInv, PageDown, Keeps, Beside, Gone, Idle
<1>5. ASSUME Ordered
      PROVE  Screens'
  <2>1. OneLogin'
    BY <1>1, <1>5 DEF IInv, Screens, OneLogin
  <2>2. LoginShown'
    BY <1>1, <1>5 DEF IInv, Screens, LoginShown, Keeps
  <2>3. UnlockShown'
    BY <1>1, <1>5 DEF IInv, Screens, UnlockShown, Keeps
  <2> QED BY <2>1, <2>2, <2>3 DEF Screens
<1> QED BY <1>2, <1>3, <1>4, <1>5 DEF Ordered

\* Where nothing crosses, a session command is alone, and its page is there.
LEMMA Alone ==
  ASSUME IInv, Calm, NEW s \in Slots, InSession(s)
  PROVE  /\ Ordered /\ ~ ui.effect /\ ui.up /\ cmd[s].from # "none"
         /\ \A t \in Slots : t # s => ~ InSession(t)
<1>1. Ordered /\ crossed = {}
  BY DEF Calm, Ordered
<1>2. \A t \in Slots : t # s => ~ InSession(t)
  BY <1>1 DEF IInv, Met, Screens, OneLogin
<1>3. ~ ui.effect
  BY DEF IInv, CalmInv, EffectAlone, Quiet
<1>4. cmd[s].from # "none"
  BY <1>1 DEF IInv, Unheard
<1>5. ui.up
  BY <1>4 DEF IInv, PageDown
<1> QED BY <1>1, <1>2, <1>3, <1>4, <1>5

\* A passphrase that a command has was drawn.
LEMMA InUse ==
  ASSUME TypeOK
  PROVE  /\ logins \in 0..MaxLogins /\ logins \in Nat
         /\ \A s \in Slots : cmd[s].pass \in Passphrases => cmd[s].pass =< logins
         /\ store \in Passphrases => store =< logins
         /\ file \in Passphrases => file =< logins
         /\ client \in Passphrases => client =< logins
<1>1. logins \in 0..MaxLogins /\ logins \in Nat
  BY Constants DEF TypeOK
<1>2. \A p \in Passphrases :
        p \in {store, file, client} \cup {cmd[t].pass : t \in Slots} => p =< logins
  BY DEF TypeOK
<1> QED BY <1>1, <1>2

-----------------------------------------------------------------------------
(* Steps of one session command that leave the screen alone.               *)

Onward(s, c) == c = Idle \/ (c.do = cmd[s].do /\ c.from = cmd[s].from)

LEMMA Move ==
  ASSUME IInv, NEW s \in Slots, NEW c, InSession(s), Becomes(s, c), Onward(s, c),
         c.pass = None \/ c.do \in {"login", "unlock"},
         UNCHANGED <<ui, crossed>>
  PROVE  /\ Met' /\ Unheard' /\ PageDown' /\ Fields' /\ (Ordered' => Screens')
         /\ Ordered' = Ordered /\ Calm' = Calm
         /\ Calm => EffectAlone' /\ NoStart'
<1>1. cmd'[s] = c /\ \A t \in Slots : t # s => cmd'[t] = cmd[t]
  BY DEF Becomes
<1>2. \A t \in Slots : Keeps(t) \/ Gone(t)
  BY <1>1 DEF Onward, Keeps, Gone
<1>3. Met' /\ Unheard' /\ PageDown' /\ (Ordered' => Screens')
  BY <1>2, Paged
<1>4. Fields'
  BY <1>1 DEF IInv, Fields, Onward, Idle, Login, Unlock, Logout
<1>5. ASSUME Calm
      PROVE  EffectAlone' /\ NoStart'
  <2>1. ~ ui'.effect
    BY <1>5, Alone
  <2>2. NoStart'
    BY <1>1, <1>5 DEF IInv, CalmInv, NoStart, Onward, Idle
  <2> QED BY <2>1, <2>2 DEF EffectAlone
<1> QED BY <1>3, <1>4, <1>5 DEF Ordered, Calm

\* What holds of the only session command, and of loops and flag, is all that
\* is left to show of a step.
LEMMA Together ==
  ASSUME IInv, TypeOK', Met', Unheard', PageDown', Fields',
         Ordered' => Screens' /\ StoreInv',
         crossed' \subseteq {"logout"} => CleanInv',
         Calm' => /\ EffectAlone' /\ NoStart' /\ LoginAlone' /\ LogoutAlone'
                  /\ QuietKept' /\ LoopsOnce' /\ FlagInv'
  PROVE  IInv'
BY DEF IInv, CalmInv

\* While a login or an unlock is alone, there is no client, and what loops are
\* left run on clients that are gone.
LEMMA AtLogin ==
  ASSUME IInv, Calm, NEW s \in Slots, Login(s) \/ Unlock(s)
  PROVE  /\ client = None /\ ~ ui.logged /\ ~ syncing /\ InSession(s) /\ ~ Logout(s)
         /\ \A t \in Slots : t # s =>
              ~ InSession(t) /\ ~ Login(t) /\ ~ Unlock(t) /\ ~ Logout(t)
         /\ \A p \in Passphrases :
              /\ loops[p] =< 1
              /\ loops[p] > 0 => p =< logins /\ p # file /\ \A t \in Slots : cmd[t].pass # p
<1>1. InSession(s) /\ ~ Logout(s)
  BY DEF InSession, SessionCommands, Login, Unlock, Logout
<1>2. \A t \in Slots : t # s => ~ InSession(t)
  BY <1>1, Alone
<1>3. \A t \in Slots : t # s => ~ Login(t) /\ ~ Unlock(t) /\ ~ Logout(t)
  BY <1>2 DEF InSession, SessionCommands, Login, Unlock, Logout
<1>4. client = None /\ ~ ui.logged /\ ~ syncing
  BY <1>1, <1>3 DEF IInv, CalmInv, LoginAlone, FlagInv, LogoutOn, TypeOK
<1>5. \A p \in Passphrases :
        /\ loops[p] =< 1
        /\ loops[p] > 0 => p =< logins /\ p # file /\ \A t \in Slots : cmd[t].pass # p
  BY <1>1, <1>3, <1>4 DEF IInv, CalmInv, LoopsOnce, LogoutOn
<1> QED BY <1>1, <1>2, <1>3, <1>4, <1>5

LEMMA LoginCalm ==
  ASSUME IInv, Calm, NEW s \in Slots, Login(s) \/ Unlock(s), NEW c, Becomes(s, c),
         c.do = cmd[s].do, file' \in {file, None, Torn, c.pass},
         \/ c.pass \in {cmd[s].pass, file} /\ logins' = logins
         \/ c.pass = logins' /\ logins' = logins + 1,
         UNCHANGED <<client, sync, ui>>
  PROVE  LogoutAlone' /\ QuietKept' /\ LoopsOnce' /\ FlagInv'
<1>1. /\ client = None /\ ~ ui.logged /\ ~ syncing /\ InSession(s) /\ ~ Logout(s)
      /\ \A t \in Slots : t # s =>
           ~ InSession(t) /\ ~ Login(t) /\ ~ Unlock(t) /\ ~ Logout(t)
      /\ \A p \in Passphrases :
           /\ loops[p] =< 1
           /\ loops[p] > 0 => p =< logins /\ p # file /\ \A t \in Slots : cmd[t].pass # p
  BY AtLogin
<1>2. cmd'[s] = c /\ \A t \in Slots : t # s => cmd'[t] = cmd[t]
  BY DEF Becomes
<1>3. InSession(s)' /\ \A t \in Slots : ~ Logout(t)'
  BY <1>1, <1>2 DEF InSession, Logout
<1>4. LogoutAlone'
  BY <1>3 DEF LogoutAlone
<1>5. QuietKept' /\ FlagInv'
  BY <1>1, <1>3 DEF QuietKept, FlagInv, Quiet, sync
<1>6. LoopsOnce'
  <2>1. ASSUME NEW p \in Passphrases, loops[p] > 0
        PROVE  p =< logins' /\ p # c.pass
    BY <1>1, <2>1, Constants, InUse DEF IInv
  <2> QED BY <1>1, <1>2, <2>1, Constants DEF LoopsOnce, sync
<1> QED BY <1>4, <1>5, <1>6

LEMMA LoginOver ==
  ASSUME IInv, Calm, NEW s \in Slots, Login(s) \/ Unlock(s), Becomes(s, Idle),
         UNCHANGED <<file, client, sync, ui, logins>>
  PROVE  LoginAlone' /\ LogoutAlone' /\ QuietKept' /\ LoopsOnce' /\ FlagInv'
<1>1. /\ client = None /\ ~ ui.logged /\ ~ syncing
      /\ \A t \in Slots : t # s =>
           ~ InSession(t) /\ ~ Login(t) /\ ~ Unlock(t) /\ ~ Logout(t)
      /\ \A p \in Passphrases :
           /\ loops[p] =< 1
           /\ loops[p] > 0 => p =< logins /\ p # file /\ \A t \in Slots : cmd[t].pass # p
  BY AtLogin
<1>2. cmd'[s] = Idle /\ \A t \in Slots : t # s => cmd'[t] = cmd[t]
  BY DEF Becomes
<1>3. \A t \in Slots : ~ Login(t)' /\ ~ Unlock(t)' /\ ~ Logout(t)'
  BY <1>1, <1>2 DEF Login, Unlock, Logout, Idle
<1>4. LoginAlone' /\ LogoutAlone'
  BY <1>3 DEF LoginAlone, LogoutAlone, Login, At
<1>5. QuietKept' /\ FlagInv'
  BY <1>1 DEF QuietKept, FlagInv, sync
<1>6. LoopsOnce'
  BY <1>1, <1>2, Constants DEF LoopsOnce, sync, Idle
<1> QED BY <1>4, <1>5, <1>6

\* All that is left to show of a step of a login or an unlock.
LEMMA LoginStep ==
  ASSUME IInv, NEW s \in Slots, Login(s) \/ Unlock(s), NEW c, Becomes(s, c),
         c.do = cmd[s].do, c.from = cmd[s].from,
         store' \in {store, None, c.pass}, file' \in {file, None, Torn, c.pass},
         \/ c.pass \in {cmd[s].pass, file} /\ logins' = logins
         \/ c.pass = logins' /\ logins' = logins + 1 /\ logins < MaxLogins,
         UNCHANGED <<client, sync, ui, crossed, crossings>>,
         Ordered => StoreInv',
         crossed \subseteq {"logout"} => CleanInv',
         Calm => LoginAlone'
  PROVE  IInv'
<1>1. InSession(s) /\ c.do \in {"login", "unlock"}
  BY DEF InSession, SessionCommands, Login, Unlock
<1>2. TypeOK'
  <2>1. logins' \in {logins, logins + 1} /\ logins' \in 0..MaxLogins
    BY Constants DEF IInv, TypeOK
  <2> QED BY <2>1, Typed DEF IInv, TypeOK, sync
<1>3. /\ Met' /\ Unheard' /\ PageDown' /\ Fields' /\ (Ordered' => Screens')
      /\ Ordered' = Ordered /\ Calm' = Calm
      /\ Calm => EffectAlone' /\ NoStart'
  BY <1>1, Move DEF Onward
<1>4. Calm => LogoutAlone' /\ QuietKept' /\ LoopsOnce' /\ FlagInv'
  BY LoginCalm
<1> QED BY <1>2, <1>3, <1>4, Together

\* A login or an unlock that ends without having installed a client.
LEMMA FailStep ==
  ASSUME IInv, NEW s \in Slots, Login(s) \/ Unlock(s), cmd[s].at # "install",
         Ends(s), UNCHANGED <<disk, client, sync, ui, history>>
  PROVE  IInv'
<1>1. InSession(s) /\ CmdOK
  BY DEF InSession, SessionCommands, Login, Unlock, IInv, TypeOK, CmdOK
<1>2. /\ Becomes(s, Idle) /\ cmd'[s] = Idle /\ \A t \in Slots : t # s => cmd'[t] = cmd[t]
      /\ UNCHANGED <<store, file, client, sync, ui, logins, crossed, crossings>>
  BY <1>1, Ended DEF Becomes, disk, history
<1>3. TypeOK'
  BY <1>2, Typed DEF IInv, TypeOK, sync, Idle
<1>4. /\ Met' /\ Unheard' /\ PageDown' /\ Fields' /\ (Ordered' => Screens')
      /\ Ordered' = Ordered /\ Calm' = Calm
      /\ Calm => EffectAlone' /\ NoStart'
  BY <1>1, <1>2, Move DEF Onward, Idle
<1>5. ASSUME Ordered
      PROVE  StoreInv'
  <2>1. \A t \in Slots : Login(t)' => Login(t) /\ cmd'[t] = cmd[t]
    BY <1>2 DEF Login, Idle
  <2>2. LoginStore'
    BY <1>2, <1>5, <2>1 DEF IInv, StoreInv, LoginStore
  <2>3. FormShown'
    BY <1>2, <1>5 DEF IInv, StoreInv, FormShown, At
  <2> QED BY <1>2, <1>5, <2>2, <2>3 DEF IInv, StoreInv
<1>6. crossed \subseteq {"logout"} => CleanInv'
  BY <1>2 DEF IInv, CleanInv, At, Idle
<1>7. Calm => LoginAlone' /\ LogoutAlone' /\ QuietKept' /\ LoopsOnce' /\ FlagInv'
  BY <1>2, LoginOver
<1> QED BY <1>2, <1>3, <1>4, <1>5, <1>6, <1>7, Together

LEMMA WipeStep ==
  ASSUME IInv, NEW s \in Slots, LoginWipes(s)
  PROVE  IInv'
<1>1. PICK at \in {"wipe", "build"} :
        Becomes(s, [do |-> "login", at |-> at, pass |-> cmd[s].pass, from |-> cmd[s].from])
        /\ (at = "build" => store' = None /\ file' = None)
  <2>1. CmdOK /\ cmd[s].do = "login" /\ cmd[s].at = "wipe" /\ "build" \in Stages("login")
    BY DEF IInv, TypeOK, CmdOK, LoginWipes, At, Stages
  <2>2. CASE store' = None /\ file' = None /\ MovesTo(s, "build")
    BY <2>1, <2>2, Moved
  <2>3. CASE cmd' = cmd
    <3>1. CmdOK'
      BY <2>1, <2>3 DEF CmdOK
    <3>2. cmd'[s] = [do |-> "login", at |-> "wipe", pass |-> cmd[s].pass, from |-> cmd[s].from]
      BY <2>1, <2>3, CmdFields
    <3> QED BY <2>3, <3>1, <3>2 DEF Becomes
  <2> QED BY <2>2, <2>3 DEF LoginWipes
<1> DEFINE c == [do |-> "login", at |-> at, pass |-> cmd[s].pass, from |-> cmd[s].from]
<1>2. /\ Login(s) /\ cmd[s].at = "wipe"
      /\ cmd'[s] = c /\ \A t \in Slots : t # s => cmd'[t] = cmd[t]
      /\ store' \in {store, None} /\ file' \in {file, None}
      /\ UNCHANGED <<client, sync, ui, crossed, crossings, logins>>
  BY <1>1 DEF LoginWipes, At, Login, Becomes, history
<1>3. Becomes(s, c) /\ c.do = "login" /\ c.at = at /\ c.pass = cmd[s].pass
      /\ c.from = cmd[s].from
  BY <1>1
<1> HIDE DEF c
<1>4. Ordered => \A t \in Slots : Login(t) => t = s
  BY <1>2 DEF IInv, Screens, OneLogin
<1>5. ASSUME Ordered
      PROVE  StoreInv'
  <2>1. file \notin Passphrases /\ file' \notin Passphrases
    BY <1>2, <1>5, Constants DEF IInv, StoreInv, LoginStore
  <2>2. LoginStore'
    BY <1>2, <1>3, <1>4, <1>5, <2>1 DEF LoginStore, Login
  <2> QED BY <2>1, <2>2 DEF StoreInv, FormShown
<1>6. crossed \subseteq {"logout"} => CleanInv'
  BY <1>1, <1>2, <1>3, <1>4 DEF Ordered, CleanInv, At, Login
<1>7. Calm => LoginAlone'
  BY <1>1, <1>2, <1>3, AtLogin DEF LoginAlone, Login, Unlock, At
<1> QED BY <1>2, <1>3, <1>5, <1>6, <1>7, LoginStep DEF Login

LEMMA BuildStep ==
  ASSUME IInv, NEW s \in Slots, LoginBuilds(s)
  PROVE  IInv'
<1>1. /\ Login(s) /\ cmd[s].at = "build" /\ logins < MaxLogins /\ logins' = logins + 1
      /\ UNCHANGED <<file, client, sync, ui, crossed, crossings>>
      /\ CmdOK
  BY DEF LoginBuilds, At, Login, IInv, TypeOK, CmdOK
<1>2. logins + 1 \in Passphrases
  BY <1>1, Constants DEF IInv, TypeOK
<1>3. Ordered => file \notin Passphrases /\ \A t \in Slots : Login(t) => t = s
  BY <1>1 DEF IInv, StoreInv, LoginStore, Screens, OneLogin
<1>4. CASE /\ store' = logins + 1
           /\ \E at \in {"ask", "challenge"} :
                cmd' = [cmd EXCEPT ![s].pass = logins + 1, ![s].at = at]
  <2>1. PICK at \in {"ask", "challenge"} :
          cmd' = [cmd EXCEPT ![s].pass = logins + 1, ![s].at = at]
    BY <1>4
  <2>2. at \in Stages(cmd[s].do)
    BY <1>1 DEF Login, Stages
  <2> DEFINE c == [do |-> cmd[s].do, at |-> at, pass |-> logins + 1, from |-> cmd[s].from]
  <2>3. Becomes(s, c) /\ c.do = "login" /\ c.at = at /\ c.pass = logins + 1
        /\ c.from = cmd[s].from
    BY <1>1, <1>2, <2>1, <2>2, Drawn DEF Login
  <2> HIDE DEF c
  <2>4. cmd'[s] = c /\ \A t \in Slots : t # s => cmd'[t] = cmd[t]
    BY <2>3 DEF Becomes
  <2>5. ASSUME Ordered
        PROVE  StoreInv'
    <3>1. LoginStore'
      BY <1>1, <1>2, <1>3, <1>4, <2>3, <2>4, <2>5 DEF LoginStore, Login
    <3> QED BY <1>1, <1>3, <2>5, <3>1 DEF StoreInv, FormShown
  <2>6. crossed \subseteq {"logout"} => CleanInv'
    BY <1>3, <2>3, <2>4 DEF Ordered, CleanInv, At, Login
  <2>7. Calm => LoginAlone'
    BY <1>1, <2>3, <2>4, AtLogin DEF LoginAlone, Login, Unlock, At
  <2> QED BY <1>1, <1>4, <2>3, <2>5, <2>6, <2>7, LoginStep DEF Login
<1>5. CASE store' = store /\ Ends(s)
  <2>1. /\ Becomes(s, Idle) /\ cmd'[s] = Idle /\ \A t \in Slots : t # s => cmd'[t] = cmd[t]
    BY <1>1, <1>5, Ended DEF Becomes
  <2>2. InSession(s)
    BY <1>1 DEF InSession, SessionCommands, Login
  <2>3. TypeOK'
    <3>1. logins' \in {logins, logins + 1} /\ logins' \in 0..MaxLogins
      BY <1>1, Constants DEF IInv, TypeOK
    <3> QED BY <1>1, <1>5, <2>1, <3>1, Typed DEF IInv, TypeOK, sync, Idle
  <2>4. /\ Met' /\ Unheard' /\ PageDown' /\ Fields' /\ (Ordered' => Screens')
        /\ Ordered' = Ordered /\ Calm' = Calm
        /\ Calm => EffectAlone' /\ NoStart'
    BY <1>1, <2>1, <2>2, Move DEF Onward, Idle
  <2>5. Ordered => StoreInv'
    BY <1>1, <1>3, <2>1 DEF StoreInv, FormShown, LoginStore, Login, Idle
  <2>6. crossed \subseteq {"logout"} => CleanInv'
    BY <1>1, <1>5, <2>1 DEF IInv, CleanInv, At, Idle
  <2>7. Calm => FALSE
    <3>1. Calm => store = None
      BY <1>1 DEF IInv, Calm, CleanInv, At, Login
    <3> QED BY <1>2, <1>5, <3>1, Constants DEF LoginBuilds, Opens, NewPassphrase
  <2> QED BY <1>1, <2>3, <2>4, <2>5, <2>6, <2>7, Together
<1> QED BY <1>4, <1>5 DEF LoginBuilds, NewPassphrase

\* The challenge, and the acceptance, change nothing but the step.
LEMMA AskStep ==
  ASSUME IInv, NEW s \in Slots, Challenged(s) \/ Accepted(s)
  PROVE  IInv'
<1>1. /\ Login(s) /\ cmd[s].at \in {"challenge", "ask"}
      /\ UNCHANGED <<store, file, client, sync, ui, crossed, crossings, logins>>
      /\ CmdOK
  BY DEF Challenged, Accepted, At, Login, IInv, TypeOK, CmdOK, disk, history
<1>2. PICK at \in {"ask", "open"} : MovesTo(s, at)
  BY DEF Challenged, Accepted
<1>3. at \in Stages(cmd[s].do)
  BY <1>1 DEF Login, Stages
<1> DEFINE c == [do |-> cmd[s].do, at |-> at, pass |-> cmd[s].pass, from |-> cmd[s].from]
<1>4. Becomes(s, c) /\ c.do = "login" /\ c.at = at /\ c.pass = cmd[s].pass
      /\ c.from = cmd[s].from
  BY <1>1, <1>2, <1>3, Moved DEF Login
<1> HIDE DEF c
<1>5. cmd'[s] = c /\ \A t \in Slots : t # s => cmd'[t] = cmd[t]
  BY <1>4 DEF Becomes
<1>6. ASSUME Ordered
      PROVE  StoreInv'
  <2>1. LoginStore'
    BY <1>1, <1>4, <1>5, <1>6 DEF IInv, StoreInv, LoginStore, Login
  <2>2. file \notin Passphrases
    BY <1>1, <1>6 DEF IInv, StoreInv, LoginStore
  <2> QED BY <1>1, <2>1, <2>2 DEF StoreInv, FormShown
<1>7. crossed \subseteq {"logout"} => CleanInv'
  BY <1>1, <1>4, <1>5 DEF IInv, CleanInv, At
<1>8. Calm => LoginAlone'
  BY <1>1, <1>4, <1>5, AtLogin DEF LoginAlone, Login, Unlock, At
<1> QED BY <1>1, <1>4, <1>6, <1>7, <1>8, LoginStep DEF Login

LEMMA OpenedStep ==
  ASSUME IInv, NEW s \in Slots, FileOpened(s)
  PROVE  IInv'
<1>1. /\ Login(s) /\ cmd[s].at = "open" /\ file' = Torn /\ MovesTo(s, "write")
      /\ UNCHANGED <<store, client, sync, ui, crossed, crossings, logins>>
      /\ CmdOK
  BY DEF FileOpened, At, Login, IInv, TypeOK, CmdOK, history
<1>2. "write" \in Stages(cmd[s].do)
  BY <1>1 DEF Login, Stages
<1> DEFINE c == [do |-> cmd[s].do, at |-> "write", pass |-> cmd[s].pass, from |-> cmd[s].from]
<1>3. Becomes(s, c) /\ c.do = "login" /\ c.at = "write" /\ c.pass = cmd[s].pass
      /\ c.from = cmd[s].from
  BY <1>1, <1>2, Moved DEF Login
<1> HIDE DEF c
<1>4. cmd'[s] = c /\ \A t \in Slots : t # s => cmd'[t] = cmd[t]
  BY <1>3 DEF Becomes
<1>5. Ordered => \A t \in Slots : Login(t) => t = s
  BY <1>1 DEF IInv, Screens, OneLogin
<1>6. ASSUME Ordered
      PROVE  StoreInv'
  <2>1. LoginStore'
    BY <1>1, <1>3, <1>4, <1>6, Constants DEF IInv, StoreInv, LoginStore, Login
  <2> QED BY <1>1, <2>1, Constants DEF StoreInv, FormShown
<1>7. crossed \subseteq {"logout"} => CleanInv'
  BY <1>3, <1>4, <1>5 DEF Ordered, CleanInv, At, Login
<1>8. Calm => LoginAlone'
  BY <1>1, <1>3, <1>4, AtLogin DEF LoginAlone, Login, Unlock, At
<1> QED BY <1>1, <1>3, <1>6, <1>7, <1>8, LoginStep DEF Login

LEMMA WrittenStep ==
  ASSUME IInv, NEW s \in Slots, FileWritten(s)
  PROVE  IInv'
<1>1. /\ Login(s) /\ cmd[s].at = "write" /\ MovesTo(s, "install")
      /\ file' = IF file = None THEN None ELSE cmd[s].pass
      /\ UNCHANGED <<store, client, sync, ui, crossed, crossings, logins>>
      /\ CmdOK
  BY DEF FileWritten, At, Login, IInv, TypeOK, CmdOK, history
<1>2. "install" \in Stages(cmd[s].do)
  BY <1>1 DEF Login, Stages
<1> DEFINE c == [do |-> cmd[s].do, at |-> "install", pass |-> cmd[s].pass,
                 from |-> cmd[s].from]
<1>3. Becomes(s, c) /\ c.do = "login" /\ c.at = "install" /\ c.pass = cmd[s].pass
      /\ c.from = cmd[s].from
  BY <1>1, <1>2, Moved DEF Login
<1> HIDE DEF c
<1>4. cmd'[s] = c /\ \A t \in Slots : t # s => cmd'[t] = cmd[t]
  BY <1>3 DEF Becomes
<1>5. Ordered => \A t \in Slots : Login(t) => t = s
  BY <1>1 DEF IInv, Screens, OneLogin
<1>6. ASSUME Ordered
      PROVE  StoreInv'
  <2>1. store = cmd[s].pass /\ cmd[s].pass \in Passphrases
    BY <1>1, <1>6 DEF IInv, StoreInv, LoginStore
  <2>2. LoginStore'
    BY <1>1, <1>3, <1>4, <1>5, <1>6, <2>1 DEF LoginStore, Login
  <2>3. At(s, "login", "install")'
    BY <1>3, <1>4 DEF At
  <2> QED BY <1>1, <2>1, <2>2, <2>3, Constants DEF StoreInv, FormShown
<1>7. crossed \subseteq {"logout"} => CleanInv'
  BY <1>3, <1>4, <1>5 DEF Ordered, CleanInv, At, Login
<1>8. Calm => LoginAlone'
  <2> SUFFICES ASSUME Calm
               PROVE  LoginAlone'
    OBVIOUS
  <2>1. file = Torn
    BY <1>1 DEF IInv, CalmInv, LoginAlone, At, Login
  <2> QED BY <1>1, <1>3, <1>4, <2>1, AtLogin, Constants DEF LoginAlone, Login, Unlock, At
<1> QED BY <1>1, <1>3, <1>6, <1>7, <1>8, LoginStep DEF Login

LEMMA ReadStep ==
  ASSUME IInv, NEW s \in Slots, UnlockReads(s)
  PROVE  IInv'
<1>1. /\ Unlock(s) /\ cmd[s].at = "read" /\ file \in Passphrases
      /\ cmd' = [cmd EXCEPT ![s].pass = file, ![s].at = "build"]
      /\ UNCHANGED <<store, file, client, sync, ui, crossed, crossings, logins>>
      /\ CmdOK
  BY DEF UnlockReads, At, Unlock, IInv, TypeOK, CmdOK, disk, history
<1>2. "build" \in Stages(cmd[s].do)
  BY <1>1 DEF Unlock, Stages
<1> DEFINE c == [do |-> cmd[s].do, at |-> "build", pass |-> file, from |-> cmd[s].from]
<1>3. Becomes(s, c) /\ c.do = "unlock" /\ c.at = "build" /\ c.pass = file
      /\ c.from = cmd[s].from
  BY <1>1, <1>2, Drawn DEF Unlock
<1> HIDE DEF c
<1>4. cmd'[s] = c /\ \A t \in Slots : t # s => cmd'[t] = cmd[t]
  BY <1>3 DEF Becomes
<1>5. \A t \in Slots : /\ Login(t)' <=> Login(t)
                       /\ Login(t) => cmd'[t] = cmd[t]
  BY <1>1, <1>3, <1>4 DEF Login, Unlock
<1>6. ASSUME Ordered
      PROVE  StoreInv'
  <2>1. LoginStore'
    BY <1>1, <1>5, <1>6 DEF IInv, StoreInv, LoginStore
  <2>2. FormShown'
    BY <1>1, <1>5, <1>6 DEF IInv, StoreInv, FormShown, At, Login
  <2> QED BY <1>1, <1>6, <2>1, <2>2 DEF IInv, StoreInv
<1>7. crossed \subseteq {"logout"} => CleanInv'
  BY <1>1, <1>5 DEF IInv, CleanInv, At, Login
<1>8. Calm => LoginAlone'
  BY <1>1, <1>3, <1>4, AtLogin DEF LoginAlone, Login, Unlock, At
<1> QED BY <1>1, <1>3, <1>6, <1>7, <1>8, LoginStep DEF Unlock

LEMMA OpensStep ==
  ASSUME IInv, NEW s \in Slots, UnlockBuilds(s)
  PROVE  IInv'
<1>1. /\ Unlock(s) /\ cmd[s].at = "build"
      /\ UNCHANGED <<file, client, sync, ui, crossed, crossings, logins>>
      /\ CmdOK
  BY DEF UnlockBuilds, At, Unlock, IInv, TypeOK, CmdOK, history
<1>2. CASE store' = store /\ Ends(s)
  BY <1>1, <1>2, FailStep DEF disk, history
<1>3. CASE store \in {None, cmd[s].pass} /\ store' = cmd[s].pass /\ MovesTo(s, "install")
  <2>1. "install" \in Stages(cmd[s].do)
    BY <1>1 DEF Unlock, Stages
  <2> DEFINE c == [do |-> cmd[s].do, at |-> "install", pass |-> cmd[s].pass,
                   from |-> cmd[s].from]
  <2>2. Becomes(s, c) /\ c.do = "unlock" /\ c.at = "install" /\ c.pass = cmd[s].pass
        /\ c.from = cmd[s].from
    BY <1>1, <1>3, <2>1, Moved DEF Unlock
  <2> HIDE DEF c
  <2>3. cmd'[s] = c /\ \A t \in Slots : t # s => cmd'[t] = cmd[t]
    BY <2>2 DEF Becomes
  <2>4. \A t \in Slots : /\ Login(t)' <=> Login(t)
                         /\ Login(t) => cmd'[t] = cmd[t]
    BY <1>1, <2>2, <2>3 DEF Login, Unlock
  <2>5. ASSUME Ordered
        PROVE  StoreInv'
    <3>1. file \in Passphrases => store' = file
      BY <1>1, <1>3, <2>5, Constants DEF IInv, StoreInv
    <3>2. LoginStore'
      BY <1>1, <1>3, <2>4, <2>5, Constants DEF IInv, StoreInv, LoginStore
    <3>3. FormShown'
      BY <1>1, <2>4, <2>5 DEF IInv, StoreInv, FormShown, At, Login
    <3> QED BY <1>1, <3>1, <3>2, <3>3 DEF StoreInv
  <2>6. ASSUME crossed \subseteq {"logout"}
        PROVE  CleanInv'
    <3>1. \A t \in Slots : ~ Login(t)
      BY <1>1, <2>6 DEF IInv, Met, InSession, SessionCommands, Login, Unlock
    <3> QED BY <2>4, <3>1 DEF CleanInv, At, Login
  <2>7. Calm => LoginAlone'
    BY <1>1, <2>2, <2>3, AtLogin DEF IInv, CalmInv, LoginAlone, Login, Unlock, At
  <2> QED BY <1>1, <1>3, <2>2, <2>5, <2>6, <2>7, LoginStep DEF Unlock
<1> QED BY <1>2, <1>3 DEF UnlockBuilds, Opens

\* The steps of a logout, but the last.
LEMMA LogoutStep ==
  ASSUME IInv, NEW s \in Slots, LogoutTakes(s) \/ LogoutAnswered(s) \/ LogoutClears(s)
  PROVE  IInv'
<1>1. /\ Logout(s) /\ InSession(s) /\ CmdOK
      /\ UNCHANGED <<store, file, loops, ended, ui, crossed, crossings, logins>>
  BY DEF LogoutTakes, LogoutAnswered, LogoutClears, At, Logout, InSession, SessionCommands,
     IInv, TypeOK, CmdOK, disk, sync, history
<1>2. PICK at \in {"server", "clear", "remove"} :
        /\ MovesTo(s, at)
        /\ client' = None \/ (client' = client /\ cmd[s].at # "take")
        /\ syncing' = FALSE \/ (syncing' = syncing /\ at \in {"server", "clear"})
  BY DEF LogoutTakes, LogoutAnswered, LogoutClears, At, sync
<1>3. at \in Stages(cmd[s].do)
  BY <1>1 DEF Logout, Stages
<1> DEFINE c == [do |-> cmd[s].do, at |-> at, pass |-> cmd[s].pass, from |-> cmd[s].from]
<1>4. Becomes(s, c) /\ c.do = "logout" /\ c.at = at /\ c.pass = cmd[s].pass
      /\ c.from = cmd[s].from
  BY <1>1, <1>2, <1>3, Moved DEF Logout
<1> HIDE DEF c
<1>5. /\ cmd'[s] = c /\ \A t \in Slots : t # s => cmd'[t] = cmd[t]
      /\ c.pass = None
  BY <1>1, <1>4 DEF Becomes, IInv, Fields, Logout, Login, Unlock
<1>6. TypeOK'
  BY <1>1, <1>2, <1>4, <1>5, Typed DEF IInv, TypeOK
<1>7. /\ Met' /\ Unheard' /\ PageDown' /\ Fields' /\ (Ordered' => Screens')
      /\ Ordered' = Ordered /\ Calm' = Calm
      /\ Calm => EffectAlone' /\ NoStart'
  BY <1>1, <1>4, <1>5, Move DEF Onward, Logout
<1>8. \A t \in Slots : /\ Login(t)' <=> Login(t)
                       /\ Login(t) => cmd'[t] = cmd[t]
  BY <1>1, <1>4, <1>5 DEF Login, Logout
<1>9. ASSUME Ordered
      PROVE  StoreInv'
  <2>1. LoginStore'
    BY <1>1, <1>8, <1>9 DEF IInv, StoreInv, LoginStore
  <2>2. FormShown'
    BY <1>1, <1>8, <1>9 DEF IInv, StoreInv, FormShown, At, Login
  <2> QED BY <1>1, <1>9, <2>1, <2>2 DEF IInv, StoreInv
<1>10. crossed \subseteq {"logout"} => CleanInv'
  BY <1>1, <1>8 DEF IInv, CleanInv, At, Login
<1>11. ASSUME Calm
       PROVE  LoginAlone' /\ LogoutAlone' /\ QuietKept' /\ LoopsOnce' /\ FlagInv'
  <2>1. \A t \in Slots : t # s => ~ InSession(t)
    BY <1>1, <1>11, Alone
  <2>2. \A t \in Slots : InSession(t)' => t = s
    BY <1>5, <2>1 DEF InSession
  <2>3. \A t \in Slots : ~ Login(t)' /\ ~ Unlock(t)' /\ (Logout(t)' => t = s)
    BY <1>4, <1>5, <2>2 DEF InSession, SessionCommands, Login, Unlock, Logout
  <2>4. client' = None
    BY <1>1, <1>2, <1>11 DEF IInv, CalmInv, LogoutAlone
  <2>5. LoginAlone'
    BY <2>3 DEF LoginAlone, At, Login
  <2>6. LogoutAlone'
    BY <1>1, <1>4, <1>5, <1>11, <2>3, <2>4 DEF IInv, CalmInv, LogoutAlone
  <2>7. InSession(s)' /\ Logout(s)' /\ cmd'[s].at = at
    BY <1>4, <1>5 DEF InSession, SessionCommands, Logout
  <2>8. QuietKept' /\ FlagInv'
    BY <1>2, <2>4, <2>7 DEF QuietKept, FlagInv, Quiet, LogoutOn
  <2>9. LoopsOnce'
    BY <1>1, <1>11, <2>7 DEF IInv, CalmInv, LoopsOnce, LogoutOn
  <2> QED BY <2>5, <2>6, <2>8, <2>9
<1> QED BY <1>1, <1>6, <1>7, <1>9, <1>10, <1>11, Together DEF Ordered, Calm

-----------------------------------------------------------------------------
(* Steps beside the session commands: requests and the sync.               *)

LEMMA BesideStep ==
  ASSUME IInv, CmdOK',
         \A s \in Slots : cmd'[s] = cmd[s] \/ (Beside(s) /\ cmd'[s].pass = None),
         UNCHANGED <<store, file, client, crossed, crossings, logins>>,
         ui'.up = ui.up, ui'.logged = ui.logged, ui'.session = ui.session,
         ui'.effect => ui.effect,
         ui' \in [up : BOOLEAN, logged : BOOLEAN, session : BOOLEAN, effect : BOOLEAN],
         syncing' \in BOOLEAN, loops' \in [Passphrases -> Nat], ended' \subseteq Passphrases,
         Calm => NoStart' /\ LoopsOnce' /\ FlagInv'
  PROVE  IInv'
<1>1. TypeOK'
  <2>1. ASSUME NEW p \in Passphrases,
               p \in {store', file', client'} \cup {cmd'[t].pass : t \in Slots}
        PROVE  p =< logins'
    <3>1. p \in {store, file, client} \cup {cmd[t].pass : t \in Slots}
      BY <2>1, Constants
    <3> QED BY <3>1 DEF IInv, TypeOK
  <2>2. \A p \in Passphrases :
          p \in {store', file', client'} \cup {cmd'[t].pass : t \in Slots} => p =< logins'
    BY <2>1
  <2> QED BY <2>2 DEF IInv, TypeOK, CmdOK
<1>2. \A t \in Slots : Keeps(t) \/ Beside(t)
  BY DEF Keeps
<1>3. Met' /\ Unheard' /\ PageDown' /\ (Ordered' => Screens')
  BY <1>2, Paged
<1>4. \A t \in Slots : /\ InSession(t)' <=> InSession(t)
                       /\ Login(t)' <=> Login(t)
                       /\ Unlock(t)' <=> Unlock(t)
                       /\ Logout(t)' <=> Logout(t)
                       /\ InSession(t) \/ Login(t) \/ Unlock(t) \/ Logout(t) => cmd'[t] = cmd[t]
  BY DEF Beside, InSession, SessionCommands, Login, Unlock, Logout
<1>5. Fields'
  BY <1>4 DEF IInv, Fields
<1>6. ASSUME Ordered
      PROVE  StoreInv'
  <2>1. LoginStore'
    BY <1>4, <1>6 DEF IInv, StoreInv, LoginStore
  <2>2. FormShown'
    BY <1>4, <1>6 DEF IInv, StoreInv, FormShown, At, Login
  <2> QED BY <1>6, <2>1, <2>2 DEF IInv, StoreInv
<1>7. crossed \subseteq {"logout"} => CleanInv'
  BY <1>4 DEF IInv, CleanInv, At, Login
<1>8. ASSUME Calm
      PROVE  EffectAlone' /\ LoginAlone' /\ LogoutAlone' /\ QuietKept'
  <2>1. Quiet' <=> Quiet
    BY <1>4 DEF Quiet
  <2>2. EffectAlone' /\ QuietKept'
    BY <1>8, <2>1 DEF IInv, CalmInv, EffectAlone, QuietKept
  <2>3. LoginAlone'
    BY <1>4, <1>8 DEF IInv, CalmInv, LoginAlone, At, Login
  <2>4. LogoutAlone'
    BY <1>4, <1>8 DEF IInv, CalmInv, LogoutAlone
  <2> QED BY <2>2, <2>3, <2>4
<1> QED BY <1>1, <1>3, <1>5, <1>6, <1>7, <1>8, Together DEF Ordered, Calm

\* With loops, flag and screen as they were, so are the invariants about them.
LEMMA RequestStep ==
  ASSUME IInv, CmdOK',
         \A s \in Slots : cmd'[s] = cmd[s]
                          \/ (Beside(s) /\ cmd'[s].pass = None /\ cmd'[s].do # "start"),
         UNCHANGED <<disk, client, sync, ui, history>>
  PROVE  IInv'
<1>1. UNCHANGED <<store, file, client, syncing, loops, ended, ui, crossed, crossings, logins>>
  BY DEF disk, sync, history
<1>2. \A s \in Slots : cmd'[s] = cmd[s] \/ (Beside(s) /\ cmd'[s].pass = None)
  OBVIOUS
<1>3. ASSUME Calm
      PROVE  NoStart' /\ LoopsOnce' /\ FlagInv'
  <2>1. \A t \in Slots : /\ InSession(t)' <=> InSession(t)
                         /\ Logout(t)' <=> Logout(t)
                         /\ InSession(t) \/ Logout(t) => cmd'[t] = cmd[t]
    BY DEF Beside, InSession, SessionCommands, Logout
  <2>2. NoStart'
    BY <1>3 DEF IInv, CalmInv, NoStart
  <2>3. (Quiet' <=> Quiet) /\ \A at : LogoutOn(at)' <=> LogoutOn(at)
    BY <2>1 DEF Quiet, LogoutOn
  <2>4. LoopsOnce'
    BY <1>1, <1>3, <2>3, Constants DEF IInv, CalmInv, LoopsOnce
  <2>5. FlagInv'
    BY <1>1, <1>3, <2>3 DEF IInv, CalmInv, FlagInv
  <2> QED BY <2>2, <2>4, <2>5
<1>4. /\ ui' \in [up : BOOLEAN, logged : BOOLEAN, session : BOOLEAN, effect : BOOLEAN]
      /\ syncing' \in BOOLEAN /\ loops' \in [Passphrases -> Nat] /\ ended' \subseteq Passphrases
  BY <1>1 DEF IInv, TypeOK
<1> QED BY <1>1, <1>2, <1>3, <1>4, BesideStep

LEMMA AskedStep ==
  ASSUME IInv, ChatCommand
  PROVE  IInv'
<1>1. PICK trips \in {"first", "last"} : Asks(trips)
  BY DEF ChatCommand, Rooms, SendMessage, RoomMessages, RoomCommand, RoomMembers, SendFile,
     ReadMedia, OwnDevices, BootstrapCrossSigning, RecoveryEnable, DeleteDevices, Recover,
     RequestVerification, RegisterPusher, VerificationStatus
<1>2. CmdOK /\ "request" \in Kinds /\ trips \in Stages("request")
  BY DEF IInv, TypeOK, CmdOK, Kinds, Stages
<1>3. PICK s \in Slots :
        /\ cmd[s] = Idle
        /\ Becomes(s, [do |-> "request", at |-> trips, pass |-> None, from |-> "app"])
  BY <1>1, <1>2, Started DEF Asks
<1>4. /\ CmdOK' /\ Beside(s) /\ cmd'[s].pass = None /\ cmd'[s].do # "start"
      /\ \A t \in Slots : t # s => cmd'[t] = cmd[t]
  BY <1>1, <1>3 DEF Asks, Becomes, Beside, InSession, SessionCommands, Idle
<1>5. \A t \in Slots : cmd'[t] = cmd[t]
                       \/ (Beside(t) /\ cmd'[t].pass = None /\ cmd'[t].do # "start")
  BY <1>4
<1>6. CmdOK' /\ UNCHANGED <<disk, client, sync, ui, history>>
  BY <1>1, <1>4 DEF Asks
<1> QED BY <1>5, <1>6, RequestStep

LEMMA ReplyStep ==
  ASSUME IInv, NEW s \in Slots, RequestReplied(s)
  PROVE  IInv'
<1>1. /\ cmd[s].do = "request" /\ CmdOK /\ cmd[s].pass = None
      /\ UNCHANGED <<disk, client, sync, ui, history>>
  BY DEF RequestReplied, IInv, TypeOK, CmdOK, Fields, Login, Unlock
<1>2. PICK c : /\ Becomes(s, c) /\ c.do \in {"request", "idle"} /\ c.pass = None
               /\ c.from \in {cmd[s].from, "none"}
  <2>1. CASE MovesTo(s, "last")
    <3>1. "last" \in Stages(cmd[s].do)
      BY <1>1 DEF Stages
    <3>2. Becomes(s, [do |-> cmd[s].do, at |-> "last", pass |-> cmd[s].pass,
                      from |-> cmd[s].from])
      BY <1>1, <2>1, <3>1, Moved
    <3> QED BY <1>1, <3>2
  <2>2. CASE Ends(s)
    BY <1>1, <2>2, Ended DEF Idle
  <2> QED BY <2>1, <2>2 DEF RequestReplied
<1>3. /\ CmdOK' /\ cmd'[s].pass = None /\ cmd'[s].do # "start"
      /\ \A t \in Slots : t # s => cmd'[t] = cmd[t]
  BY <1>2 DEF Becomes
<1>4. Beside(s)
  BY <1>1, <1>2 DEF Becomes, Beside, InSession, SessionCommands, IInv, PageDown
<1>5. \A t \in Slots : cmd'[t] = cmd[t]
                       \/ (Beside(t) /\ cmd'[t].pass = None /\ cmd'[t].do # "start")
  BY <1>3, <1>4
<1> QED BY <1>1, <1>3, <1>5, RequestStep

\* A start of the sync that waited for the lock; another command was under way,
\* so this is no calm session.
LEMMA SyncStep ==
  ASSUME IInv, NEW s \in Slots, SyncStarts(s)
  PROVE  IInv'
<1>1. /\ cmd[s].do = "start" /\ CmdOK /\ Ends(s) /\ loops' = LoopsStarted
      /\ UNCHANGED <<store, file, client, syncing, ended, ui, crossed, crossings, logins>>
  BY DEF SyncStarts, IInv, TypeOK, CmdOK, disk, history
<1>2. CmdOK' /\ cmd'[s] = Idle /\ \A t \in Slots : t # s => cmd'[t] = cmd[t]
  BY <1>1, Ended DEF Becomes
<1>3. \A t \in Slots : cmd'[t] = cmd[t] \/ (Beside(t) /\ cmd'[t].pass = None)
  BY <1>1, <1>2 DEF Beside, InSession, SessionCommands, Idle
<1>4. loops' \in [Passphrases -> Nat]
  <2>1. loops \in [Passphrases -> Nat] /\ client \in Passphrases \cup {None}
    BY DEF IInv, TypeOK
  <2> QED BY <1>1, <2>1 DEF LoopsStarted
<1>5. Calm => FALSE
  BY <1>1 DEF IInv, CalmInv, NoStart
<1>6. /\ ui' \in [up : BOOLEAN, logged : BOOLEAN, session : BOOLEAN, effect : BOOLEAN]
      /\ syncing' \in BOOLEAN /\ ended' \subseteq Passphrases
      /\ ui'.up = ui.up /\ ui'.logged = ui.logged /\ ui'.session = ui.session
      /\ ui'.effect => ui.effect
  BY <1>1 DEF IInv, TypeOK
<1> QED BY <1>1, <1>2, <1>3, <1>4, <1>5, <1>6, BesideStep

LEMMA EndsStep ==
  ASSUME IInv, NEW p \in Passphrases, SyncEnds(p)
  PROVE  IInv'
<1>1. /\ loops[p] > 0 /\ loops' = [loops EXCEPT ![p] = loops[p] - 1]
      /\ ended' = ended \cup {p}
      /\ UNCHANGED <<store, file, client, syncing, cmd, ui, crossed, crossings, logins>>
  BY DEF SyncEnds, disk, history
<1>2. loops \in [Passphrases -> Nat]
  BY DEF IInv, TypeOK
<1>3. /\ loops' \in [Passphrases -> Nat] /\ loops'[p] = loops[p] - 1
      /\ \A q \in Passphrases : q # p => loops'[q] = loops[q]
  BY <1>1, <1>2
<1>4. CmdOK' /\ (\A t \in Slots : cmd'[t] = cmd[t] \/ (Beside(t) /\ cmd'[t].pass = None))
  BY <1>1 DEF IInv, TypeOK, CmdOK
<1>5. ASSUME Calm
      PROVE  NoStart' /\ LoopsOnce' /\ FlagInv'
  <2>1. NoStart'
    BY <1>1, <1>5 DEF IInv, CalmInv, NoStart
  <2>2. LoopsOnce'
    <3>1. \A q \in Passphrases : loops'[q] =< loops[q] /\ loops'[q] \in Nat /\ loops[q] \in Nat
      BY <1>2, <1>3
    <3>2. \A q \in Passphrases : loops'[q] =< 1 /\ (loops'[q] > 0 => loops[q] > 0)
      BY <1>5, <3>1 DEF IInv, CalmInv, LoopsOnce
    <3> QED BY <1>1, <1>5, <3>2 DEF IInv, CalmInv, LoopsOnce, LogoutOn, Logout
  <2>3. FlagInv'
    <3>1. client # None => client \in Passphrases
      BY DEF IInv, TypeOK
    <3>2. client # None /\ (loops[client] > 0 \/ client \in ended)
            => loops'[client] > 0 \/ client \in ended'
      BY <1>1, <1>3, <3>1
    <3> QED BY <1>1, <1>5, <3>2 DEF IInv, CalmInv, FlagInv, LogoutOn, Logout, Quiet, InSession
  <2> QED BY <2>1, <2>2, <2>3
<1>6. /\ ui' \in [up : BOOLEAN, logged : BOOLEAN, session : BOOLEAN, effect : BOOLEAN]
      /\ syncing' \in BOOLEAN /\ ended' \subseteq Passphrases
      /\ ui'.up = ui.up /\ ui'.logged = ui.logged /\ ui'.session = ui.session
      /\ ui'.effect => ui.effect
  BY <1>1 DEF IInv, TypeOK
<1> QED BY <1>1, <1>3, <1>4, <1>5, <1>6, BesideStep

\* With a calm session the effect finds the lock free, and no loop on the client
\* unless the flag says so.
LEMMA EffectStep ==
  ASSUME IInv, StartSync
  PROVE  IInv'
<1>1. /\ ui.effect /\ ui' = [ui EXCEPT !.effect = FALSE] /\ syncing' = TRUE
      /\ UNCHANGED <<store, file, client, ended, crossed, crossings, logins>>
  BY DEF StartSync, disk, history
<1>2. /\ loops \in [Passphrases -> Nat] /\ client \in Passphrases \cup {None} /\ CmdOK
      /\ ui \in [up : BOOLEAN, logged : BOOLEAN, session : BOOLEAN, effect : BOOLEAN]
      /\ syncing \in BOOLEAN /\ ended \subseteq Passphrases
  BY DEF IInv, TypeOK, CmdOK
<1>3. /\ ui' \in [up : BOOLEAN, logged : BOOLEAN, session : BOOLEAN, effect : BOOLEAN]
      /\ ui'.up = ui.up /\ ui'.logged = ui.logged /\ ui'.session = ui.session
      /\ ui'.effect = FALSE
  BY <1>1, <1>2
<1>4. loops' \in [Passphrases -> Nat]
  BY <1>2 DEF StartSync, LoopsStarted
<1>5. /\ CmdOK'
      /\ \A t \in Slots : cmd'[t] = cmd[t] \/ (Beside(t) /\ cmd'[t].pass = None)
  <2>1. CASE cmd' = cmd
    BY <1>2, <2>1 DEF CmdOK
  <2>2. CASE /\ Free # {}
             /\ cmd' = [cmd EXCEPT ![NextSlot] = Begun("start", "read", "app")]
    <3>1. "start" \in Kinds /\ "read" \in Stages("start")
      BY DEF Kinds, Stages
    <3>2. PICK s \in Slots :
            /\ cmd[s] = Idle
            /\ Becomes(s, [do |-> "start", at |-> "read", pass |-> None, from |-> "app"])
      BY <1>2, <2>2, <3>1, Started
    <3>3. ui.up
      BY <1>1, <1>2 DEF IInv, PageDown
    <3> QED BY <3>2, <3>3 DEF Becomes, Beside, InSession, SessionCommands, Idle
  <2> QED BY <2>1, <2>2 DEF StartSync
<1>6. ASSUME Calm
      PROVE  NoStart' /\ LoopsOnce' /\ FlagInv'
  <2>1. Quiet /\ client \in Passphrases /\ ui.up
    BY <1>1, <1>2, <1>6 DEF IInv, CalmInv, EffectAlone, QuietKept, PageDown
  <2>2. CanRead
    <3>1. ASSUME NEW s \in Slots
          PROVE  ~ HoldsWrite(s) /\ ~ QueuedWriter(s)
      <4>1. cmd[s].do \in Kinds /\ cmd[s].at \in Stages(cmd[s].do)
        BY <1>2, CmdFields
      <4>2. cmd[s].at # "install" /\ cmd[s].do # "logout"
        BY <2>1, <4>1, StageNames DEF Quiet, InSession, SessionCommands
      <4> QED BY <4>2 DEF HoldsWrite, QueuedWriter, At
    <3> QED BY <3>1 DEF CanRead
  <2>3. cmd' = cmd /\ loops' = IF syncing THEN loops
                               ELSE [loops EXCEPT ![client] = loops[client] + 1]
    BY <2>1, <2>2, Constants DEF StartSync, LoopsStarted
  <2>4. \A at : ~ LogoutOn(at) /\ ~ LogoutOn(at)'
    BY <2>1, <2>3 DEF LogoutOn, Logout, Quiet, InSession, SessionCommands
  <2>5. ~ syncing => loops[client] = 0
    <3>1. loops[client] \in Nat
      BY <1>2, <2>1
    <3> QED BY <1>6, <2>1, <2>4, <3>1 DEF IInv, CalmInv, LoopsOnce
  <2>6. /\ loops'[client] \in Nat /\ loops'[client] =< 1
        /\ loops'[client] > 0 \/ client \in ended
        /\ \A q \in Passphrases : q # client => loops'[q] = loops[q]
    <3>1. CASE syncing
      BY <1>2, <1>6, <2>1, <2>3, <3>1, Constants DEF IInv, CalmInv, LoopsOnce, FlagInv
    <3>2. CASE ~ syncing
      BY <1>2, <2>1, <2>3, <2>5, <3>2
    <3> QED BY <1>2, <3>1, <3>2
  <2>7. NoStart'
    BY <1>6, <2>3 DEF IInv, CalmInv, NoStart
  <2>8. LoopsOnce'
    <3>1. client =< logins
      BY <2>1, InUse DEF IInv
    <3>2. ASSUME NEW q \in Passphrases, q # client, loops[q] > 0
          PROVE  q =< logins /\ q # file /\ \A s \in Slots : cmd[s].pass # q
      BY <1>6, <2>4, <3>2 DEF IInv, CalmInv, LoopsOnce
    <3>3. \A q \in Passphrases : q # client => loops[q] =< 1
      BY <1>6 DEF IInv, CalmInv, LoopsOnce
    <3> QED BY <1>1, <2>3, <2>6, <3>1, <3>2, <3>3 DEF LoopsOnce
  <2>9. FlagInv'
    BY <1>1, <2>1, <2>6, Constants DEF FlagInv
  <2> QED BY <2>7, <2>8, <2>9
<1> QED BY <1>1, <1>2, <1>3, <1>4, <1>5, <1>6, BesideStep

-----------------------------------------------------------------------------
(* The page and the process: mounted, reloaded, ended.                     *)

\* No login and, where nothing crosses, no session command goes on without a
\* page that hears it.
LEMMA MountStep ==
  ASSUME IInv, Mount
  PROVE  IInv'
<1>1. /\ ~ ui.up /\ file' = IF file = Torn THEN None ELSE file
      /\ ui' = [up |-> TRUE, logged |-> client # None,
                session |-> file \in Passphrases, effect |-> client # None]
      /\ UNCHANGED <<store, client, syncing, loops, ended, cmd, logins, crossed, crossings>>
  BY DEF Mount, sync, history
<1>2. \A s \in Slots : cmd[s].from = "none"
  BY <1>1 DEF IInv, PageDown
<1>3. Ordered => \A s \in Slots : ~ Login(s)
  BY <1>2 DEF IInv, Screens, LoginShown
<1>4. Calm => Quiet
  BY <1>2 DEF Calm, Quiet, IInv, Unheard
<1>5. TypeOK'
  <2>1. file' \in {file, None}
    BY <1>1
  <2>2. \A p \in Passphrases :
          p \in {store', file', client'} \cup {cmd'[s].pass : s \in Slots} => p =< logins'
    BY <1>1, <2>1, Constants DEF IInv, TypeOK
  <2> QED BY <1>1, <2>1, <2>2 DEF IInv, TypeOK
<1>6. Met' /\ Unheard' /\ PageDown' /\ Fields'
  BY <1>1 DEF IInv, Met, Unheard, PageDown, Fields, InSession, Login, Unlock, Logout
<1>7. ASSUME Ordered
      PROVE  Screens' /\ StoreInv'
  <2>1. \A s \in Slots : ~ Login(s)' /\ cmd'[s].from = "none"
    BY <1>1, <1>2, <1>3, <1>7 DEF Login
  <2>2. Screens'
    BY <2>1 DEF Screens, OneLogin, LoginShown, UnlockShown
  <2>3. file' \in Passphrases => store' = file' /\ ui'.session
    BY <1>1, <1>7, Constants DEF IInv, StoreInv
  <2> QED BY <2>1, <2>2, <2>3 DEF StoreInv, FormShown, LoginStore
<1>8. crossed \subseteq {"logout"} => CleanInv'
  BY <1>1, <1>3 DEF Ordered, CleanInv, At, Login
<1>9. ASSUME Calm
      PROVE  /\ EffectAlone' /\ NoStart' /\ LoginAlone' /\ LogoutAlone'
             /\ QuietKept' /\ LoopsOnce' /\ FlagInv'
  <2>1. \A s \in Slots : ~ InSession(s)' /\ ~ Login(s)' /\ ~ Unlock(s)' /\ ~ Logout(s)'
    BY <1>1, <1>4, <1>9 DEF Quiet, InSession, SessionCommands, Login, Unlock, Logout
  <2>2. EffectAlone' /\ NoStart'
    BY <1>1, <1>9, <2>1 DEF IInv, CalmInv, EffectAlone, NoStart, Quiet
  <2>3. LoginAlone' /\ LogoutAlone'
    BY <2>1 DEF LoginAlone, LogoutAlone, At, Login
  <2>4. QuietKept'
    <3>1. client # None => file = client /\ store = client /\ client \in Passphrases
      BY <1>4, <1>9 DEF IInv, CalmInv, QuietKept, TypeOK
    <3> QED BY <1>1, <3>1, Constants DEF QuietKept
  <2>5. \A at : ~ LogoutOn(at) /\ ~ LogoutOn(at)'
    BY <1>1, <2>1 DEF LogoutOn, Logout
  <2>6. LoopsOnce'
    BY <1>1, <1>9, <2>5, Constants DEF IInv, CalmInv, LoopsOnce
  <2>7. FlagInv'
    BY <1>1, <1>9, <2>5 DEF IInv, CalmInv, FlagInv
  <2> QED BY <2>2, <2>3, <2>4, <2>6, <2>7
<1> QED BY <1>1, <1>5, <1>6, <1>7, <1>8, <1>9, Together DEF Ordered, Calm

\* What is under way is crossed from here on.
LEMMA CrossedBy ==
  ASSUME TypeOK, NEW kinds, kinds \subseteq SessionCommands, Crosses(kinds)
  PROVE  /\ crossed' \subseteq SessionCommands /\ crossings' \in 0..MaxCrossings
         /\ crossed \subseteq crossed' /\ kinds \subseteq crossed'
BY Constants DEF Crosses, TypeOK

LEMMA ReloadStep ==
  ASSUME IInv, Reload
  PROVE  IInv'
<1>1. /\ ui' = [up |-> FALSE, logged |-> FALSE, session |-> FALSE, effect |-> FALSE]
      /\ UNCHANGED <<store, file, client, syncing, loops, ended, logins>>
      /\ CmdOK
  BY DEF Reload, disk, sync, IInv, TypeOK, CmdOK
<1>2. /\ crossed' \subseteq SessionCommands /\ crossings' \in 0..MaxCrossings
      /\ crossed \subseteq crossed' /\ UnderWay \subseteq crossed'
  BY CrossedBy DEF UnderWay, Reload, IInv
<1>3. \A s \in Slots : cmd'[s] = [do |-> cmd[s].do, at |-> cmd[s].at,
                                  pass |-> cmd[s].pass, from |-> "none"]
  <2>1. \A s \in Slots : cmd'[s] = [cmd[s] EXCEPT !.from = "none"]
    BY DEF Reload
  <2> QED BY <1>1, <2>1 DEF CmdOK
<1>4. /\ \A s \in Slots : /\ cmd'[s].do = cmd[s].do /\ cmd'[s].at = cmd[s].at
                          /\ cmd'[s].pass = cmd[s].pass /\ cmd'[s].from = "none"
      /\ CmdOK'
  <2>1. cmd' = [s \in Slots |-> [do |-> cmd[s].do, at |-> cmd[s].at,
                                 pass |-> cmd[s].pass, from |-> "none"]]
    BY <1>3 DEF Reload
  <2> QED BY <1>1, <1>3, <2>1 DEF CmdOK
<1>5. \A s \in Slots : InSession(s)' => cmd'[s].do \in crossed'
  BY <1>2, <1>4 DEF InSession, UnderWay
<1>6. TypeOK'
  <2>1. \A p \in Passphrases :
          p \in {store', file', client'} \cup {cmd'[s].pass : s \in Slots} => p =< logins'
    BY <1>1, <1>4 DEF IInv, TypeOK
  <2> QED BY <1>1, <1>2, <1>4, <2>1 DEF IInv, TypeOK, CmdOK
<1>7. Met' /\ Unheard' /\ PageDown' /\ Fields'
  BY <1>1, <1>4, <1>5 DEF IInv, Met, Unheard, PageDown, Fields, Login, Unlock, Logout
<1>8. Ordered' => Ordered /\ \A s \in Slots : ~ Login(s)'
  BY <1>2, <1>5 DEF Ordered, InSession, SessionCommands, Login
<1>9. Ordered' => Screens' /\ StoreInv'
  BY <1>1, <1>4, <1>8 DEF IInv, Screens, OneLogin, LoginShown, UnlockShown, StoreInv,
     FormShown, LoginStore
<1>10. crossed' \subseteq {"logout"} => CleanInv'
  BY <1>8 DEF Ordered, CleanInv, At, Login
<1>11. ASSUME Calm'
       PROVE  /\ EffectAlone' /\ NoStart' /\ LoginAlone' /\ LogoutAlone'
              /\ QuietKept' /\ LoopsOnce' /\ FlagInv'
  <2>1. Calm /\ \A s \in Slots : ~ InSession(s) /\ ~ InSession(s)'
    BY <1>2, <1>4, <1>5, <1>11 DEF Calm, InSession
  <2>2. \A s \in Slots : /\ ~ Login(s)' /\ ~ Unlock(s)' /\ ~ Logout(s)' /\ ~ Logout(s)
    BY <2>1 DEF InSession, SessionCommands, Login, Unlock, Logout
  <2>3. \A at : ~ LogoutOn(at) /\ ~ LogoutOn(at)'
    BY <2>2 DEF LogoutOn
  <2>4. EffectAlone' /\ NoStart' /\ LoginAlone' /\ LogoutAlone'
    BY <1>1, <1>4, <2>1, <2>2
    DEF EffectAlone, IInv, CalmInv, NoStart, LoginAlone, LogoutAlone, At, Login
  <2>5. QuietKept'
    BY <1>1, <2>1 DEF IInv, CalmInv, QuietKept, Quiet
  <2>6. LoopsOnce'
    BY <1>1, <1>4, <2>1, <2>3 DEF IInv, CalmInv, LoopsOnce
  <2>7. FlagInv'
    BY <1>1, <2>1, <2>3 DEF IInv, CalmInv, FlagInv
  <2> QED BY <2>4, <2>5, <2>6, <2>7
<1> QED BY <1>6, <1>7, <1>9, <1>10, <1>11, Together

LEMMA EndStep ==
  ASSUME IInv, EndProcess
  PROVE  IInv'
<1>1. /\ ui' = [up |-> FALSE, logged |-> FALSE, session |-> FALSE, effect |-> FALSE]
      /\ client' = None /\ syncing' = FALSE /\ ended' = {}
      /\ loops' = [p \in Passphrases |-> 0]
      /\ UNCHANGED <<store, file, logins, crossed, crossings>>
  BY DEF EndProcess, disk, history
<1>2. /\ CmdOK' /\ \A s \in Slots : cmd'[s] = Idle
  <2>1. "idle" \in Kinds /\ "-" \in Stages("idle")
    BY DEF Kinds, Stages
  <2>2. "-" \in UNION {Stages(x) : x \in Kinds}
    BY <2>1
  <2>3. cmd' = [s \in Slots |-> Idle]
    BY DEF EndProcess
  <2> QED BY <2>1, <2>2, <2>3 DEF CmdOK, Idle
<1>3. \A s \in Slots : /\ ~ InSession(s)' /\ ~ Login(s)' /\ ~ Unlock(s)' /\ ~ Logout(s)'
                       /\ cmd'[s].pass = None /\ cmd'[s].from = "none" /\ cmd'[s].do = "idle"
  BY <1>2 DEF Idle, InSession, SessionCommands, Login, Unlock, Logout
<1>4. TypeOK'
  <2>1. \A p \in Passphrases :
          p \in {store', file', client'} \cup {cmd'[s].pass : s \in Slots} => p =< logins'
    BY <1>1, <1>3, Constants DEF IInv, TypeOK
  <2> QED BY <1>1, <1>2, <2>1 DEF IInv, TypeOK, CmdOK
<1>5. Met' /\ Unheard' /\ PageDown' /\ Fields'
  BY <1>1, <1>3 DEF Met, Unheard, PageDown, Fields
<1>6. Ordered' => Screens' /\ StoreInv'
  BY <1>1, <1>3 DEF IInv, Ordered, Screens, OneLogin, LoginShown, UnlockShown, StoreInv,
     FormShown, LoginStore
<1>7. CleanInv'
  BY <1>3 DEF CleanInv, At
<1>8. /\ EffectAlone' /\ NoStart' /\ LoginAlone' /\ LogoutAlone'
      /\ QuietKept' /\ FlagInv'
  BY <1>1, <1>3 DEF EffectAlone, NoStart, LoginAlone, LogoutAlone, At, QuietKept, FlagInv
<1>9. LoopsOnce'
  BY <1>1, Constants DEF LoopsOnce
<1> QED BY <1>4, <1>5, <1>6, <1>7, <1>8, <1>9, Together

-----------------------------------------------------------------------------
(* The session commands begin.                                             *)

\* What a new command changes, and what of the calm invariant is not about it.
Entered(s, do, at, from) ==
  /\ cmd[s] = Idle /\ CmdOK'
  /\ cmd'[s] = [do |-> do, at |-> at, pass |-> None, from |-> from]
  /\ \A t \in Slots : t # s => cmd'[t] = cmd[t]
  /\ ui.up /\ ~ ui.effect
  /\ UNCHANGED <<store, file, client, syncing, loops, ended, ui, logins>>
  /\ crossed \subseteq crossed'
  /\ \A t \in Slots : InSession(t) => cmd[t].do \in crossed' \/ (Login(t) /\ do = "login")

LEMMA BeginStep ==
  ASSUME IInv, NEW do \in SessionCommands, NEW at \in Stages(do),
         NEW from \in {"form", "chat", "unlock"},
         do = "logout" <=> from \in {"chat", "unlock"},
         Begins(do, at, from)
  PROVE  /\ TypeOK' /\ Met' /\ Unheard' /\ PageDown' /\ Fields'
         /\ \E s \in Slots : Entered(s, do, at, from)
<1>1. CmdOK /\ do \in Kinds
  BY DEF IInv, TypeOK, CmdOK, Kinds
<1>2. PICK s \in Slots :
        cmd[s] = Idle /\ Becomes(s, [do |-> do, at |-> at, pass |-> None, from |-> from])
  BY <1>1, Started DEF Begins
<1>3. /\ crossed' \subseteq SessionCommands /\ crossings' \in 0..MaxCrossings
      /\ crossed \subseteq crossed' /\ (UnderWay \ IF do = "login" THEN {do} ELSE {}) \subseteq crossed'
  BY CrossedBy DEF UnderWay, Begins, IInv
<1>4. Entered(s, do, at, from)
  BY <1>2, <1>3 DEF Entered, Becomes, Begins, disk, sync, InSession, UnderWay, Login
<1>5. TypeOK'
  <2>1. \A p \in Passphrases :
          p \in {store', file', client'} \cup {cmd'[t].pass : t \in Slots} => p =< logins'
    BY <1>4, Constants DEF Entered, IInv, TypeOK
  <2> QED BY <1>3, <1>4, <2>1 DEF Entered, IInv, TypeOK, CmdOK
<1>6. \A t \in Slots : InSession(t)' /\ t # s =>
        InSession(t) /\ (cmd'[t].do \in crossed' \/ (Login(t)' /\ do = "login"))
  BY <1>4 DEF Entered, InSession, Login
<1>7. Met'
  <2>1. cmd'[s].do = do
    BY <1>4 DEF Entered
  <2>2. ASSUME NEW t \in Slots, NEW u \in Slots, t # u, InSession(t)', InSession(u)'
        PROVE  cmd'[t].do \in crossed' \/ cmd'[u].do \in crossed' \/ (Login(t)' /\ Login(u)')
    <3>1. CASE t = s \/ u = s
      BY <1>6, <2>1, <2>2, <3>1 DEF Login
    <3>2. CASE t # s /\ u # s
      BY <1>4, <2>2, <3>2 DEF Entered, IInv, Met, InSession, Login
    <3> QED BY <3>1, <3>2
  <2> QED BY <2>2 DEF Met
<1>8. Unheard' /\ PageDown' /\ Fields'
  BY <1>4 DEF Entered, IInv, Unheard, PageDown, Fields, InSession, SessionCommands, Login, Unlock, Logout
<1> QED BY <1>4, <1>5, <1>7, <1>8

\* Where nothing crosses, and no login is under way, a command begins alone.
LEMMA BeginsAlone ==
  ASSUME IInv, Calm', NEW s \in Slots, NEW do \in SessionCommands, NEW at, NEW from,
         Entered(s, do, at, from), do = "login" => \A t \in Slots : ~ Login(t),
         at # "server" /\ at # "clear" /\ at # "remove"
  PROVE  /\ Calm /\ Quiet
         /\ \A t \in Slots : t # s => ~ Login(t)' /\ ~ Unlock(t)' /\ ~ Logout(t)'
         /\ EffectAlone' /\ NoStart' /\ QuietKept' /\ LoopsOnce' /\ FlagInv'
<1>1. Calm /\ Quiet
  BY DEF Entered, Calm, Quiet
<1>2. \A t \in Slots : /\ t # s => ~ Login(t)' /\ ~ Unlock(t)' /\ ~ Logout(t)'
                       /\ ~ Logout(t)
  BY <1>1 DEF Entered, Quiet, InSession, SessionCommands, Login, Unlock, Logout
<1>3. /\ cmd'[s].do = do /\ cmd'[s].at = at /\ cmd'[s].pass = None
      /\ \A t \in Slots : t # s => cmd'[t] = cmd[t]
      /\ ~ ui.effect
      /\ UNCHANGED <<store, file, client, syncing, loops, ended, ui, logins>>
  BY DEF Entered
<1>4. EffectAlone' /\ NoStart'
  BY <1>1, <1>3 DEF EffectAlone, IInv, CalmInv, NoStart, SessionCommands
<1>5. InSession(s)'
  BY <1>3 DEF InSession
<1>6. QuietKept'
  BY <1>5 DEF QuietKept, Quiet
<1>7. LoopsOnce'
  BY <1>1, <1>2, <1>3, Constants DEF IInv, CalmInv, LoopsOnce, LogoutOn
<1>8. FlagInv'
  BY <1>1, <1>2, <1>3, <1>5 DEF IInv, CalmInv, FlagInv, LogoutOn, Quiet
<1> QED BY <1>1, <1>2, <1>4, <1>6, <1>7, <1>8

\* The form is shown without a session: no login is under way, and no file.
LEMMA SubmitLoginStep ==
  ASSUME IInv, SubmitLogin
  PROVE  IInv'
<1>1. /\ TypeOK' /\ Met' /\ Unheard' /\ PageDown' /\ Fields'
      /\ \E s \in Slots : Entered(s, "login", "wipe", "form")
  BY BeginStep DEF SubmitLogin, SessionCommands, Stages
<1>2. PICK s \in Slots : Entered(s, "login", "wipe", "form")
  BY <1>1
<1>3. /\ cmd'[s] = [do |-> "login", at |-> "wipe", pass |-> None, from |-> "form"]
      /\ \A t \in Slots : t # s => cmd'[t] = cmd[t]
      /\ ui.up /\ ~ ui.effect /\ crossed \subseteq crossed'
      /\ UNCHANGED <<store, file, client, syncing, loops, ended, ui, logins>>
      /\ ~ ui.logged /\ ~ ui.session /\ \A t \in Slots : cmd[t].from # "form"
  BY <1>2 DEF Entered, SubmitLogin, Busy
<1>4. ASSUME Ordered
      PROVE  (\A t \in Slots : ~ Login(t)) /\ file \notin Passphrases
  <2>1. \A t \in Slots : ~ Login(t)
    BY <1>3, <1>4 DEF IInv, Screens, LoginShown
  <2> QED BY <1>3, <1>4, <2>1 DEF IInv, StoreInv, FormShown, At, Login
<1>5. ASSUME Ordered'
      PROVE  Screens' /\ StoreInv'
  <2>1. Ordered
    BY <1>3, <1>5 DEF Ordered
  <2>2. \A t \in Slots : t # s => ~ Login(t)'
    BY <1>3, <1>4, <2>1 DEF Login
  <2>3. OneLogin' /\ LoginShown'
    BY <1>3, <2>2 DEF OneLogin, LoginShown
  <2>4. UnlockShown'
    BY <1>3, <2>1 DEF IInv, Screens, UnlockShown, Unlock
  <2>5. LoginStore'
    BY <1>3, <1>4, <2>1, <2>2 DEF LoginStore
  <2> QED BY <1>3, <1>4, <2>1, <2>3, <2>4, <2>5 DEF Screens, StoreInv, FormShown
<1>6. crossed' \subseteq {"logout"} => CleanInv'
  BY <1>3 DEF IInv, CleanInv, At
<1>7. ASSUME Calm'
      PROVE  /\ EffectAlone' /\ NoStart' /\ LoginAlone' /\ LogoutAlone'
             /\ QuietKept' /\ LoopsOnce' /\ FlagInv'
  <2>1. \A t \in Slots : ~ Login(t)
    BY <1>3, <1>4, <1>7 DEF Ordered, Calm
  <2>2. /\ Calm /\ Quiet
        /\ \A t \in Slots : t # s => ~ Login(t)' /\ ~ Unlock(t)' /\ ~ Logout(t)'
        /\ EffectAlone' /\ NoStart' /\ QuietKept' /\ LoopsOnce' /\ FlagInv'
    BY <1>2, <1>7, <2>1, BeginsAlone DEF SessionCommands
  <2>3. client = None
    BY <1>3, <2>2 DEF IInv, CalmInv, QuietKept
  <2> QED BY <1>3, <2>2, <2>3 DEF LoginAlone, LogoutAlone, At, Login, Unlock, Logout
<1> QED BY <1>1, <1>5, <1>6, <1>7, Together

LEMMA SubmitUnlockStep ==
  ASSUME IInv, SubmitUnlock
  PROVE  IInv'
<1>1. /\ TypeOK' /\ Met' /\ Unheard' /\ PageDown' /\ Fields'
      /\ \E s \in Slots : Entered(s, "unlock", "read", "form")
  BY BeginStep DEF SubmitUnlock, SessionCommands, Stages
<1>2. PICK s \in Slots : Entered(s, "unlock", "read", "form")
  BY <1>1
<1>3. /\ cmd'[s] = [do |-> "unlock", at |-> "read", pass |-> None, from |-> "form"]
      /\ \A t \in Slots : t # s => cmd'[t] = cmd[t]
      /\ ui.up /\ ~ ui.effect /\ crossed \subseteq crossed'
      /\ UNCHANGED <<store, file, client, syncing, loops, ended, ui, logins>>
      /\ ~ ui.logged /\ ui.session /\ \A t \in Slots : cmd[t].from # "form"
  BY <1>2 DEF Entered, SubmitUnlock, Busy
<1>4. ASSUME Ordered'
      PROVE  Screens' /\ StoreInv'
  <2>1. Ordered
    BY <1>3, <1>4 DEF Ordered
  <2>2. \A t \in Slots : ~ Login(t)
    BY <1>3, <2>1 DEF IInv, Screens, LoginShown
  <2>3. \A t \in Slots : ~ Login(t)'
    BY <1>3, <2>2 DEF Login
  <2>4. \A t \in Slots : t # s /\ Unlock(t)' => cmd'[t].from = "none"
    <3>1. \A t \in Slots : Unlock(t) => cmd[t].from = "none"
      BY <1>3, <2>1 DEF IInv, Screens, UnlockShown, Fields
    <3> QED BY <1>3, <3>1 DEF Unlock
  <2>5. UnlockShown'
    BY <1>3, <2>4 DEF UnlockShown
  <2>6. Screens'
    BY <2>3, <2>5 DEF Screens, OneLogin, LoginShown
  <2> QED BY <1>3, <2>1, <2>3, <2>6 DEF IInv, StoreInv, FormShown, LoginStore
<1>5. crossed' \subseteq {"logout"} => CleanInv'
  BY <1>3 DEF IInv, CleanInv, At
<1>6. ASSUME Calm'
      PROVE  /\ EffectAlone' /\ NoStart' /\ LoginAlone' /\ LogoutAlone'
             /\ QuietKept' /\ LoopsOnce' /\ FlagInv'
  <2>1. /\ Calm /\ Quiet
        /\ \A t \in Slots : t # s => ~ Login(t)' /\ ~ Unlock(t)' /\ ~ Logout(t)'
        /\ EffectAlone' /\ NoStart' /\ QuietKept' /\ LoopsOnce' /\ FlagInv'
    BY <1>2, <1>6, BeginsAlone DEF SessionCommands
  <2>2. client = None
    BY <1>3, <2>1 DEF IInv, CalmInv, QuietKept
  <2> QED BY <1>3, <2>1, <2>2 DEF LoginAlone, LogoutAlone, At, Login, Unlock, Logout
<1> QED BY <1>1, <1>4, <1>5, <1>6, Together

LEMMA SubmitLogoutStep ==
  ASSUME IInv, SignOut \/ Forget
  PROVE  IInv'
<1>1. PICK from \in {"chat", "unlock"} :
        /\ Begins("logout", "take", from)
        /\ from = "unlock" => ~ ui.logged
        /\ ui.logged \/ ui.session
  BY DEF SignOut, Forget
<1>2. /\ TypeOK' /\ Met' /\ Unheard' /\ PageDown' /\ Fields'
      /\ \E s \in Slots : Entered(s, "logout", "take", from)
  <2>1. from \in {"form", "chat", "unlock"} /\ "logout" \in SessionCommands
        /\ "take" \in Stages("logout")
    BY DEF SessionCommands, Stages
  <2> QED BY <1>1, <2>1, BeginStep
<1>3. PICK s \in Slots : Entered(s, "logout", "take", from)
  BY <1>2
<1>4. /\ cmd'[s] = [do |-> "logout", at |-> "take", pass |-> None, from |-> from]
      /\ \A t \in Slots : t # s => cmd'[t] = cmd[t]
      /\ cmd[s] = Idle
      /\ ui.up /\ ~ ui.effect /\ crossed \subseteq crossed'
      /\ UNCHANGED <<store, file, client, syncing, loops, ended, ui, logins>>
  BY <1>3 DEF Entered
<1>5. \A t \in Slots : /\ Login(t)' <=> Login(t)
                       /\ Unlock(t)' <=> Unlock(t)
                       /\ Login(t) \/ Unlock(t) => cmd'[t] = cmd[t]
  BY <1>4 DEF Login, Unlock, Idle
<1>6. ASSUME Ordered'
      PROVE  Screens' /\ StoreInv'
  <2>1. Ordered
    BY <1>4, <1>6 DEF Ordered
  <2>2. OneLogin' /\ LoginShown'
    BY <1>4, <1>5, <2>1 DEF IInv, Screens, OneLogin, LoginShown
  <2>3. UnlockShown'
    BY <1>4, <1>5, <2>1 DEF IInv, Screens, UnlockShown
  <2>4. LoginStore'
    BY <1>4, <1>5, <2>1 DEF IInv, StoreInv, LoginStore
  <2>5. FormShown'
    BY <1>1, <1>4 DEF FormShown
  <2> QED BY <1>4, <2>1, <2>2, <2>3, <2>4, <2>5 DEF IInv, StoreInv, Screens
<1>7. crossed' \subseteq {"logout"} => CleanInv'
  BY <1>4 DEF IInv, CleanInv, At
<1>8. ASSUME Calm'
      PROVE  /\ EffectAlone' /\ NoStart' /\ LoginAlone' /\ LogoutAlone'
             /\ QuietKept' /\ LoopsOnce' /\ FlagInv'
  <2>1. /\ Calm /\ Quiet
        /\ \A t \in Slots : t # s => ~ Login(t)' /\ ~ Unlock(t)' /\ ~ Logout(t)'
        /\ EffectAlone' /\ NoStart' /\ QuietKept' /\ LoopsOnce' /\ FlagInv'
    BY <1>3, <1>8, BeginsAlone DEF SessionCommands
  <2>2. from = "unlock" => client = None
    BY <1>1, <1>4, <2>1 DEF IInv, CalmInv, QuietKept
  <2> QED BY <1>1, <1>4, <2>1, <2>2 DEF LoginAlone, LogoutAlone, At, Login, Unlock, Logout
<1> QED BY <1>2, <1>6, <1>7, <1>8, Together

-----------------------------------------------------------------------------
(* The answers that change the screen.                                     *)

\* One command ends, and forms that are gone answer to the app.
Answers(s, moved) ==
  /\ CmdOK' /\ cmd'[s] = Idle
  /\ \A t \in Slots : t # s =>
       /\ cmd'[t].do = cmd[t].do /\ cmd'[t].at = cmd[t].at /\ cmd'[t].pass = cmd[t].pass
       /\ cmd'[t].from = IF moved /\ cmd[t].from = "form" THEN "app" ELSE cmd[t].from

\* What the unmounting of a form leaves of every command.
LEMMA Renamed ==
  ASSUME NEW c \in [Slots -> [do : Kinds, at : UNION {Stages(do) : do \in Kinds},
                              pass : Passphrases \cup {None},
                              from : {"form", "chat", "unlock", "app", "none"}]],
         \A t \in Slots : c[t].at \in Stages(c[t].do),
         cmd' = Unmounted(c)
  PROVE  /\ CmdOK'
         /\ \A t \in Slots : c[t].from # "form" => cmd'[t] = c[t]
         /\ \A t \in Slots :
              /\ cmd'[t].do = c[t].do /\ cmd'[t].at = c[t].at /\ cmd'[t].pass = c[t].pass
              /\ cmd'[t].from = IF c[t].from = "form" THEN "app" ELSE c[t].from
<1>1. ASSUME NEW t \in Slots
      PROVE  /\ cmd'[t] \in [do : Kinds, at : UNION {Stages(do) : do \in Kinds},
                             pass : Passphrases \cup {None},
                             from : {"form", "chat", "unlock", "app", "none"}]
             /\ c[t].from # "form" => cmd'[t] = c[t]
             /\ cmd'[t].do = c[t].do /\ cmd'[t].at = c[t].at /\ cmd'[t].pass = c[t].pass
             /\ cmd'[t].from = IF c[t].from = "form" THEN "app" ELSE c[t].from
  <2>1. c[t] \in [do : Kinds, at : UNION {Stages(do) : do \in Kinds},
                  pass : Passphrases \cup {None},
                  from : {"form", "chat", "unlock", "app", "none"}]
    OBVIOUS
  <2>2. cmd'[t] = IF c[t].from = "form" THEN [c[t] EXCEPT !.from = "app"] ELSE c[t]
    BY DEF Unmounted
  <2>3. CASE c[t].from = "form"
    BY <2>1, <2>2, <2>3
  <2>4. CASE c[t].from # "form"
    BY <2>1, <2>2, <2>4
  <2> QED BY <2>3, <2>4
<1>2. cmd' \in [Slots -> [do : Kinds, at : UNION {Stages(do) : do \in Kinds},
                          pass : Passphrases \cup {None},
                          from : {"form", "chat", "unlock", "app", "none"}]]
  <2>1. cmd' = [t \in Slots |-> cmd'[t]]
    BY DEF Unmounted
  <2> QED BY <1>1, <2>1
<1>3. \A t \in Slots : cmd'[t].at \in Stages(cmd'[t].do)
  BY <1>1
<1> QED BY <1>1, <1>2, <1>3 DEF CmdOK

LEMMA AnswersStep ==
  ASSUME CmdOK, NEW s \in Slots,
         NEW moved \in BOOLEAN,
         cmd' = IF moved THEN Unmounted([cmd EXCEPT ![s] = Idle]) ELSE [cmd EXCEPT ![s] = Idle]
  PROVE  Answers(s, moved)
<1>1. CASE ~ moved
  <2>1. Becomes(s, Idle)
    BY <1>1, Ended DEF Ends
  <2> QED BY <1>1, <2>1 DEF Becomes, Answers
<1>2. CASE moved
  <2>1. PICK c : c = [cmd EXCEPT ![s] = Idle]
    OBVIOUS
  <2>2. c[s] = Idle /\ \A t \in Slots : t # s => c[t] = cmd[t]
    BY <2>1 DEF CmdOK
  <2>3. "idle" \in Kinds /\ "-" \in Stages("idle")
    BY DEF Kinds, Stages
  <2>4. "-" \in UNION {Stages(x) : x \in Kinds}
    BY <2>3
  <2>5. c \in [Slots -> [do : Kinds, at : UNION {Stages(do) : do \in Kinds},
                         pass : Passphrases \cup {None},
                         from : {"form", "chat", "unlock", "app", "none"}]]
    BY <2>1, <2>3, <2>4 DEF CmdOK, Idle
  <2>6. \A t \in Slots : c[t].at \in Stages(c[t].do)
    BY <2>2, <2>3 DEF CmdOK, Idle
  <2>7. cmd' = Unmounted(c)
    BY <1>2, <2>1
  <2>8. /\ CmdOK'
        /\ \A t \in Slots : c[t].from # "form" => cmd'[t] = c[t]
        /\ \A t \in Slots :
             /\ cmd'[t].do = c[t].do /\ cmd'[t].at = c[t].at /\ cmd'[t].pass = c[t].pass
             /\ cmd'[t].from = IF c[t].from = "form" THEN "app" ELSE c[t].from
    BY <2>5, <2>6, <2>7, Renamed
  <2>9. cmd'[s] = Idle
    <3>1. c[s].from # "form"
      <4>1. Idle.from = "none"
        BY DEF Idle
      <4> QED BY <2>2, <4>1
    <3> QED BY <2>2, <2>8, <3>1
  <2> QED BY <1>2, <2>2, <2>8, <2>9 DEF Answers
<1> QED BY <1>1, <1>2

\* No answer starts a command, and nobody is heard who was not.
LEMMA Answering ==
  ASSUME IInv, NEW s \in Slots, NEW moved \in BOOLEAN, Answers(s, moved),
         ui'.up = ui.up, moved => ui.up, ~ ui.up => ui' = ui,
         UNCHANGED <<store, crossed, crossings, logins>>,
         file' \in {file, None}, client' \in {client, None, cmd[s].pass},
         syncing' = syncing, loops' = loops, ended' = ended,
         ui' \in [up : BOOLEAN, logged : BOOLEAN, session : BOOLEAN, effect : BOOLEAN]
  PROVE  TypeOK' /\ Met' /\ Unheard' /\ PageDown' /\ Fields'
<1>1. /\ cmd'[s] = Idle
      /\ \A t \in Slots : t # s =>
           /\ cmd'[t].do = cmd[t].do /\ cmd'[t].at = cmd[t].at /\ cmd'[t].pass = cmd[t].pass
           /\ cmd'[t].from = IF moved /\ cmd[t].from = "form" THEN "app" ELSE cmd[t].from
  BY DEF Answers
<1>2. TypeOK'
  <2>1. cmd[s].pass \in Passphrases \cup {None}
    BY DEF IInv, TypeOK
  <2>2. ASSUME NEW p \in Passphrases,
               p \in {store', file', client'} \cup {cmd'[t].pass : t \in Slots}
        PROVE  p =< logins'
    <3>1. p \in {store, file, client} \cup {cmd[t].pass : t \in Slots}
      BY <1>1, <2>2, Constants DEF Idle
    <3> QED BY <3>1 DEF IInv, TypeOK
  <2>3. \A p \in Passphrases :
          p \in {store', file', client'} \cup {cmd'[t].pass : t \in Slots} => p =< logins'
    BY <2>2
  <2> QED BY <2>1, <2>3 DEF IInv, TypeOK, Answers, CmdOK
<1>3. \A t \in Slots : InSession(t)' => t # s /\ InSession(t)
  BY <1>1 DEF InSession, SessionCommands, Idle
<1>4. Met'
  BY <1>1, <1>3 DEF IInv, Met, Login
<1>5. Unheard'
  BY <1>1, <1>3 DEF IInv, Unheard
<1>6. PageDown'
  BY <1>1 DEF IInv, PageDown, Idle
<1>7. Fields'
  BY <1>1 DEF IInv, Fields, Idle, Login, Unlock, Logout
<1> QED BY <1>2, <1>4, <1>5, <1>6, <1>7

LEMMA InstallStep ==
  ASSUME IInv, NEW s \in Slots, Installs(s)
  PROVE  IInv'
<1>1. /\ cmd[s].at = "install" /\ client' = cmd[s].pass
      /\ UNCHANGED <<store, file, syncing, loops, ended, crossed, crossings, logins>>
      /\ CmdOK
      /\ ui \in [up : BOOLEAN, logged : BOOLEAN, session : BOOLEAN, effect : BOOLEAN]
  BY DEF Installs, IInv, TypeOK, CmdOK, disk, sync, history
<1>2. cmd[s].do \in {"login", "unlock"} /\ (Login(s) \/ Unlock(s)) /\ InSession(s) /\ s \in Slots
  BY <1>1, CmdFields, StageNames DEF Login, Unlock, InSession, SessionCommands
<1> DEFINE heard == cmd[s].from # "none"
<1>3. heard \in BOOLEAN
  OBVIOUS
<1>4. Answers(s, heard)
  BY <1>1, <1>3, AnswersStep DEF Installs, Ends
<1>5. ui' = IF heard THEN [ui EXCEPT !.logged = TRUE, !.effect = ui.effect \/ ~ ui.logged]
                     ELSE ui
  BY DEF Installs
<1>6. heard => ui.up
  BY DEF IInv, PageDown
<1>7. /\ ui' \in [up : BOOLEAN, logged : BOOLEAN, session : BOOLEAN, effect : BOOLEAN]
      /\ ui'.up = ui.up /\ ui'.session = ui.session /\ (~ ui.up => ui' = ui)
      /\ heard => ui'.logged /\ (ui'.effect <=> ui.effect \/ ~ ui.logged)
  BY <1>1, <1>5, <1>6
<1>8. /\ TypeOK' /\ Met' /\ Unheard' /\ PageDown' /\ Fields'
  BY <1>1, <1>3, <1>4, <1>6, <1>7, Answering
<1>9. /\ cmd'[s] = Idle
      /\ \A t \in Slots : t # s =>
           /\ cmd'[t].do = cmd[t].do /\ cmd'[t].at = cmd[t].at /\ cmd'[t].pass = cmd[t].pass
           /\ cmd'[t].from = IF heard /\ cmd[t].from = "form" THEN "app" ELSE cmd[t].from
  BY <1>4 DEF Answers
<1>10. \A t \in Slots : /\ Login(t)' => Login(t) /\ t # s
                        /\ Unlock(t)' => Unlock(t) /\ t # s
                        /\ InSession(t)' => InSession(t) /\ t # s
                        /\ Logout(t)' <=> Logout(t)
                        /\ cmd'[t].pass \in {cmd[t].pass, None}
  BY <1>2, <1>9 DEF Login, Unlock, Logout, InSession, SessionCommands, Idle
<1>11. ASSUME Ordered
       PROVE  Screens' /\ StoreInv'
  <2>1. OneLogin'
    BY <1>10, <1>11 DEF IInv, Screens, OneLogin
  <2>2. LoginShown'
    <3> SUFFICES ASSUME NEW t \in Slots, Login(t)'
                 PROVE  /\ ~ ui'.session
                        /\ \/ cmd'[t].from = "form"
                           \/ cmd'[t].from = "app" /\ ui'.logged /\ "unlock" \in crossed
                              /\ \A u \in Slots : Unlock(u)' => cmd'[u].from = "none"
      BY <1>1 DEF LoginShown
    <3>1. Login(t) /\ t # s /\ Unlock(s)
      BY <1>2, <1>10, <1>11 DEF IInv, Screens, OneLogin
    <3>2. "unlock" \in crossed
      BY <1>2, <1>11, <3>1 DEF IInv, Met, Ordered, InSession, SessionCommands, Login, Unlock
    <3>3. ~ ui'.session /\ cmd[t].from \in {"form", "app"}
      BY <1>7, <1>11, <3>1 DEF IInv, Screens, LoginShown
    <3>4. CASE heard
      <4>1. cmd'[t].from = "app"
        BY <1>9, <3>1, <3>3, <3>4
      <4>2. \A u \in Slots : Unlock(u) /\ u # s => cmd[u].from = "none"
        BY <1>11, <3>1, <3>4 DEF IInv, Screens, UnlockShown
      <4>3. \A u \in Slots : Unlock(u)' => cmd'[u].from = "none"
        BY <1>9, <1>10, <4>2
      <4> QED BY <1>7, <3>2, <3>3, <3>4, <4>1, <4>3
    <3>5. CASE ~ heard
      <4>1. cmd'[t].from = cmd[t].from /\ ui' = ui
        BY <1>5, <1>9, <3>1, <3>5
      <4>2. \A u \in Slots : Unlock(u)' => Unlock(u) /\ cmd'[u].from = cmd[u].from
        BY <1>9, <1>10, <3>5
      <4> QED BY <1>11, <3>1, <4>1, <4>2 DEF IInv, Screens, LoginShown
    <3> QED BY <3>4, <3>5
  <2>3. UnlockShown'
    <3>1. CASE heard
      <4>1. \A u \in Slots : Unlock(u)' /\ cmd'[u].from # "none" =>
              Unlock(u) /\ cmd[u].from # "none" /\ u # s
        BY <1>9, <1>10
      <4>2. \A u \in Slots : Unlock(u) /\ cmd[u].from # "none" /\ u # s =>
              Login(s) /\ ~ ui.session /\ cmd[u].from # "form"
        BY <1>2, <1>11, <3>1 DEF IInv, Screens, UnlockShown, LoginShown
      <4> QED BY <1>7, <1>9, <1>11, <4>1, <4>2 DEF IInv, Screens, UnlockShown
    <3>2. CASE ~ heard
      <4>1. ui' = ui /\ \A u \in Slots : Unlock(u)' => Unlock(u) /\ cmd'[u].from = cmd[u].from
        BY <1>5, <1>9, <1>10, <3>2
      <4> QED BY <1>11, <4>1 DEF IInv, Screens, UnlockShown
    <3> QED BY <3>1, <3>2
  <2>4. FormShown'
    <3>1. CASE heard
      BY <1>7, <3>1 DEF FormShown
    <3>2. CASE ~ heard
      <4>1. ~ Login(s)
        BY <1>11, <3>2 DEF IInv, Screens, LoginShown
      <4>2. \A t \in Slots : At(t, "login", "install") => At(t, "login", "install")'
        BY <1>9, <4>1 DEF At, Login
      <4> QED BY <1>1, <1>5, <1>11, <3>2, <4>2 DEF IInv, StoreInv, FormShown
    <3> QED BY <3>1, <3>2
  <2>5. LoginStore'
    BY <1>1, <1>9, <1>10, <1>11 DEF IInv, StoreInv, LoginStore
  <2> QED BY <1>1, <1>11, <2>1, <2>2, <2>3, <2>4, <2>5 DEF IInv, Screens, StoreInv
<1>12. crossed \subseteq {"logout"} => CleanInv'
  BY <1>1, <1>9 DEF IInv, CleanInv, At, Idle
<1>13. ASSUME Calm
       PROVE  /\ EffectAlone' /\ NoStart' /\ LoginAlone' /\ LogoutAlone'
              /\ QuietKept' /\ LoopsOnce' /\ FlagInv'
  <2>1. heard /\ Ordered /\ \A t \in Slots : t # s => ~ InSession(t)
    BY <1>2, <1>13, Alone
  <2>2. /\ client = None /\ ~ ui.logged /\ ~ syncing
        /\ \A p \in Passphrases :
              /\ loops[p] =< 1
              /\ loops[p] > 0 => p =< logins /\ p # file /\ \A t \in Slots : cmd[t].pass # p
    BY <1>2, <1>13, AtLogin
  <2>3. \A t \in Slots : ~ InSession(t)' /\ ~ Login(t)' /\ ~ Unlock(t)' /\ ~ Logout(t)'
    BY <1>10, <2>1 DEF InSession, SessionCommands, Login, Unlock, Logout
  <2>4. ui'.logged /\ ui'.effect
    BY <1>7, <2>1, <2>2
  <2>5. EffectAlone'
    BY <2>3, <2>4 DEF EffectAlone, Quiet
  <2>6. NoStart'
    BY <1>9, <1>13 DEF IInv, CalmInv, NoStart, Idle
  <2>7. LoginAlone' /\ LogoutAlone'
    BY <2>3 DEF LoginAlone, LogoutAlone, At, Login
  <2>8. cmd[s].pass \in Passphrases /\ file = cmd[s].pass /\ store = cmd[s].pass
    <3>1. CASE Login(s)
      BY <1>1, <1>13, <2>1, <3>1
      DEF IInv, StoreInv, LoginStore, CalmInv, LoginAlone, At, Login
    <3>2. CASE Unlock(s)
      BY <1>1, <1>13, <2>1, <3>2 DEF IInv, StoreInv, CalmInv, LoginAlone
    <3> QED BY <1>2, <3>1, <3>2
  <2>9. QuietKept'
    BY <1>1, <2>4, <2>8, Constants DEF QuietKept
  <2>10. LoopsOnce'
    BY <1>1, <1>10, <2>2, Constants DEF LoopsOnce
  <2>11. FlagInv'
    BY <1>1, <2>2, <2>4 DEF FlagInv
  <2> QED BY <2>5, <2>6, <2>7, <2>9, <2>10, <2>11
<1> QED BY <1>1, <1>8, <1>11, <1>12, <1>13, Together DEF Ordered, Calm

\* An unlock that finds no file left shows the login form; a login that is
\* under way there was sent by that form.
LEMMA NothingStep ==
  ASSUME IInv, NEW s \in Slots, NothingToUnlock(s)
  PROVE  IInv'
<1>1. /\ Unlock(s) /\ InSession(s) /\ cmd[s].at = "read" /\ file = None /\ Ends(s)
      /\ ui' = IF cmd[s].from = "none" THEN ui ELSE [ui EXCEPT !.logged = FALSE]
      /\ UNCHANGED <<store, file, client, sync, disk, history>>
      /\ UNCHANGED <<syncing, loops, ended, crossed, crossings, logins>>
      /\ CmdOK
      /\ ui \in [up : BOOLEAN, logged : BOOLEAN, session : BOOLEAN, effect : BOOLEAN]
  BY DEF NothingToUnlock, At, Unlock, InSession, SessionCommands, IInv, TypeOK, CmdOK,
     disk, sync, history
<1>2. CASE ui' = ui
  BY <1>1, <1>2, FailStep DEF sync
<1>3. CASE ui' # ui
  <2>1. /\ cmd[s].from # "none" /\ ui.up /\ ui.logged
        /\ ui' \in [up : BOOLEAN, logged : BOOLEAN, session : BOOLEAN, effect : BOOLEAN]
        /\ ui'.up = ui.up /\ ui'.session = ui.session /\ ui'.logged = FALSE
        /\ ui'.effect = ui.effect
    BY <1>1, <1>3 DEF IInv, PageDown
  <2>2. Answers(s, FALSE)
    BY <1>1, AnswersStep DEF Ends
  <2>3. TypeOK' /\ Met' /\ Unheard' /\ PageDown' /\ Fields'
    BY <1>1, <2>1, <2>2, Answering DEF sync
  <2>4. Becomes(s, Idle)
    BY <1>1, Ended
  <2>5. /\ cmd'[s] = Idle /\ \A t \in Slots : t # s => cmd'[t] = cmd[t]
        /\ \A t \in Slots : /\ Login(t)' => Login(t) /\ t # s
                            /\ Unlock(t)' => Unlock(t) /\ t # s
    BY <2>4 DEF Becomes, Login, Unlock, Idle
  <2>6. ASSUME Ordered
        PROVE  Screens' /\ StoreInv'
    <3>1. OneLogin'
      BY <2>5, <2>6 DEF IInv, Screens, OneLogin
    <3>2. LoginShown'
      <4>1. \A t \in Slots : Login(t) => ~ ui.session /\ cmd[t].from = "form"
        BY <1>1, <2>1, <2>6 DEF IInv, Screens, LoginShown
      <4> QED BY <2>1, <2>5, <4>1 DEF LoginShown
    <3>3. UnlockShown'
      <4>1. \A t \in Slots : Unlock(t) /\ t # s => cmd[t].from = "none"
        BY <1>1, <2>1, <2>6 DEF IInv, Screens, UnlockShown
      <4>2. \A t \in Slots : Unlock(t)' => cmd'[t].from = "none"
        BY <2>5, <4>1
      <4> QED BY <4>2 DEF UnlockShown
    <3>4. file' \notin Passphrases
      BY <1>1, Constants
    <3>5. LoginStore'
      BY <1>1, <2>5, <2>6, <3>4 DEF IInv, StoreInv, LoginStore
    <3> QED BY <3>1, <3>2, <3>3, <3>4, <3>5 DEF Screens, StoreInv, FormShown
  <2>7. crossed \subseteq {"logout"} => CleanInv'
    BY <1>1, <2>5 DEF IInv, CleanInv, At, Idle
  <2>8. ~ Calm
    BY <1>1, <2>1, AtLogin
  <2> QED BY <1>1, <2>3, <2>6, <2>7, <2>8, Together DEF Ordered, Calm
<1> QED BY <1>2, <1>3

\* The end of a logout takes the session screen away, and the chat with it if it
\* came from there.
LEMMA RemoveStep ==
  ASSUME IInv, NEW s \in Slots, LogoutRemoves(s)
  PROVE  IInv'
<1>1. /\ Logout(s) /\ InSession(s) /\ cmd[s].at = "remove" /\ file' = None
      /\ UNCHANGED <<store, client, syncing, loops, ended, crossed, crossings, logins>>
      /\ CmdOK
      /\ ui \in [up : BOOLEAN, logged : BOOLEAN, session : BOOLEAN, effect : BOOLEAN]
  BY DEF LogoutRemoves, At, Logout, InSession, SessionCommands, IInv, TypeOK, CmdOK, sync, history
<1>2. /\ ui' \in [up : BOOLEAN, logged : BOOLEAN, session : BOOLEAN, effect : BOOLEAN]
      /\ ui'.up = ui.up /\ (ui'.session => ui.session) /\ (ui'.effect => ui.effect)
      /\ ui'.logged => ui.logged /\ cmd[s].from # "chat"
      /\ ui'.logged # ui.logged => cmd[s].from = "chat"
      /\ cmd[s].from = "none" => ui' = ui
  <2>1. cmd[s].from \in {"chat", "unlock", "none"}
    BY <1>1 DEF IInv, Fields
  <2>2. CASE cmd[s].from = "chat"
    BY <1>1, <2>2 DEF LogoutRemoves
  <2>3. CASE cmd[s].from = "unlock"
    BY <1>1, <2>3 DEF LogoutRemoves
  <2>4. CASE cmd[s].from = "none"
    BY <1>1, <2>4 DEF LogoutRemoves
  <2> QED BY <2>1, <2>2, <2>3, <2>4
<1> DEFINE moved == ui.session /\ ~ ui'.session
<1>3. moved \in BOOLEAN
  OBVIOUS
<1>4. Answers(s, moved)
  BY <1>1, <1>3, AnswersStep DEF LogoutRemoves
<1>5. (moved => ui.up) /\ (~ ui.up => ui' = ui)
  BY <1>2 DEF IInv, PageDown
<1>6. (moved => ui.session /\ ~ ui'.session) /\ (~ moved => ui'.session = ui.session)
  BY <1>1, <1>2
<1> HIDE DEF moved
<1>7. TypeOK' /\ Met' /\ Unheard' /\ PageDown' /\ Fields'
  BY <1>1, <1>2, <1>3, <1>4, <1>5, Answering
<1>8. /\ cmd'[s] = Idle
      /\ \A t \in Slots : t # s =>
           /\ cmd'[t].do = cmd[t].do /\ cmd'[t].at = cmd[t].at /\ cmd'[t].pass = cmd[t].pass
           /\ cmd'[t].from = IF moved /\ cmd[t].from = "form" THEN "app" ELSE cmd[t].from
  BY <1>4 DEF Answers
<1>9. \A t \in Slots : /\ Login(t)' => Login(t) /\ t # s
                       /\ Unlock(t)' => Unlock(t) /\ t # s
                       /\ InSession(t)' => InSession(t) /\ t # s
  BY <1>8 DEF Login, Unlock, InSession, SessionCommands, Idle
<1>10. ASSUME Ordered
       PROVE  Screens' /\ StoreInv'
  <2>1. OneLogin'
    BY <1>9, <1>10 DEF IInv, Screens, OneLogin
  <2>2. LoginShown'
    <3> SUFFICES ASSUME NEW t \in Slots, Login(t)'
                 PROVE  /\ ~ ui'.session
                        /\ \/ cmd'[t].from = "form"
                           \/ cmd'[t].from = "app" /\ ui'.logged /\ "unlock" \in crossed
                              /\ \A u \in Slots : Unlock(u)' => cmd'[u].from = "none"
      BY <1>1 DEF LoginShown
    <3>1. Login(t) /\ t # s
      BY <1>9
    <3>2. "unlock" \notin crossed
      BY <1>1, <1>10, <3>1 DEF IInv, Met, Ordered, InSession, SessionCommands, Login, Logout
    <3>3. ~ ui.session /\ cmd[t].from = "form"
      BY <1>10, <3>1, <3>2 DEF IInv, Screens, LoginShown
    <3> QED BY <1>2, <1>6, <1>8, <3>1, <3>3
  <2>3. UnlockShown'
    <3> SUFFICES ASSUME NEW t \in Slots, Unlock(t)', cmd'[t].from # "none"
                 PROVE  /\ cmd'[t].from = "form" => ui'.session /\ ~ ui'.logged
                        /\ cmd'[t].from = "app" => ~ ui'.session
                        /\ \A u \in Slots : Unlock(u)' /\ cmd'[u].from # "none" => t = u
      BY DEF UnlockShown
    <3>1. Unlock(t) /\ t # s /\ cmd[t].from # "none"
      BY <1>8, <1>9
    <3>2. /\ cmd[t].from = "form" => ui.session /\ ~ ui.logged
          /\ cmd[t].from = "app" => ~ ui.session
          /\ \A u \in Slots : Unlock(u) /\ cmd[u].from # "none" => t = u
      BY <1>10, <3>1 DEF IInv, Screens, UnlockShown
    <3>3. \A u \in Slots : Unlock(u)' /\ cmd'[u].from # "none" => t = u
      BY <1>8, <1>9, <3>2
    <3> QED BY <1>2, <1>6, <1>8, <3>1, <3>2, <3>3
  <2>4. file' \notin Passphrases
    BY <1>1, Constants
  <2>5. LoginStore'
    BY <1>1, <1>8, <1>9, <1>10, <2>4 DEF IInv, StoreInv, LoginStore
  <2> QED BY <2>1, <2>2, <2>3, <2>4, <2>5 DEF Screens, StoreInv, FormShown
<1>11. crossed \subseteq {"logout"} => CleanInv'
  BY <1>1, <1>8 DEF IInv, CleanInv, At, Idle
<1>12. ASSUME Calm
       PROVE  /\ EffectAlone' /\ NoStart' /\ LoginAlone' /\ LogoutAlone'
              /\ QuietKept' /\ LoopsOnce' /\ FlagInv'
  <2>1. ~ ui.effect /\ cmd[s].from # "none" /\ \A t \in Slots : t # s => ~ InSession(t)
    BY <1>1, <1>12, Alone
  <2>2. client = None /\ (cmd[s].from = "unlock" => ~ ui.logged)
    BY <1>1, <1>12 DEF IInv, CalmInv, LogoutAlone
  <2>3. ~ ui'.logged
    BY <1>1, <1>2, <2>1, <2>2 DEF IInv, Fields
  <2>4. \A t \in Slots : ~ InSession(t)' /\ ~ Login(t)' /\ ~ Unlock(t)' /\ ~ Logout(t)'
    BY <1>9, <2>1 DEF InSession, SessionCommands, Login, Unlock, Logout
  <2>5. EffectAlone' /\ NoStart'
    BY <1>2, <1>8, <1>12, <2>1 DEF EffectAlone, IInv, CalmInv, NoStart, Idle
  <2>6. LoginAlone' /\ LogoutAlone'
    BY <2>4 DEF LoginAlone, LogoutAlone, At, Login
  <2>7. QuietKept'
    BY <1>1, <2>2, <2>3 DEF QuietKept
  <2>8. \A t \in Slots : cmd'[t].pass = None
    BY <1>7, <2>4 DEF Fields
  <2>9. LoopsOnce'
    BY <1>1, <1>12, <2>2, <2>8, Constants DEF IInv, CalmInv, LoopsOnce
  <2>10. ~ syncing
    <3>1. \A t \in Slots : Logout(t) => t = s
      BY <2>1 DEF InSession, SessionCommands, Logout
    <3> QED BY <1>1, <1>12, <2>2, <3>1 DEF IInv, TypeOK, CalmInv, FlagInv, LogoutOn
  <2>11. FlagInv'
    BY <1>1, <2>3, <2>10 DEF FlagInv
  <2> QED BY <2>5, <2>6, <2>7, <2>9, <2>11
<1> QED BY <1>1, <1>7, <1>10, <1>11, <1>12, Together DEF Ordered, Calm

-----------------------------------------------------------------------------
(* The invariant holds.                                                    *)

LEMMA InitHolds ==
  ASSUME Init
  PROVE  IInv
<1>1. CmdOK
  <2>1. "idle" \in Kinds /\ "-" \in Stages("idle")
    BY DEF Kinds, Stages
  <2>2. "-" \in UNION {Stages(x) : x \in Kinds}
    BY <2>1
  <2> QED BY <2>1, <2>2 DEF Init, CmdOK, Idle
<1>2. \A s \in Slots : /\ ~ InSession(s) /\ ~ Login(s) /\ ~ Unlock(s) /\ ~ Logout(s)
                       /\ cmd[s].pass = None /\ cmd[s].from = "none" /\ cmd[s].do = "idle"
  BY DEF Init, Idle, InSession, SessionCommands, Login, Unlock, Logout
<1>3. TypeOK
  <2>1. \A p \in Passphrases :
          p \in {store, file, client} \cup {cmd[s].pass : s \in Slots} => p =< logins
    BY <1>2, Constants DEF Init
  <2>2. logins \in 0..MaxLogins /\ crossings \in 0..MaxCrossings
    BY Constants DEF Init
  <2> QED BY <1>1, <2>1, <2>2 DEF Init, TypeOK, CmdOK
<1>4. Met /\ Unheard /\ PageDown /\ Fields
  BY <1>2 DEF Init, Met, Unheard, PageDown, Fields
<1>5. Screens /\ StoreInv
  BY <1>2, Constants DEF Init, Screens, OneLogin, LoginShown, UnlockShown, StoreInv,
     FormShown, LoginStore
<1>6. CleanInv
  BY <1>2 DEF CleanInv, At
<1>7. EffectAlone /\ NoStart /\ LoginAlone /\ LogoutAlone /\ QuietKept /\ FlagInv
  BY <1>2 DEF Init, EffectAlone, NoStart, LoginAlone, LogoutAlone, At, QuietKept, FlagInv
<1>8. LoopsOnce
  BY Constants DEF Init, LoopsOnce
<1> QED BY <1>3, <1>4, <1>5, <1>6, <1>7, <1>8 DEF IInv, CalmInv

LEMMA StutterStep ==
  ASSUME IInv, UNCHANGED vars
  PROVE  IInv'
<1>1. UNCHANGED <<store, file, client, syncing, loops, ended, cmd, ui, logins, crossed, crossings>>
  BY DEF vars, disk, sync, history
<1>2. \A s \in Slots : /\ Login(s)' <=> Login(s)
                       /\ Unlock(s)' <=> Unlock(s)
                       /\ Logout(s)' <=> Logout(s)
                       /\ InSession(s)' <=> InSession(s)
                       /\ \A do, at : At(s, do, at)' <=> At(s, do, at)
  BY <1>1 DEF Login, Unlock, Logout, InSession, At
<1>3. (Quiet' <=> Quiet) /\ \A at : LogoutOn(at)' <=> LogoutOn(at)
  BY <1>1, <1>2 DEF Quiet, LogoutOn
<1>4. TypeOK' /\ Met' /\ Unheard' /\ PageDown' /\ Fields'
  BY <1>1, <1>2 DEF IInv, TypeOK, Met, Unheard, PageDown, Fields
<1>5. Ordered => Screens' /\ StoreInv'
  BY <1>1, <1>2 DEF IInv, Screens, OneLogin, LoginShown, UnlockShown, StoreInv, FormShown, LoginStore
<1>6. crossed \subseteq {"logout"} => CleanInv'
  BY <1>1, <1>2 DEF IInv, CleanInv
<1>7. Calm => /\ EffectAlone' /\ NoStart' /\ LoginAlone' /\ LogoutAlone'
              /\ QuietKept' /\ LoopsOnce' /\ FlagInv'
  BY <1>1, <1>2, <1>3 DEF IInv, CalmInv, EffectAlone, NoStart, LoginAlone, LogoutAlone,
     QuietKept, LoopsOnce, FlagInv
<1> QED BY <1>1, <1>4, <1>5, <1>6, <1>7, Together DEF Ordered, Calm

LEMMA FailedStep ==
  ASSUME IInv, NEW s \in Slots,
         NoMoreLogins(s) \/ Refused(s) \/ WriteFails(s) \/ UnlockRefused(s)
  PROVE  IInv'
<1>1. /\ Login(s) \/ Unlock(s)
      /\ cmd[s].at # "install"
      /\ Ends(s) /\ UNCHANGED <<disk, client, sync, ui, history>>
  BY DEF NoMoreLogins, Refused, WriteFails, UnlockRefused, Fails, At, Login, Unlock
<1> QED BY <1>1, FailStep

LEMMA IInvStep == IInv /\ [Next]_vars => IInv'
<1> SUFFICES ASSUME IInv, [Next]_vars
             PROVE  IInv'
  OBVIOUS
<1>1. CASE Mount \/ Reload \/ EndProcess
  BY <1>1, MountStep, ReloadStep, EndStep
<1>2. CASE SubmitLogin \/ SubmitUnlock \/ SignOut \/ Forget
  BY <1>2, SubmitLoginStep, SubmitUnlockStep, SubmitLogoutStep
<1>3. CASE StartSync \/ ChatCommand
  BY <1>3, EffectStep, AskedStep
<1>4. ASSUME NEW s \in Slots, CommandSteps(s)
      PROVE  IInv'
  <2>1. CASE LoginWipes(s) \/ LoginBuilds(s) \/ FileOpened(s) \/ FileWritten(s)
    BY <2>1, WipeStep, BuildStep, OpenedStep, WrittenStep
  <2>2. CASE NoMoreLogins(s) \/ WriteFails(s) \/ UnlockRefused(s)
    BY <2>2, FailedStep
  <2>3. CASE Installs(s) \/ NothingToUnlock(s) \/ UnlockReads(s) \/ UnlockBuilds(s)
    BY <2>3, InstallStep, NothingStep, ReadStep, OpensStep
  <2>4. CASE LogoutTakes(s) \/ LogoutClears(s) \/ LogoutRemoves(s) \/ SyncStarts(s)
    BY <2>4, LogoutStep, RemoveStep, SyncStep
  <2> QED BY <1>4, <2>1, <2>2, <2>3, <2>4 DEF CommandSteps
<1>5. ASSUME NEW s \in Slots, Answered(s)
      PROVE  IInv'
  BY <1>5, AskStep, FailedStep, LogoutStep, ReplyStep DEF Answered
<1>6. ASSUME NEW p \in Passphrases, SyncEnds(p)
      PROVE  IInv'
  BY <1>6, EndsStep
<1>7. CASE UNCHANGED vars
  BY <1>7, StutterStep
<1> QED BY <1>1, <1>2, <1>3, <1>4, <1>5, <1>6, <1>7 DEF Next

\* The session commands keep the invariant, whatever the order in which their
\* awaits end, the page reloads and the process stops.
THEOREM IInvAlways == Spec => []IInv
<1>1. Init => IInv
  BY InitHolds
<1> QED BY <1>1, IInvStep, PTL DEF Spec

-----------------------------------------------------------------------------
(* The properties of MatrixSession.                                        *)

\* Every reachable state of the backend, the files and the screens has its type;
\* no passphrase is in use that was never drawn.
THEOREM TypeCorrect == Spec => []TypeOK
<1>1. IInv => TypeOK
  BY DEF IInv
<1> QED BY <1>1, IInvAlways, PTL

\* A session file opens the store beside it wherever the process stops, unless a
\* login was crossed, or both an unlock and a logout were: no step of a login's
\* wipe, build and write leaves a file with a store of another passphrase.
THEOREM StoreOpens == Spec => []SessionOpensStore
<1>1. IInv => SessionOpensStore
  BY DEF IInv, Ordered, StoreInv, SessionOpensStore
<1> QED BY <1>1, IInvAlways, PTL

\* matrix_login builds its client on an empty store: where only logouts were
\* crossed, nobody brings back what the wipe of commands.rs 67 removed before the
\* client is built.
THEOREM LoginFindsNoStore == Spec => []LoginStartsClean
<1>1. IInv => LoginStartsClean
  BY DEF IInv, CleanInv, LoginStartsClean
<1> QED BY <1>1, IInvAlways, PTL

\* Where nothing was crossed, a chat that is shown has a client, and its session
\* is one that the next launch of the app can unlock.
THEOREM LoggedInKept == Spec => []LoggedInIsKept
<1>1. IInv => LoggedInIsKept
  <2> SUFFICES ASSUME IInv, ui.logged, Calm, UnderWay = {}
               PROVE  client # None /\ file = client /\ store = client
    BY DEF LoggedInIsKept
  <2>1. Quiet
    BY DEF Quiet, InSession, UnderWay
  <2>2. ui.up
    BY DEF IInv, PageDown
  <2> QED BY <2>1, <2>2 DEF IInv, CalmInv, QuietKept
<1> QED BY <1>1, IInvAlways, PTL

\* The flag of MatrixState lets the effect of MatrixApp start one loop for each
\* client, after any number of reloads and logins that cross nothing.
THEOREM SyncStartedOnce == Spec => []SyncOnce
<1>1. IInv => SyncOnce
  BY DEF IInv, CalmInv, LoopsOnce, SyncOnce
<1> QED BY <1>1, IInvAlways, PTL

\* A client that the chat shows has its sync loop, unless that loop has failed
\* once: no reload, logout or login leaves the flag set without one.
THEOREM SyncIsRunning == Spec => []SyncRuns
<1>1. IInv => SyncRuns
  <2> SUFFICES ASSUME IInv, ui.logged, ~ ui.effect, Calm,
                      \A s \in Slots : cmd[s].do \in {"idle", "request"}
               PROVE  loops[client] > 0 \/ client \in ended
    BY DEF SyncRuns
  <2>1. Quiet
    BY DEF Quiet, InSession, SessionCommands
  <2>2. ui.up
    BY DEF IInv, PageDown
  <2> QED BY <2>1, <2>2 DEF IInv, CalmInv, QuietKept, FlagInv
<1> QED BY <1>1, IInvAlways, PTL

=============================================================================
