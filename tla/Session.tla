------------------------------ MODULE Session ------------------------------
(***************************************************************************)
(* One account's session (commands.rs create_account and unlock, net.rs    *)
(* start_transport, core/session.rs, core/vault.rs).                       *)
(*                                                                         *)
(* unlock reads the vault file, derives a key for a while, installs what   *)
(* it read as the session's vault, and then starts the transport, which    *)
(* may fail and leaves the session open.  The user may try again, or may   *)
(* reload the page and unlock an open session: then the loops of before    *)
(* are still at work while the second unlock derives its key.  One login   *)
(* command runs at a time: its form is disabled meanwhile.                 *)
(*                                                                         *)
(* The vault is reduced to the number of records that matter to the module *)
(* that extends this one; module Delivery is about its other contents.     *)
(***************************************************************************)
EXTENDS Naturals

CONSTANTS
  Events,      \* what may happen besides the normal course
  MaxRecords,  \* bound: records kept in the vault
  Absent       \* stands for a file, or a session, that is not there

SessionEvents ==
  { "save",   \* vault::save returns an error
    "start",  \* the transport does not start
    "lock",   \* the user locks the app
    "crash" } \* the process ends

ASSUME SessionAssumption ==
  /\ MaxRecords \in Nat
  /\ Absent \notin Nat

VARIABLES
  mem,      \* the decrypted vault, Absent while locked
  disk,     \* the vault file, Absent before the account is created
  login,    \* the unlock or create_account command under way
  serving,  \* this process has started an accept loop
  seen      \* history: mishaps so far ("gaveup": work was dropped for good)

svars == <<mem, disk, login, serving>>

Contents == 0..MaxRecords \union {Absent}
LoginStages == {"none", "derive", "start"}

SessionTypeOK ==
  /\ mem \in Contents
  /\ disk \in Contents
  /\ login \in [pc : LoginStages, read : Contents]
  /\ serving \in BOOLEAN

NoLogin == [pc |-> "none", read |-> Absent]
Locked == mem = Absent

SessionInit ==
  /\ mem = Absent
  /\ disk = Absent
  /\ login = NoLogin
  /\ serving = FALSE

-----------------------------------------------------------------------------
\* (Mutant: the session starts from an empty vault.)
ReadNothing == 0

ReadVault == disk

\* vault::create: an identity, and nothing yet that is kept for it.
EmptyVault == 0

\* The file is written and the session installed; nobody else can have the
\* account open.
CreateAccount ==
  /\ login = NoLogin
  /\ disk = Absent
  /\ disk' = EmptyVault
  /\ mem' = EmptyVault
  /\ login' = [pc |-> "start", read |-> Absent]
  /\ UNCHANGED <<serving, seen>>

\* A wrong password ends the command without a trace.
UnlockReads ==
  /\ login = NoLogin
  /\ disk # Absent
  /\ login' = [pc |-> "derive", read |-> ReadVault]
  /\ UNCHANGED <<mem, disk, serving, seen>>

UnlockInstalls ==
  /\ login.pc = "derive"
  /\ mem' = login.read
  /\ login' = [pc |-> "start", read |-> Absent]
  /\ UNCHANGED <<disk, serving, seen>>

\* The loops of an earlier start are not ended, by this or by a lock.
StartTransport ==
  /\ login.pc = "start"
  /\ \/ serving' = TRUE
     \/ "start" \in Events /\ UNCHANGED serving
  /\ login' = NoLogin
  /\ UNCHANGED <<mem, disk, seen>>

Lock ==
  /\ "lock" \in Events
  /\ ~ Locked
  /\ mem' = Absent
  /\ UNCHANGED <<disk, login, serving, seen>>

\* A change under with_unlocked, followed by vault::save.  A save that fails
\* leaves the change in memory.  A save that changes the file while an unlock
\* holds what it read before is noted as "overrun".
SaveVault(v) ==
  /\ mem' = v
  /\ \/ /\ disk' = v
        /\ seen' = seen \union
             (IF login.pc = "derive" /\ v # disk THEN {"overrun"} ELSE {})
     \/ /\ "save" \in Events
        /\ seen' = seen \union {"gaveup"}
        /\ UNCHANGED disk
  /\ UNCHANGED <<login, serving>>

SetSettings ==
  /\ ~ Locked
  /\ SaveVault(mem)

EndProcess ==
  /\ mem' = Absent
  /\ login' = NoLogin
  /\ serving' = FALSE
  /\ seen' = seen \union {"crash"}
  /\ UNCHANGED disk

SessionNext ==
  \/ CreateAccount \/ UnlockReads \/ UnlockInstalls \/ StartTransport
  \/ Lock \/ SetSettings
=============================================================================
