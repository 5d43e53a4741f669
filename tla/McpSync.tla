------------------------------ MODULE McpSync ------------------------------
(***************************************************************************)
(* SyncAgy (internal/mcpsync): a goroutine of cliostrad reads two          *)
(* registries of another program and runs `agy mcp add` for every server   *)
(* that only the first has.  The child it waits for survives the daemon.   *)
(***************************************************************************)
EXTENDS Naturals

CONSTANTS Servers,
          Desktop,  \* the servers in the desktop's registry, never written
          NoServer

ASSUME SyncAssumption == Desktop \subseteq Servers /\ NoServer \notin Servers

VARIABLES
    installed, \* whether the binary agy is found
    sync,      \* where the goroutine is
    missing,   \* the entries yet to be copied
    adding,    \* the server whose child the goroutine waits for
    orphans,   \* children of a daemon that died
    headless,  \* headless[m]: absent, the user's own, or copied
    failed     \* the servers whose copy failed

syncVars == <<installed, sync, missing, adding, orphans, headless, failed>>

Present == {m \in Servers : headless[m] # "absent"}

\* agy is not installed, a registry cannot be read, or the desktop's is empty.
NothingToSync == /\ sync = "read" /\ sync' = "skipped"
                 /\ UNCHANGED <<installed, missing, adding, orphans, headless, failed>>

AllOfDesktop == Desktop
Missing == Desktop \ Present
ReadRegistries == /\ sync = "read" /\ installed /\ sync' = "add" /\ missing' = Missing
                  /\ UNCHANGED <<installed, adding, orphans, headless, failed>>

\* The loop over a map, in any order.
AddServer == /\ sync = "add" /\ adding = NoServer
             /\ \E m \in missing : adding' = m /\ missing' = missing \ {m}
             /\ UNCHANGED <<installed, sync, orphans, headless, failed>>

\* Run returns; an error is logged and the loop goes on.
GiveUp == missing' = {}
GoOn == UNCHANGED missing
AddReturns == /\ adding # NoServer /\ adding' = NoServer
              /\ \/ headless' = [headless EXCEPT ![adding] = "copied"] /\ UNCHANGED <<missing, failed>>
                 \/ failed' = failed \cup {adding} /\ GoOn /\ UNCHANGED headless
              /\ UNCHANGED <<installed, sync, orphans>>

SyncReturns == /\ sync = "add" /\ adding = NoServer /\ missing = {} /\ sync' = "done"
               /\ UNCHANGED <<installed, missing, adding, orphans, headless, failed>>

OrphanEnds == \E m \in orphans :
                 /\ orphans' = orphans \ {m}
                 /\ headless' \in {headless, [headless EXCEPT ![m] = "copied"]}
                 /\ UNCHANGED <<installed, sync, missing, adding, failed>>

SyncDies == /\ sync' = "off" /\ missing' = {} /\ adding' = NoServer
            /\ orphans' = (orphans \cup {adding}) \ {NoServer}
            /\ UNCHANGED <<installed, headless, failed>>

SyncStarts == /\ sync = "off" /\ sync' = "read" /\ failed' = {}
              /\ UNCHANGED <<installed, missing, adding, orphans, headless>>

SyncStep == \/ NothingToSync \/ ReadRegistries \/ AddServer \/ AddReturns
            \/ SyncReturns \/ OrphanEnds

SyncInit == /\ installed \in BOOLEAN /\ sync = "read" /\ missing = {} /\ adding = NoServer /\ orphans = {}
            /\ headless \in [Servers -> {"absent", "own"}]
            /\ failed = {}
=============================================================================
