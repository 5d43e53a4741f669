-------------------------------- MODULE Store --------------------------------
(***************************************************************************)
(* Store.Save and Store.Load for the record of one job, system call by     *)
(* system call: <id>.json.tmp is opened with O_CREATE|O_TRUNC, written,    *)
(* fsynced, renamed to <id>.json, and the directory is fsynced.  The file  *)
(* system is a table of inodes with cached contents, a directory of two    *)
(* names, and what of both a power loss may leave.                         *)
(***************************************************************************)
EXTENDS Naturals, Sequences, FiniteSetsExt

CONSTANTS Savers, Readers,
          Values,      \* the records, as far as Save tells them apart
          Length,      \* Length[v]: the size of v's JSON
          Unreadable,  \* what json.Unmarshal finds in any other bytes
          Inodes, None,
          MayOverlap,  \* whether two Saves of the record may be in progress
          MaxFaults,   \* bound: how many system calls fail
          MaxCrashes   \* bound: how many crashes and power losses

ASSUME StoreAssumption ==
    /\ Length \in [Values -> Nat \ {0}]
    /\ None \notin Inodes \cup Values \cup {Unreadable}
    /\ Unreadable \notin Values
    /\ MayOverlap \in BOOLEAN
    /\ MaxFaults \in Nat /\ MaxCrashes \in Nat

VARIABLES
    content,  \* content[i]: the bytes of inode i, as every process sees them
    flushed,  \* the inodes whose bytes are on the medium
    dir,      \* the names: dir.tmp and dir.final, an inode or None
    dirs,     \* the directories a power loss may leave: since its last fsync
    spc,      \* spc[s]: the next system call of saver s
    sval,     \* sval[s]: the record it saves
    sfd,      \* sfd[s]: the inode its file descriptor refers to
    rfd,      \* rfd[r]: the inode reader r has open
    faults, crashes

fileVars == <<content, flushed>>
dirVars  == <<dir, dirs>>
saveVars == <<spc, sval, sfd>>
boundVars == <<faults, crashes>>
vars == <<fileVars, dirVars, saveVars, rfd, boundVars>>

-----------------------------------------------------------------------------
\* The JSON of v: Length[v] bytes that belong to v.
Bytes(v) == [k \in 1..Length[v] |-> v]

\* json.Unmarshal accepts the JSON of one record and nothing else.
Decode(c) == IF \E v \in Values : c = Bytes(v)
             THEN CHOOSE v \in Values : c = Bytes(v) ELSE Unreadable

\* What a reader that opens name entry i finds.
ReadInode(i) == IF i = None THEN None ELSE Decode(content[i])

\* Writing d at offset 0 keeps what lies beyond its end.
Overlay(c, d) == [k \in DOMAIN c \cup DOMAIN d |-> IF k \in DOMAIN d THEN d[k] ELSE c[k]]

\* The first n bytes, or all of them.
First(c, n) == SubSeq(c, 1, IF n < Len(c) THEN n ELSE Len(c))

Names(d) == {d.tmp, d.final}

\* An inode no name, no name a power loss may bring back and no descriptor uses.
Free(i) == /\ \A d \in dirs : i \notin Names(d)
           /\ \A s \in Savers : sfd[s] # i
           /\ \A r \in Readers : rfd[r] # i

-----------------------------------------------------------------------------
(* Save.                                                                   *)

Idle(s) == spc[s] = "open"

\* Save returns, whatever it returns.
Return(s) == /\ spc' = [spc EXCEPT ![s] = "open"]
             /\ sval' = [sval EXCEPT ![s] = None]
             /\ sfd' = [sfd EXCEPT ![s] = None]

\* A system call fails: Save returns its error and undoes nothing.
Fail(s) == /\ faults < MaxFaults
           /\ faults' = faults + 1
           /\ Return(s)
           /\ UNCHANGED crashes

Goto(s, pc) == /\ spc' = [spc EXCEPT ![s] = pc]
               /\ UNCHANGED <<sval, sfd, boundVars>>

\* The temporary file is created, or the one that is there is truncated.  The
\* first Save of a record overlaps no other: Start has told nobody its id.
Open(s, v) ==
    /\ Idle(s)
    /\ (MayOverlap /\ dir.final # None) \/ \A t \in Savers : Idle(t)
    /\ \E i \in Inodes :
        /\ IF dir.tmp = None
           THEN /\ Free(i)
                /\ dir' = [dir EXCEPT !.tmp = i]
                /\ dirs' = dirs \cup {dir'}
           ELSE i = dir.tmp /\ UNCHANGED dirVars
        /\ content' = [content EXCEPT ![i] = <<>>]
        /\ flushed' = flushed \ {i}
        /\ sfd' = [sfd EXCEPT ![s] = i]
    /\ spc' = [spc EXCEPT ![s] = "write"]
    /\ sval' = [sval EXCEPT ![s] = v]
    /\ UNCHANGED <<rfd, boundVars>>

\* One write at offset 0; a failing one may have written part of the bytes.
Write(s) == LET i == sfd[s] IN
    /\ spc[s] = "write"
    /\ \/ /\ content' = [content EXCEPT ![i] = Overlay(@, Bytes(sval[s]))]
          /\ Goto(s, "sync")
       \/ /\ \E n \in 0..(Length[sval[s]] - 1) :
                content' = [content EXCEPT ![i] = Overlay(@, First(Bytes(sval[s]), n))]
          /\ Fail(s)
    /\ flushed' = flushed \ {i}
    /\ UNCHANGED <<dirVars, rfd>>

\* fsync and close.
SyncSkipped(s) ==
    /\ spc[s] = "sync"
    /\ Goto(s, "rename")
    /\ UNCHANGED <<fileVars, dirVars, rfd>>

Sync(s) ==
    /\ spc[s] = "sync"
    /\ \/ flushed' = flushed \cup {sfd[s]} /\ Goto(s, "rename")
       \/ UNCHANGED flushed /\ Fail(s)
    /\ UNCHANGED <<content, dirVars, rfd>>

LinkedTo(d) == [tmp |-> d.tmp, final |-> d.tmp]

\* Rename moves the inode the name tmp refers to now; without one it is ENOENT.
RenamedTo(d) == [tmp |-> None, final |-> d.tmp]

Rename(s) ==
    /\ spc[s] = "rename"
    /\ \/ /\ dir.tmp # None
          /\ dir' = RenamedTo(dir)
          /\ dirs' = dirs \cup {dir'}
          /\ Goto(s, "syncdir")
       \/ dir.tmp = None /\ Return(s) /\ UNCHANGED <<dirVars, boundVars>>
       \/ Fail(s) /\ UNCHANGED dirVars
    /\ UNCHANGED <<fileVars, rfd>>

\* The fsync of the directory, Save's last call.
SyncDir(s) ==
    /\ spc[s] = "syncdir"
    /\ \/ dirs' = {dir} /\ Return(s) /\ UNCHANGED boundVars
       \/ UNCHANGED dirs /\ Fail(s)
    /\ UNCHANGED <<fileVars, dir, rfd>>

-----------------------------------------------------------------------------
(* Load: open, then read.  A missing file is an error and changes nothing. *)

OpenRead(r) ==
    /\ rfd[r] = None /\ dir.final # None
    /\ rfd' = [rfd EXCEPT ![r] = dir.final]
    /\ UNCHANGED <<fileVars, dirVars, saveVars, boundVars>>

Read(r) ==
    /\ rfd[r] # None
    /\ rfd' = [rfd EXCEPT ![r] = None]
    /\ UNCHANGED <<fileVars, dirVars, saveVars, boundVars>>

-----------------------------------------------------------------------------
\* The daemon dies: its calls are gone, the cache of the file system is not.
Gone == /\ crashes < MaxCrashes
        /\ crashes' = crashes + 1
        /\ spc' = [s \in Savers |-> "open"]
        /\ sval' = [s \in Savers |-> None]
        /\ sfd' = [s \in Savers |-> None]
        /\ rfd' = [r \in Readers |-> None]
        /\ UNCHANGED faults

Crash == Gone /\ UNCHANGED <<fileVars, dirVars>>

\* The machine dies: one of the directories since the last fsync is found, and
\* of the bytes that were not flushed any first part.
PowerLoss ==
    /\ Gone
    /\ dir' \in dirs /\ dirs' = {dir'}
    /\ flushed' = Inodes
    /\ \E kept \in [Inodes \ flushed -> 0..Max({Len(content[i]) : i \in Inodes})] :
          content' = [i \in Inodes |-> IF i \in flushed THEN content[i]
                                       ELSE First(content[i], kept[i])]

Init ==
    /\ content = [i \in Inodes |-> <<>>] /\ flushed = Inodes
    /\ dir = [tmp |-> None, final |-> None] /\ dirs = {dir}
    /\ spc = [s \in Savers |-> "open"]
    /\ sval = [s \in Savers |-> None]
    /\ sfd = [s \in Savers |-> None]
    /\ rfd = [r \in Readers |-> None]
    /\ faults = 0 /\ crashes = 0

Next ==
    \/ \E s \in Savers : \/ \E v \in Values : Open(s, v)
                         \/ Write(s) \/ Sync(s) \/ Rename(s) \/ SyncDir(s)
    \/ \E r \in Readers : OpenRead(r) \/ Read(r)
    \/ Crash \/ PowerLoss

Spec == Init /\ [][Next]_vars
=============================================================================
