----------------------------- MODULE StoreProofs -----------------------------
(***************************************************************************)
(* Saves that do not overlap are atomic and durable: Store implements      *)
(* AtomicRecord, whatever the records, the inodes and the bounds; and      *)
(* Saves that do overlap still keep every variable's type.                 *)
(*                                                                         *)
(* The argument: every inode that a name record.json may refer to, now or  *)
(* after a power loss, or that a reader has open, holds one whole record   *)
(* on the medium and is not the temporary file; the only saver owns the    *)
(* temporary file from its open to its rename.                             *)
(***************************************************************************)
EXTENDS StoreProperties, TLAPS

Whole(i) == i \in flushed /\ \E v \in Values : content[i] = Bytes(v)

Shape == /\ DOMAIN content = Inodes
         /\ flushed \subseteq Inodes
         /\ dir \in dirs /\ dirs \subseteq [tmp : Entry, final : Entry]
         /\ spc \in [Savers -> SaverPC]
         /\ sval \in [Savers -> Values \cup {None}]
         /\ sfd \in [Savers -> Entry]
         /\ rfd \in [Readers -> Entry]

OneSaver == \A s, t \in Savers : ~Idle(s) /\ ~Idle(t) => s = t

FinalsWhole == \A d \in dirs : d.final # None => Whole(d.final)

TmpApart == /\ \A d \in dirs : d.tmp # None => d.tmp # d.final
            /\ dir.tmp # None => \A d \in dirs : d.final # dir.tmp

ReadersWhole == \A r \in Readers : rfd[r] # None => Whole(rfd[r]) /\ rfd[r] # dir.tmp

\* What a saver has done by the time it reaches each system call.
SaverOwns(s) ==
    /\ Idle(s) => sval[s] = None /\ sfd[s] = None
    /\ ~Idle(s) => sval[s] \in Values
    /\ spc[s] \in {"write", "sync", "rename"} => sfd[s] = dir.tmp /\ dir.tmp # None
    /\ spc[s] = "write" => content[sfd[s]] = <<>>
    /\ spc[s] \in {"sync", "rename"} => content[sfd[s]] = Bytes(sval[s])
    /\ spc[s] = "rename" => sfd[s] \in flushed
    /\ spc[s] = "syncdir" => dir.final # None /\ content[dir.final] = Bytes(sval[s])

SaversOwn == \A s \in Savers : SaverOwns(s)

StoreInv == Shape /\ OneSaver /\ FinalsWhole /\ TmpApart /\ ReadersWhole /\ SaversOwn

-----------------------------------------------------------------------------
\* The JSON of a record decodes to that record and to no other.
LEMMA DecodesBack == \A v \in Values : Decode(Bytes(v)) = v
<1> TAKE v \in Values
<1>1. \A w \in Values : Bytes(w) = Bytes(v) => w = v
  BY StoreAssumption DEF Bytes
<1> QED BY <1>1 DEF Decode

\* Writing into an empty file leaves exactly what was written.
LEMMA WritesAll == \A v \in Values : Overlay(<<>>, Bytes(v)) = Bytes(v)
  BY StoreAssumption DEF Overlay, Bytes

\* A whole inode reads as a record, which is not None.
LEMMA WholeReads ==
    \A i \in Inodes : (\E v \in Values : content[i] = Bytes(v)) => ReadInode(i) \in Values
  BY DecodesBack, StoreAssumption DEF ReadInode

-----------------------------------------------------------------------------
LEMMA InvInit == Init => StoreInv
  BY StoreAssumption
  DEF Init, StoreInv, Shape, OneSaver, FinalsWhole, TmpApart, ReadersWhole, SaversOwn,
      SaverOwns, Idle, Entry, SaverPC

\* While s saves, nobody else does, and whoever is idle owns nothing.
LEMMA OthersIdle ==
    ASSUME StoreInv, NEW s \in Savers, ~Idle(s), NEW t \in Savers, t # s
    PROVE  Idle(t) /\ sval[t] = None /\ sfd[t] = None
  BY DEF StoreInv, OneSaver, SaversOwn, SaverOwns

LEMMA IdleOwns == \A s \in Savers : Idle(s) /\ sval[s] = None /\ sfd[s] = None => SaverOwns(s)
  BY DEF SaverOwns, Idle

\* What s does to its own entries leaves the other savers idle.
LEMMA OthersStay ==
    ASSUME StoreInv, NEW s \in Savers, ~Idle(s) \/ \A t \in Savers : Idle(t),
           \A t \in Savers \ {s} : spc'[t] = spc[t] /\ sval'[t] = sval[t] /\ sfd'[t] = sfd[t]
    PROVE  OneSaver' /\ \A t \in Savers \ {s} : SaverOwns(t)'
<1>1. \A t \in Savers \ {s} : Idle(t)' /\ sval'[t] = None /\ sfd'[t] = None
  BY OthersIdle DEF StoreInv, SaversOwn, SaverOwns, Idle
<1> QED BY <1>1 DEF OneSaver, SaverOwns, Idle

\* Where no name changes, the inodes other than the temporary file stay whole,
\* and so do those that names and readers refer to.
LEMMA FilesStay ==
    ASSUME StoreInv, UNCHANGED <<dir, rfd>>, dir \in dirs', dirs' \subseteq dirs,
           \A i \in Inodes : i # dir.tmp => /\ content'[i] = content[i]
                                            /\ i \in flushed => i \in flushed'
    PROVE  FinalsWhole' /\ TmpApart' /\ ReadersWhole'
<1>1. \A i \in Inodes : i # dir.tmp /\ Whole(i) => Whole(i)'
  BY DEF Whole, Bytes
<1>2. FinalsWhole'
  <2> SUFFICES ASSUME NEW d \in dirs', d.final # None PROVE Whole(d.final)'
    BY DEF FinalsWhole
  <2>1. d \in dirs /\ Whole(d.final) /\ d.final \in Inodes
    BY DEF StoreInv, FinalsWhole, Shape, Entry
  <2>2. d.final # dir.tmp
    BY <2>1, StoreAssumption DEF StoreInv, TmpApart
  <2> QED BY <1>1, <2>1, <2>2
<1>3. TmpApart'
  BY DEF StoreInv, TmpApart
<1>4. ReadersWhole'
  BY <1>1 DEF StoreInv, ReadersWhole, Shape, Entry
<1> QED BY <1>2, <1>3, <1>4

\* Save returns in any way that leaves the names as they are.
LEMMA InvReturn ==
    ASSUME StoreInv, NEW s \in Savers, ~Idle(s), Return(s), Shape',
           UNCHANGED <<dir, rfd>>, dir \in dirs', dirs' \subseteq dirs,
           \A i \in Inodes : i # dir.tmp => /\ content'[i] = content[i]
                                            /\ i \in flushed => i \in flushed'
    PROVE  StoreInv'
<1>1. FinalsWhole' /\ TmpApart' /\ ReadersWhole'
  BY FilesStay
<1>2. OneSaver' /\ \A t \in Savers \ {s} : SaverOwns(t)'
  BY OthersStay DEF Return, StoreInv, Shape
<1>3. SaverOwns(s)'
  BY DEF Return, StoreInv, Shape, SaverOwns, Idle
<1> QED BY <1>1, <1>2, <1>3 DEF StoreInv, SaversOwn

LEMMA InvOpen ==
    ASSUME StoreInv, NEW s \in Savers, NEW v \in Values, Open(s, v), ~MayOverlap
    PROVE  StoreInv'
<1>1. PICK i \in Inodes :
        /\ IF dir.tmp = None
           THEN /\ Free(i)
                /\ dir' = [dir EXCEPT !.tmp = i]
                /\ dirs' = dirs \cup {dir'}
           ELSE i = dir.tmp /\ UNCHANGED dirVars
        /\ content' = [content EXCEPT ![i] = <<>>]
        /\ flushed' = flushed \ {i}
        /\ sfd' = [sfd EXCEPT ![s] = i]
  BY DEF Open
<1>2. i # None /\ dir \in [tmp : Entry, final : Entry]
  BY StoreAssumption DEF StoreInv, Shape
<1>3. dir'.tmp = i /\ dir'.final = dir.final /\ dir' \in [tmp : Entry, final : Entry]
  BY <1>1, <1>2 DEF dirVars, Entry
<1>4. dir' \in dirs' /\ dirs' \subseteq dirs \cup {dir'}
  BY <1>1 DEF dirVars, StoreInv, Shape
<1>5. \A d \in dirs : d.final # i
  BY <1>1, <1>2 DEF Free, Names, StoreInv, TmpApart
<1>6. \A r \in Readers : rfd[r] # i
  BY <1>1, <1>2 DEF Free, StoreInv, ReadersWhole
<1>7. \A k \in Inodes : k # i /\ Whole(k) => Whole(k)'
  BY <1>1 DEF Whole, Bytes, StoreInv, Shape
<1>8. Shape'
  <2>1. DOMAIN content' = Inodes /\ flushed' \subseteq Inodes
    BY <1>1 DEF StoreInv, Shape
  <2>2. dirs' \subseteq [tmp : Entry, final : Entry]
    BY <1>3, <1>4 DEF StoreInv, Shape
  <2>3. /\ spc' \in [Savers -> SaverPC] /\ sval' \in [Savers -> Values \cup {None}]
        /\ sfd' \in [Savers -> Entry] /\ rfd' \in [Readers -> Entry]
    BY <1>1 DEF StoreInv, Shape, Open, SaverPC, Entry
  <2> QED BY <2>1, <2>2, <2>3, <1>4 DEF Shape
<1>9. OneSaver' /\ \A t \in Savers \ {s} : SaverOwns(t)'
  BY OthersStay, <1>1 DEF Open, StoreInv, Shape, Idle
<1>10. SaverOwns(s)'
  BY <1>1, <1>2, <1>3 DEF Open, SaverOwns, Idle, StoreInv, Shape
<1>11. FinalsWhole'
  <2> SUFFICES ASSUME NEW d \in dirs', d.final # None PROVE Whole(d.final)'
    BY DEF FinalsWhole
  <2>1. PICK e \in dirs : e.final = d.final
    BY <1>3, <1>4 DEF StoreInv, Shape
  <2>2. Whole(d.final) /\ d.final \in Inodes /\ d.final # i
    BY <2>1, <1>5 DEF StoreInv, FinalsWhole, Shape, Entry
  <2> QED BY <2>2, <1>7
<1>12. TmpApart'
  BY <1>3, <1>4, <1>5 DEF TmpApart, StoreInv, Shape
<1>13. ReadersWhole'
  BY <1>3, <1>6, <1>7 DEF ReadersWhole, StoreInv, Shape, Entry, Open
<1> QED BY <1>8, <1>9, <1>10, <1>11, <1>12, <1>13 DEF StoreInv, SaversOwn

LEMMA InvWrite ==
    ASSUME StoreInv, NEW s \in Savers, Write(s)
    PROVE  StoreInv'
<1>1. /\ spc[s] = "write" /\ ~Idle(s) /\ sval[s] \in Values
      /\ sfd[s] = dir.tmp /\ dir.tmp \in Inodes /\ content[sfd[s]] = <<>>
  BY DEF Write, Idle, StoreInv, SaversOwn, SaverOwns, Shape, Entry
<1>2. /\ DOMAIN content' = Inodes /\ flushed' \subseteq Inodes
      /\ \A i \in Inodes : i # dir.tmp => /\ content'[i] = content[i]
                                          /\ i \in flushed => i \in flushed'
  BY <1>1 DEF Write, StoreInv, Shape
<1>3. UNCHANGED <<dir, dirs, rfd>>
  BY DEF Write, dirVars
<1>4. CASE Fail(s)
  <2>1. Shape'
    BY <1>2, <1>3, <1>4 DEF StoreInv, Shape, Fail, Return, SaverPC, Entry
  <2> QED BY InvReturn, <1>1, <1>2, <1>3, <1>4, <2>1 DEF Fail, StoreInv, Shape
<1>5. CASE /\ content' = [content EXCEPT ![sfd[s]] = Overlay(@, Bytes(sval[s]))]
           /\ Goto(s, "sync")
  <2>1. Shape'
    BY <1>2, <1>3, <1>5 DEF StoreInv, Shape, Goto, SaverPC
  <2>2. FinalsWhole' /\ TmpApart' /\ ReadersWhole'
    BY FilesStay, <1>2, <1>3 DEF StoreInv, Shape
  <2>3. OneSaver' /\ \A t \in Savers \ {s} : SaverOwns(t)'
    BY OthersStay, <1>1, <1>5 DEF Goto, StoreInv, Shape
  <2>4. content'[sfd[s]] = Bytes(sval[s])
    BY <1>1, <1>5, WritesAll DEF StoreInv, Shape
  <2>5. SaverOwns(s)'
    BY <1>1, <1>3, <1>5, <2>4, StoreAssumption
    DEF Goto, SaverOwns, Idle, StoreInv, Shape, Bytes
  <2> QED BY <2>1, <2>2, <2>3, <2>5 DEF StoreInv, SaversOwn
<1> QED BY <1>4, <1>5 DEF Write

LEMMA InvSync ==
    ASSUME StoreInv, NEW s \in Savers, Sync(s)
    PROVE  StoreInv'
<1>1. /\ spc[s] = "sync" /\ ~Idle(s) /\ sval[s] \in Values
      /\ sfd[s] = dir.tmp /\ dir.tmp \in Inodes /\ content[sfd[s]] = Bytes(sval[s])
  BY DEF Sync, Idle, StoreInv, SaversOwn, SaverOwns, Shape, Entry
<1>2. UNCHANGED <<content, dir, dirs, rfd>> /\ flushed \subseteq flushed'
  BY DEF Sync, dirVars
<1>3. CASE UNCHANGED flushed /\ Fail(s)
  <2>1. Shape'
    BY <1>2, <1>3 DEF StoreInv, Shape, Fail, Return, SaverPC, Entry
  <2> QED BY InvReturn, <1>1, <1>2, <1>3, <2>1 DEF Fail, StoreInv, Shape
<1>4. CASE flushed' = flushed \cup {sfd[s]} /\ Goto(s, "rename")
  <2>1. Shape'
    BY <1>1, <1>2, <1>4 DEF StoreInv, Shape, Goto, SaverPC
  <2>2. FinalsWhole' /\ TmpApart' /\ ReadersWhole'
    BY FilesStay, <1>2 DEF StoreInv, Shape
  <2>3. OneSaver' /\ \A t \in Savers \ {s} : SaverOwns(t)'
    BY OthersStay, <1>1, <1>4 DEF Goto, StoreInv, Shape
  <2>4. SaverOwns(s)'
    BY <1>1, <1>2, <1>4, StoreAssumption DEF Goto, SaverOwns, Idle, StoreInv, Shape, Bytes
  <2> QED BY <2>1, <2>2, <2>3, <2>4 DEF StoreInv, SaversOwn
<1> QED BY <1>3, <1>4 DEF Sync

LEMMA InvRename ==
    ASSUME StoreInv, NEW s \in Savers, Rename(s)
    PROVE  StoreInv'
<1>1. /\ spc[s] = "rename" /\ ~Idle(s) /\ sval[s] \in Values
      /\ dir.tmp \in Inodes /\ dir.tmp # None
      /\ dir.tmp \in flushed /\ content[dir.tmp] = Bytes(sval[s])
  BY DEF Rename, Idle, StoreInv, SaversOwn, SaverOwns, Shape, Entry
<1>2. UNCHANGED <<content, flushed, rfd>>
  BY DEF Rename, fileVars
<1>3. CASE Fail(s) /\ UNCHANGED dirVars
  <2>1. Shape'
    BY <1>2, <1>3 DEF StoreInv, Shape, Fail, Return, SaverPC, Entry, dirVars
  <2> QED BY InvReturn, <1>1, <1>2, <1>3, <2>1 DEF Fail, StoreInv, Shape, dirVars
<1>4. CASE dir' = RenamedTo(dir) /\ dirs' = dirs \cup {dir'} /\ Goto(s, "syncdir")
  <2>1. dir'.tmp = None /\ dir'.final = dir.tmp /\ dir' \in [tmp : Entry, final : Entry]
    BY <1>1, <1>4 DEF RenamedTo, Entry
  <2>2. Shape'
    BY <1>2, <1>4, <2>1 DEF StoreInv, Shape, Goto, SaverPC
  <2>3. \A i \in Inodes : Whole(i) <=> Whole(i)'
    BY <1>2 DEF Whole, Bytes
  <2>4. Whole(dir.tmp)
    BY <1>1 DEF Whole
  <2>5. FinalsWhole'
    BY <1>4, <2>1, <2>3, <2>4, <1>1 DEF FinalsWhole, StoreInv, Shape, Entry
  <2>6. TmpApart'
    BY <1>4, <2>1 DEF TmpApart, StoreInv
  <2>7. ReadersWhole'
    BY <1>2, <2>1, <2>3 DEF ReadersWhole, StoreInv, Shape, Entry
  <2>8. OneSaver' /\ \A t \in Savers \ {s} : SaverOwns(t)'
    BY OthersStay, <1>1, <1>4 DEF Goto, StoreInv, Shape
  <2>9. SaverOwns(s)'
    BY <1>1, <1>2, <1>4, <2>1 DEF Goto, SaverOwns, Idle, StoreInv, Shape, Bytes
  <2> QED BY <2>2, <2>5, <2>6, <2>7, <2>8, <2>9 DEF StoreInv, SaversOwn
<1> QED BY <1>1, <1>3, <1>4 DEF Rename

LEMMA InvSyncDir ==
    ASSUME StoreInv, NEW s \in Savers, SyncDir(s)
    PROVE  StoreInv'
<1>1. ~Idle(s) /\ Return(s) /\ UNCHANGED <<content, flushed, dir, rfd>>
  BY DEF SyncDir, Fail, Idle, fileVars
<1>2. dir \in dirs' /\ dirs' \subseteq dirs
  BY DEF SyncDir, StoreInv, Shape
<1>3. Shape'
  BY <1>1, <1>2 DEF StoreInv, Shape, Return, SaverPC, Entry
<1> QED BY InvReturn, <1>1, <1>2, <1>3

LEMMA InvReaders ==
    ASSUME StoreInv, NEW r \in Readers, OpenRead(r) \/ Read(r)
    PROVE  StoreInv'
<1>1. UNCHANGED <<content, flushed, dir, dirs, spc, sval, sfd>>
  BY DEF OpenRead, Read, fileVars, dirVars, saveVars
<1>2. Shape' /\ OneSaver' /\ FinalsWhole' /\ TmpApart'
  BY <1>1 DEF StoreInv, Shape, OneSaver, FinalsWhole, TmpApart, Whole, Bytes, Idle,
              OpenRead, Read, Entry
<1>3. SaversOwn'
  BY <1>1 DEF StoreInv, SaversOwn, SaverOwns, Idle, Bytes
<1>4. \A i \in Inodes : Whole(i) <=> Whole(i)'
  BY <1>1 DEF Whole, Bytes
<1>5. ReadersWhole'
  BY <1>1, <1>4
  DEF OpenRead, Read, ReadersWhole, FinalsWhole, TmpApart, StoreInv, Shape, Entry
<1> QED BY <1>2, <1>3, <1>5 DEF StoreInv

LEMMA InvCrash == StoreInv /\ Crash => StoreInv'
<1> SUFFICES ASSUME StoreInv, Crash PROVE StoreInv'
  OBVIOUS
<1>1. UNCHANGED <<content, flushed, dir, dirs>>
  BY DEF Crash, fileVars, dirVars
<1>2. FinalsWhole' /\ TmpApart'
  BY <1>1 DEF StoreInv, FinalsWhole, TmpApart, Whole, Bytes
<1> QED BY <1>1, <1>2
    DEF StoreInv, Shape, OneSaver, ReadersWhole, SaversOwn, SaverOwns, Crash, Gone, Idle,
        SaverPC, Entry

\* Flushed bytes survive, so the names found afterwards refer to whole inodes.
LEMMA InvPowerLoss == StoreInv /\ PowerLoss => StoreInv'
<1> SUFFICES ASSUME StoreInv, PowerLoss PROVE StoreInv'
  OBVIOUS
<1>1. dir' \in dirs /\ dirs' = {dir'} /\ flushed' = Inodes
  BY DEF PowerLoss
<1>2. DOMAIN content' = Inodes /\ \A i \in flushed : content'[i] = content[i]
  BY DEF PowerLoss, StoreInv, Shape
<1>3. \A i \in Inodes : Whole(i) => Whole(i)'
  BY <1>1, <1>2 DEF Whole, Bytes
<1>4. FinalsWhole' /\ TmpApart'
  BY <1>1, <1>3 DEF StoreInv, Shape, FinalsWhole, TmpApart, Entry
<1> QED BY <1>1, <1>2, <1>4
    DEF StoreInv, Shape, OneSaver, ReadersWhole, SaversOwn, SaverOwns, PowerLoss, Gone, Idle,
        SaverPC, Entry

LEMMA InvNext == ASSUME ~MayOverlap PROVE StoreInv /\ [Next]_vars => StoreInv'
<1> SUFFICES ASSUME StoreInv, [Next]_vars PROVE StoreInv'
  OBVIOUS
<1>1. ASSUME NEW s \in Savers, NEW v \in Values, Open(s, v) PROVE StoreInv'
  BY <1>1, InvOpen
<1>2. ASSUME NEW s \in Savers, Write(s) \/ Sync(s) \/ Rename(s) \/ SyncDir(s)
      PROVE StoreInv'
  BY <1>2, InvWrite, InvSync, InvRename, InvSyncDir
<1>3. ASSUME NEW r \in Readers, OpenRead(r) \/ Read(r) PROVE StoreInv'
  BY <1>3, InvReaders
<1>4. CASE Crash \/ PowerLoss
  BY <1>4, InvCrash, InvPowerLoss
<1>5. CASE UNCHANGED vars
  <2>1. \A i \in Inodes : Whole(i) <=> Whole(i)'
    BY <1>5 DEF Whole, Bytes, vars, fileVars
  <2>2. FinalsWhole' /\ ReadersWhole'
    BY <1>5, <2>1
    DEF StoreInv, FinalsWhole, ReadersWhole, Shape, Entry, vars, dirVars
  <2>3. SaversOwn'
    BY <1>5 DEF StoreInv, SaversOwn, SaverOwns, Idle, Bytes, vars, fileVars, dirVars, saveVars
  <2> QED BY <1>5, <2>2, <2>3
      DEF StoreInv, Shape, OneSaver, TmpApart, Idle, vars, fileVars, dirVars, saveVars
<1> QED BY <1>1, <1>2, <1>3, <1>4, <1>5 DEF Next

-----------------------------------------------------------------------------
(* Every step of Store is a step of AtomicRecord, or changes nothing there.*)

Finals == {d.final : d \in dirs}

\* While the whole inodes keep their bytes and the names their targets, record
\* and durable stay; while the readers keep their descriptors, so does loading.
LEMMA ViewStays ==
    ASSUME StoreInv, dir'.final = dir.final, Finals' = Finals,
           \A i \in Inodes : Whole(i) /\ i # dir.tmp => content'[i] = content[i]
    PROVE  /\ ReadInode(dir.final)' = ReadInode(dir.final)
           /\ {ReadInode(d.final) : d \in dirs}' = {ReadInode(d.final) : d \in dirs}
           /\ \A r \in Readers : rfd'[r] = rfd[r] => ReadInode(rfd[r])' = ReadInode(rfd[r])
<1>1. \A d \in dirs : ReadInode(d.final)' = ReadInode(d.final)
  <2> TAKE d \in dirs
  <2>1. d.final = None \/ (Whole(d.final) /\ d.final \in Inodes /\ d.final # dir.tmp)
    BY StoreAssumption DEF StoreInv, FinalsWhole, TmpApart, Shape, Entry
  <2>2. d.final = None \/ content'[d.final] = content[d.final]
    BY <2>1
  <2> QED BY <2>2 DEF ReadInode, Decode
<1>2. ReadInode(dir.final)' = ReadInode(dir.final)
  BY <1>1 DEF ReadInode, Decode, StoreInv, Shape
<1>3. {ReadInode(d.final) : d \in dirs}' = {ReadInode(d.final) : d \in dirs}
  <2> DEFINE now(i) == ReadInode(i)
  <2> DEFINE then(i) == IF i = None THEN None ELSE Decode(content'[i])
  <2>1. \A d \in dirs : then(d.final) = now(d.final)
    BY <1>1 DEF ReadInode, Decode
  <2>2. {then(d.final) : d \in dirs'} = {then(f) : f \in Finals'}
    BY DEF Finals
  <2>3. {now(d.final) : d \in dirs} = {now(f) : f \in Finals}
    BY DEF Finals
  <2>4. \A f \in Finals : then(f) = now(f)
    BY <2>1 DEF Finals
  <2>5. {then(d.final) : d \in dirs'} = {now(d.final) : d \in dirs}
    BY <2>2, <2>3, <2>4
  <2> QED BY <2>5 DEF ReadInode, Decode
<1>4. ASSUME NEW r \in Readers, rfd'[r] = rfd[r]
      PROVE  ReadInode(rfd[r])' = ReadInode(rfd[r])
  <2>1. rfd[r] = None \/ content'[rfd[r]] = content[rfd[r]]
    BY StoreAssumption DEF StoreInv, ReadersWhole, Shape, Entry
  <2> QED BY <1>4, <2>1 DEF ReadInode, Decode
<1> QED BY <1>2, <1>3, <1>4

\* The calls in progress as AtomicRecord sees them.
Saving == [s \in Savers |-> Call(s)]
Loading == [r \in Readers |-> ReadInode(rfd[r])]
Durable == {ReadInode(d.final) : d \in dirs}
Current == ReadInode(dir.final)

\* A step that changes only what s is doing.
LEMMA SavingMoves ==
    ASSUME StoreInv, NEW s \in Savers,
           \A t \in Savers \ {s} : spc'[t] = spc[t] /\ sval'[t] = sval[t]
    PROVE  Saving' = [Saving EXCEPT ![s] = Call(s)']
  BY DEF Saving, Call, Idle

LEMMA LoadingStays ==
    ASSUME StoreInv, UNCHANGED rfd,
           \A r \in Readers : rfd'[r] = rfd[r] => ReadInode(rfd[r])' = ReadInode(rfd[r])
    PROVE  UNCHANGED Loading
  BY DEF Loading, ReadInode, Decode

\* Failing returns, and steps that the caller does not see.
LEMMA HiddenStep ==
    ASSUME StoreInv, NEW s \in Savers, UNCHANGED <<dir, rfd>>, Finals' = Finals,
           \A i \in Inodes : Whole(i) /\ i # dir.tmp => content'[i] = content[i],
           \A t \in Savers \ {s} : spc'[t] = spc[t] /\ sval'[t] = sval[t],
           Call(s)' = None \/ Call(s)' = Call(s)
    PROVE  [Record!Next]_(Record!avars)
<1>1. UNCHANGED <<Current, Durable>>
  BY ViewStays DEF Current, Durable, ReadInode, Decode
<1>2. UNCHANGED Loading
  BY ViewStays, LoadingStays
<1>3. Saving' = [Saving EXCEPT ![s] = Call(s)']
  BY SavingMoves
<1>4. CASE Call(s)' = None
  <2>1. Record!Fail(s)
    BY <1>1, <1>2, <1>3, <1>4 DEF Record!Fail, Current, Durable, Saving, Loading
  <2> QED BY <2>1 DEF Record!Next
<1>5. CASE Call(s)' = Call(s)
  <2>1. UNCHANGED Saving
    BY <1>3, <1>5 DEF Saving
  <2> QED BY <1>1, <1>2, <2>1 DEF Record!avars, Current, Durable, Saving, Loading
<1> QED BY <1>4, <1>5

LEMMA OpenMaps ==
    ASSUME StoreInv, NEW s \in Savers, NEW v \in Values, Open(s, v)
    PROVE  Record!Begin(s, v)
<1>1. PICK i \in Inodes :
        /\ IF dir.tmp = None
           THEN Free(i) /\ dir' = [dir EXCEPT !.tmp = i] /\ dirs' = dirs \cup {dir'}
           ELSE i = dir.tmp /\ UNCHANGED dirVars
        /\ content' = [content EXCEPT ![i] = <<>>]
  BY DEF Open
<1>2. dir'.final = dir.final /\ Finals' = Finals
  BY <1>1 DEF dirVars, Finals, StoreInv, Shape
<1>3. \A k \in Inodes : k # i => content'[k] = content[k]
  BY <1>1 DEF StoreInv, Shape
<1>4. \A d \in dirs : d.final # i
  BY <1>1, StoreAssumption DEF Free, Names, StoreInv, TmpApart
<1>5. \A r \in Readers : rfd[r] # i
  BY <1>1, StoreAssumption DEF Free, StoreInv, ReadersWhole
<1>6. \A f \in Finals : f = None \/ content'[f] = content[f]
  BY <1>3, <1>4 DEF Finals, StoreInv, Shape, Entry
<1>7. UNCHANGED <<Current, Durable>>
  <2> DEFINE then(f) == IF f = None THEN None ELSE Decode(content'[f])
  <2>1. \A f \in Finals : then(f) = ReadInode(f)
    BY <1>6 DEF ReadInode, Decode
  <2>2. dir.final \in Finals
    BY DEF Finals, StoreInv, Shape
  <2>3. {then(f) : f \in Finals'} = {ReadInode(f) : f \in Finals}
    BY <1>2, <2>1
  <2>4. {then(d.final) : d \in dirs'} = {then(f) : f \in Finals'}
    BY DEF Finals
  <2>5. {ReadInode(d.final) : d \in dirs} = {ReadInode(f) : f \in Finals}
    BY DEF Finals
  <2>6. Durable' = {then(d.final) : d \in dirs'}
    BY DEF Durable, ReadInode, Decode
  <2>7. Durable' = Durable
    BY <2>3, <2>4, <2>5, <2>6 DEF Durable
  <2>8. Current' = then(dir.final)
    BY <1>2 DEF Current, ReadInode, Decode
  <2> QED BY <2>1, <2>2, <2>7, <2>8 DEF Current
<1>8. UNCHANGED Loading
  <2>1. \A r \in Readers : rfd[r] = None \/ content'[rfd[r]] = content[rfd[r]]
    BY <1>3, <1>5 DEF StoreInv, Shape, Entry
  <2> QED BY <2>1 DEF Open, Loading, ReadInode, Decode
<1>9. Call(s) = None /\ Call(s)' = [value |-> v, done |-> FALSE]
  BY DEF Open, Call, Idle, StoreInv, Shape
<1>10. Saving' = [Saving EXCEPT ![s] = [value |-> v, done |-> FALSE]]
  BY SavingMoves, <1>9 DEF Open, StoreInv, Shape
<1> QED BY <1>7, <1>8, <1>9, <1>10
    DEF Record!Begin, Record!Pending, Current, Durable, Saving, Loading

LEMMA WriteSyncMap ==
    ASSUME StoreInv, NEW s \in Savers, Write(s) \/ Sync(s)
    PROVE  [Record!Next]_(Record!avars)
<1>1. ~Idle(s) /\ spc[s] \in {"write", "sync"} /\ sfd[s] = dir.tmp
  BY DEF Write, Sync, Idle, StoreInv, SaversOwn, SaverOwns
<1>2. UNCHANGED <<dir, rfd>> /\ Finals' = Finals
  BY DEF Write, Sync, dirVars, Finals
<1>3. \A i \in Inodes : Whole(i) /\ i # dir.tmp => content'[i] = content[i]
  BY <1>1 DEF Write, Sync, StoreInv, Shape
<1>4. \A t \in Savers \ {s} : spc'[t] = spc[t] /\ sval'[t] = sval[t]
  BY DEF Write, Sync, Goto, Fail, Return, StoreInv, Shape
<1>5. Call(s)' = None \/ Call(s)' = Call(s)
  BY <1>1 DEF Write, Sync, Goto, Fail, Return, Call, Idle, StoreInv, Shape
<1> QED BY <1>2, <1>3, <1>4, <1>5, HiddenStep

\* The rename is the moment the new record takes the place of the old one.
LEMMA RenameMaps ==
    ASSUME StoreInv, NEW s \in Savers, Rename(s)
    PROVE  [Record!Next]_(Record!avars)
<1>1. /\ spc[s] = "rename" /\ ~Idle(s) /\ sval[s] \in Values
      /\ dir.tmp \in Inodes /\ dir.tmp # None /\ content[dir.tmp] = Bytes(sval[s])
  BY DEF Rename, Idle, StoreInv, SaversOwn, SaverOwns, Shape, Entry
<1>2. UNCHANGED <<content, rfd>>
  BY DEF Rename, fileVars
<1>3. \A i : ReadInode(i)' = ReadInode(i)
  BY <1>2 DEF ReadInode, Decode
<1>4. CASE Fail(s) /\ UNCHANGED dirVars
  <2>1. Finals' = Finals /\ UNCHANGED <<dir, rfd>>
    BY <1>2, <1>4 DEF dirVars, Finals
  <2>2. \A t \in Savers \ {s} : spc'[t] = spc[t] /\ sval'[t] = sval[t]
    BY <1>4 DEF Fail, Return, StoreInv, Shape
  <2>3. Call(s)' = None
    BY <1>4 DEF Fail, Return, Call, Idle, StoreInv, Shape
  <2> QED BY <1>2, <2>1, <2>2, <2>3, HiddenStep
<1>5. CASE dir' = RenamedTo(dir) /\ dirs' = dirs \cup {dir'} /\ Goto(s, "syncdir")
  <2> DEFINE v == sval[s]
  <2>1. dir'.final = dir.tmp
    BY <1>5 DEF RenamedTo
  <2>2. ReadInode(dir.tmp) = v
    BY <1>1, DecodesBack DEF ReadInode
  <2>3. Current' = v
    BY <1>2, <2>1, <2>2 DEF Current, ReadInode, Decode
  <2>4. Durable' = Durable \cup {v}
    <3>1. Durable' = {ReadInode(d.final) : d \in dirs'}
      BY <1>2 DEF Durable, ReadInode, Decode
    <3> QED BY <1>5, <2>1, <2>2, <3>1 DEF Durable
  <2>5. UNCHANGED Loading
    BY <1>2 DEF Loading, ReadInode, Decode
  <2>6. Call(s) = [value |-> v, done |-> FALSE] /\ Call(s)' = [value |-> v, done |-> TRUE]
    BY <1>1, <1>5 DEF Goto, Call, Idle, StoreInv, Shape
  <2>7. Saving' = [Saving EXCEPT ![s] = [value |-> v, done |-> TRUE]]
    BY SavingMoves, <1>5, <2>6 DEF Goto, StoreInv, Shape
  <2>8. Record!Commit(s, v)
    BY <2>3, <2>4, <2>5, <2>6, <2>7
    DEF Record!Commit, Record!Pending, Record!Done, Current, Durable, Saving, Loading
  <2> QED BY <1>1, <2>8 DEF Record!Next
<1> QED BY <1>1, <1>4, <1>5 DEF Rename

\* A successful fsync of the directory leaves the new record as the only one.
LEMMA SyncDirMaps ==
    ASSUME StoreInv, NEW s \in Savers, SyncDir(s)
    PROVE  [Record!Next]_(Record!avars)
<1>1. /\ spc[s] = "syncdir" /\ ~Idle(s) /\ sval[s] \in Values
      /\ dir.final # None /\ content[dir.final] = Bytes(sval[s])
  BY DEF SyncDir, Idle, StoreInv, SaversOwn, SaverOwns
<1>2. Return(s) /\ UNCHANGED <<content, dir, rfd>>
  BY DEF SyncDir, Fail, fileVars
<1>3. \A t \in Savers \ {s} : spc'[t] = spc[t] /\ sval'[t] = sval[t]
  BY <1>2 DEF Return, StoreInv, Shape
<1>4. Call(s)' = None
  BY <1>2 DEF Return, Call, Idle, StoreInv, Shape
<1>5. CASE UNCHANGED dirs
  <2>1. Finals' = Finals
    BY <1>5 DEF Finals
  <2> QED BY <1>2, <1>3, <1>4, <2>1, HiddenStep
<1>6. CASE dirs' = {dir}
  <2> DEFINE v == sval[s]
  <2>1. Current = v /\ Current' = v
    <3>1. Current = v
      BY <1>1, DecodesBack DEF Current, ReadInode
    <3>2. Current' = Current
      BY <1>2 DEF Current, ReadInode, Decode
    <3> QED BY <3>1, <3>2
  <2>2. Durable' = {v}
    <3>1. Durable' = {ReadInode(d.final) : d \in dirs'}
      BY <1>2 DEF Durable, ReadInode, Decode
    <3> QED BY <1>6, <2>1, <3>1 DEF Current
  <2>3. UNCHANGED Loading
    BY <1>2 DEF Loading, ReadInode, Decode
  <2>4. Call(s) = [value |-> v, done |-> TRUE]
    BY <1>1 DEF Call, Idle
  <2>5. Saving' = [Saving EXCEPT ![s] = None]
    BY SavingMoves, <1>3, <1>4
  <2>6. Record!Succeed(s, v)
    BY <2>1, <2>2, <2>3, <2>4, <2>5
    DEF Record!Succeed, Record!Done, Current, Durable, Saving, Loading
  <2> QED BY <1>1, <2>6 DEF Record!Next
<1> QED BY <1>5, <1>6 DEF SyncDir

LEMMA ReadersMap ==
    ASSUME StoreInv, NEW r \in Readers, OpenRead(r) \/ Read(r)
    PROVE  Record!BeginLoad(r) \/ Record!EndLoad(r)
<1>1. UNCHANGED <<content, dir, dirs, spc, sval>>
  BY DEF OpenRead, Read, fileVars, dirVars, saveVars
<1>2. UNCHANGED <<Current, Durable, Saving>>
  BY <1>1 DEF Current, Durable, Saving, Call, Idle, ReadInode, Decode
<1>3. \A q \in Readers \ {r} : rfd'[q] = rfd[q]
  BY DEF OpenRead, Read, StoreInv, Shape
<1>4. Loading' = [Loading EXCEPT ![r] = ReadInode(rfd[r])']
  BY <1>1, <1>3 DEF Loading, ReadInode, Decode
<1>5. CASE OpenRead(r)
  <2>1. ReadInode(rfd[r]) = None /\ ReadInode(rfd[r])' = Current
    BY <1>1, <1>5 DEF OpenRead, Current, ReadInode, Decode, StoreInv, Shape
  <2>2. Current # None
    BY <1>5, WholeReads, StoreAssumption
    DEF OpenRead, Current, StoreInv, FinalsWhole, Whole, Shape, Entry
  <2> QED BY <1>2, <1>4, <2>1, <2>2 DEF Record!BeginLoad, Current, Durable, Saving, Loading
<1>6. CASE Read(r)
  <2>1. ReadInode(rfd[r])' = None
    BY <1>6 DEF Read, ReadInode, StoreInv, Shape
  <2> QED BY <1>2, <1>4, <2>1 DEF Record!EndLoad, Current, Durable, Saving, Loading
<1> QED BY <1>5, <1>6

LEMMA GoneMaps == StoreInv /\ Gone => Record!Interrupted
  BY DEF Gone, Record!Interrupted, Call, Idle, ReadInode

LEMMA CrashMaps == StoreInv /\ Crash => Record!Crash
  BY GoneMaps DEF Crash, Record!Crash, fileVars, dirVars, ReadInode, Decode

LEMMA PowerLossMaps == StoreInv /\ PowerLoss => Record!PowerLoss
<1> SUFFICES ASSUME StoreInv, PowerLoss PROVE Record!PowerLoss
  OBVIOUS
<1>1. Record!Interrupted
  BY GoneMaps DEF PowerLoss
<1>2. dir' \in dirs /\ dirs' = {dir'}
  BY DEF PowerLoss
<1>3. \A i \in flushed : i \in Inodes => content'[i] = content[i]
  BY DEF PowerLoss
<1>4. dir'.final = None \/ content'[dir'.final] = content[dir'.final]
  BY <1>2, <1>3 DEF StoreInv, FinalsWhole, Whole, Shape, Entry
<1>5. Current' = ReadInode(dir'.final)
  BY <1>4 DEF Current, ReadInode, Decode
<1>6. Current' \in Durable
  BY <1>2, <1>5 DEF Durable
<1>7. Durable' = {Current'}
  <2>1. Durable' = {Current' : d \in dirs'}
    BY <1>2 DEF Durable, Current, ReadInode, Decode
  <2> QED BY <1>2, <2>1
<1> QED BY <1>1, <1>6, <1>7 DEF Record!PowerLoss, Current, Durable

LEMMA InitMaps == Init => Record!Init
  BY DEF Init, Record!Init, Call, Idle, ReadInode

LEMMA NextMaps ==
    ASSUME ~MayOverlap PROVE StoreInv /\ [Next]_vars => [Record!Next]_(Record!avars)
<1> SUFFICES ASSUME StoreInv, [Next]_vars PROVE [Record!Next]_(Record!avars)
  OBVIOUS
<1>1. ASSUME NEW s \in Savers, NEW v \in Values, Open(s, v)
      PROVE  [Record!Next]_(Record!avars)
  BY <1>1, OpenMaps DEF Record!Next
<1>2. ASSUME NEW s \in Savers, Write(s) \/ Sync(s) \/ Rename(s) \/ SyncDir(s)
      PROVE  [Record!Next]_(Record!avars)
  BY <1>2, WriteSyncMap, RenameMaps, SyncDirMaps
<1>3. ASSUME NEW r \in Readers, OpenRead(r) \/ Read(r)
      PROVE  [Record!Next]_(Record!avars)
  BY <1>3, ReadersMap DEF Record!Next
<1>4. CASE Crash \/ PowerLoss
  BY <1>4, CrashMaps, PowerLossMaps DEF Record!Next
<1>5. CASE UNCHANGED vars
  <2>1. UNCHANGED <<content, dir, dirs, spc, sval, rfd>>
    BY <1>5 DEF vars, fileVars, dirVars, saveVars
  <2>2. UNCHANGED <<Current, Durable, Saving, Loading>>
    BY <2>1 DEF Current, Durable, Saving, Loading, Call, Idle, ReadInode, Decode
  <2> QED BY <2>2 DEF Record!avars, Current, Durable, Saving, Loading
<1> QED BY <1>1, <1>2, <1>3, <1>4, <1>5 DEF Next

\* Where no two Saves of a record overlap, Save replaces it in one step, what it
\* acknowledged survives every later failure, and Load returns a whole record
\* (store.go, Save and Load).
THEOREM SavesAreAtomic == ASSUME ~MayOverlap PROVE Spec => AtomicSaves
<1>1. Spec => []StoreInv
  <2>1. Init => StoreInv
    BY InvInit
  <2>2. StoreInv /\ [Next]_vars => StoreInv'
    BY InvNext
  <2> QED BY <2>1, <2>2, PTL DEF Spec
<1>2. Init => Record!Init
  BY InitMaps
<1>3. StoreInv /\ [Next]_vars => [Record!Next]_(Record!avars)
  BY NextMaps
<1> QED BY <1>1, <1>2, <1>3, PTL DEF Spec, AtomicSaves, Record!Spec

-----------------------------------------------------------------------------
(* Typing, for overlapping Saves too: a saver in its Save has an open inode *)
(* and a record, and a directory never gives one inode both names, because  *)
(* only a Free inode gets the temporary one.                                *)

\* Who is in a Save has an inode open and a record to write.
Busy == \A s \in Savers : ~Idle(s) => sfd[s] \in Inodes /\ sval[s] \in Values

\* The inductive form: TypeOK alone does not say that a write has a record.
StoreTyped == TypeOK /\ Busy

\* What a write leaves is a sequence again, however long it was before.
LEMMA OverlayType ==
    ASSUME NEW c \in Seq(Values), NEW d \in Seq(Values)
    PROVE  Overlay(c, d) \in Seq(Values)
<1> DEFINE m == Len(c)
           n == Len(d)
           o == Overlay(c, d)
<1>1. /\ m \in Nat /\ DOMAIN c = 1..m /\ \A k \in 1..m : c[k] \in Values
      /\ n \in Nat /\ DOMAIN d = 1..n /\ \A k \in 1..n : d[k] \in Values
  OBVIOUS
<1>2. PICK l \in Nat : (1..m) \cup (1..n) = 1..l
  <2>1. CASE m <= n
    <3>1. (1..m) \cup (1..n) = 1..n
      BY <1>1, <2>1
    <3> QED BY <1>1, <3>1
  <2>2. CASE n <= m
    <3>1. (1..m) \cup (1..n) = 1..m
      BY <1>1, <2>2
    <3> QED BY <1>1, <3>1
  <2> QED BY <1>1, <2>1, <2>2
<1>3. o \in [1..l -> Values]
  BY <1>1, <1>2 DEF Overlay
<1> QED BY <1>3

\* So are the bytes of a record ...
LEMMA BytesType == \A v \in Values : Bytes(v) \in Seq(Values)
  BY StoreAssumption DEF Bytes

\* ... and the first bytes of a file.
LEMMA FirstType ==
    ASSUME NEW c \in Seq(Values), NEW n \in Nat
    PROVE  First(c, n) \in Seq(Values)
<1> DEFINE m == IF n < Len(c) THEN n ELSE Len(c)
<1>1. m \in 0..Len(c)
  OBVIOUS
<1>2. SubSeq(c, 1, m) \in Seq(Values)
  BY <1>1
<1> QED BY <1>2 DEF First

\* Save's return leaves the saver idle, and typed.
LEMMA ReturnTyped ==
    ASSUME StoreTyped, NEW s \in Savers, Return(s)
    PROVE  /\ spc' \in [Savers -> SaverPC] /\ sval' \in [Savers -> Values \cup {None}]
           /\ sfd' \in [Savers -> Entry] /\ Busy'
  BY DEF StoreTyped, TypeOK, Busy, Return, Idle, SaverPC, Entry

\* A saver that goes on with its Save keeps its inode and its record.
LEMMA GotoTyped ==
    ASSUME StoreTyped, NEW s \in Savers, ~Idle(s), NEW pc \in SaverPC, Goto(s, pc)
    PROVE  /\ spc' \in [Savers -> SaverPC] /\ sval' \in [Savers -> Values \cup {None}]
           /\ sfd' \in [Savers -> Entry] /\ Busy' /\ UNCHANGED boundVars
  BY DEF StoreTyped, TypeOK, Busy, Goto, Idle

\* A failed system call is a return within the bound on faults.
LEMMA FailTyped ==
    ASSUME StoreTyped, NEW s \in Savers, Fail(s)
    PROVE  /\ spc' \in [Savers -> SaverPC] /\ sval' \in [Savers -> Values \cup {None}]
           /\ sfd' \in [Savers -> Entry] /\ Busy'
           /\ faults' \in 0..MaxFaults /\ crashes' \in 0..MaxCrashes
<1>1. faults' \in 0..MaxFaults /\ crashes' \in 0..MaxCrashes
  BY StoreAssumption DEF StoreTyped, TypeOK, Fail
<1> QED BY <1>1, ReturnTyped DEF Fail

\* The steps of a Save keep the types, one case per system call.
LEMMA TypedSavers ==
    ASSUME StoreTyped, NEW s \in Savers,
           \/ \E v \in Values : Open(s, v)
           \/ Write(s) \/ Sync(s) \/ Rename(s) \/ SyncDir(s)
    PROVE  StoreTyped'
<1> USE DEF boundVars, dirVars, fileVars, saveVars
<1>1. ASSUME NEW v \in Values, Open(s, v) PROVE StoreTyped'
  <2>1. PICK i \in Inodes :
          /\ IF dir.tmp = None
             THEN /\ Free(i)
                  /\ dir' = [dir EXCEPT !.tmp = i]
                  /\ dirs' = dirs \cup {dir'}
             ELSE i = dir.tmp /\ UNCHANGED dirVars
          /\ content' = [content EXCEPT ![i] = <<>>]
          /\ flushed' = flushed \ {i}
          /\ sfd' = [sfd EXCEPT ![s] = i]
    BY <1>1 DEF Open
  <2>2. /\ content' \in [Inodes -> Seq(Values)] /\ flushed' \subseteq Inodes
        /\ spc' \in [Savers -> SaverPC] /\ sval' \in [Savers -> Values \cup {None}]
        /\ sfd' \in [Savers -> Entry] /\ Busy'
    BY <1>1, <2>1 DEF Open, StoreTyped, TypeOK, Busy, Idle, SaverPC, Entry
  <2>3. /\ dir' \in dirs' /\ dirs' \subseteq [tmp : Entry, final : Entry]
        /\ \A d \in dirs' : d.tmp = d.final => d.tmp = None
    <3>1. dir \in dirs /\ dir \in [tmp : Entry, final : Entry]
      BY DEF StoreTyped, TypeOK
    <3>2. CASE dir.tmp = None
      <4>1. dir'.tmp = i /\ dir'.final = dir.final /\ dir' \in [tmp : Entry, final : Entry]
        BY <2>1, <3>1, <3>2 DEF Entry
      <4>2. dir.final # i
        BY <2>1, <3>1, <3>2 DEF Free, Names
      <4> QED BY <2>1, <3>2, <4>1, <4>2 DEF StoreTyped, TypeOK
    <3>3. CASE dir.tmp # None
      BY <2>1, <3>3 DEF StoreTyped, TypeOK
    <3> QED BY <3>2, <3>3
  <2> QED BY <1>1, <2>2, <2>3 DEF Open, StoreTyped, TypeOK
<1>2. CASE Write(s)
  <2>1. /\ ~Idle(s) /\ sfd[s] \in Inodes /\ sval[s] \in Values /\ Bytes(sval[s]) \in Seq(Values)
        /\ UNCHANGED <<dir, dirs, rfd>> /\ flushed' \subseteq Inodes
    BY <1>2, BytesType DEF Write, Idle, StoreTyped, TypeOK, Busy
  <2>2. content \in [Inodes -> Seq(Values)] /\ content[sfd[s]] \in Seq(Values)
    BY <2>1 DEF StoreTyped, TypeOK
  <2>3. CASE /\ content' = [content EXCEPT ![sfd[s]] = Overlay(@, Bytes(sval[s]))]
             /\ Goto(s, "sync")
    <3>1. content' \in [Inodes -> Seq(Values)]
      BY <2>1, <2>2, <2>3, OverlayType
    <3> QED BY <2>1, <2>3, <3>1, GotoTyped DEF StoreTyped, TypeOK, SaverPC
  <2>4. ASSUME NEW n \in 0..(Length[sval[s]] - 1), Fail(s),
               content' = [content EXCEPT ![sfd[s]] = Overlay(@, First(Bytes(sval[s]), n))]
        PROVE  StoreTyped'
    <3>1. First(Bytes(sval[s]), n) \in Seq(Values)
      BY <2>1, FirstType
    <3>2. content' \in [Inodes -> Seq(Values)]
      BY <2>1, <2>2, <2>4, <3>1, OverlayType
    <3> QED BY <2>1, <2>4, <3>2, FailTyped DEF StoreTyped, TypeOK
  <2> QED BY <1>2, <2>3, <2>4 DEF Write
<1>3. CASE Sync(s)
  <2>1. /\ ~Idle(s) /\ sfd[s] \in Inodes
        /\ UNCHANGED <<content, dir, dirs, rfd>> /\ flushed' \subseteq Inodes
    BY <1>3 DEF Sync, Idle, StoreTyped, TypeOK, Busy
  <2>2. CASE Goto(s, "rename")
    BY <2>1, <2>2, GotoTyped DEF StoreTyped, TypeOK, SaverPC
  <2>3. CASE Fail(s)
    BY <2>1, <2>3, FailTyped DEF StoreTyped, TypeOK
  <2> QED BY <1>3, <2>2, <2>3 DEF Sync
<1>4. CASE Rename(s)
  <2>1. ~Idle(s) /\ UNCHANGED <<content, flushed, rfd>>
    BY <1>4 DEF Rename, Idle
  <2>2. CASE /\ dir.tmp # None /\ dir' = RenamedTo(dir) /\ dirs' = dirs \cup {dir'}
             /\ Goto(s, "syncdir")
    <3>1. dir'.tmp = None /\ dir'.final = dir.tmp /\ dir' \in [tmp : Entry, final : Entry]
      BY <2>2 DEF RenamedTo, Entry, StoreTyped, TypeOK
    <3>2. /\ dir' \in dirs' /\ dirs' \subseteq [tmp : Entry, final : Entry]
          /\ \A d \in dirs' : d.tmp = d.final => d.tmp = None
      BY <2>2, <3>1 DEF StoreTyped, TypeOK
    <3> QED BY <2>1, <2>2, <3>2, GotoTyped DEF StoreTyped, TypeOK, SaverPC
  <2>3. CASE Return(s) /\ UNCHANGED <<dir, dirs, faults, crashes>>
    BY <2>1, <2>3, ReturnTyped DEF StoreTyped, TypeOK
  <2>4. CASE Fail(s) /\ UNCHANGED <<dir, dirs>>
    BY <2>1, <2>4, FailTyped DEF StoreTyped, TypeOK
  <2> QED BY <1>4, <2>2, <2>3, <2>4 DEF Rename
<1>5. CASE SyncDir(s)
  <2>1. /\ UNCHANGED <<content, flushed, dir, rfd>>
        /\ dir \in dirs' /\ dirs' \subseteq dirs
    BY <1>5 DEF SyncDir, StoreTyped, TypeOK
  <2>2. CASE Return(s) /\ UNCHANGED <<faults, crashes>>
    BY <2>1, <2>2, ReturnTyped DEF StoreTyped, TypeOK
  <2>3. CASE Fail(s)
    BY <2>1, <2>3, FailTyped DEF StoreTyped, TypeOK
  <2> QED BY <1>5, <2>2, <2>3 DEF SyncDir
<1> QED BY <1>1, <1>2, <1>3, <1>4, <1>5

\* What is counted up to any bound is a natural number.
LEMMA UpToIsNat == ASSUME NEW m, NEW n \in 0..m PROVE n \in Nat
OBVIOUS

\* So do the readers, a crash, and a power loss, whichever bytes it leaves.
LEMMA TypedOthers ==
    ASSUME StoreTyped, (\E r \in Readers : OpenRead(r) \/ Read(r)) \/ Crash \/ PowerLoss
    PROVE  StoreTyped'
<1> USE DEF boundVars, dirVars, fileVars, saveVars
<1>1. ASSUME NEW r \in Readers, OpenRead(r) \/ Read(r) PROVE StoreTyped'
  <2>1. rfd' \in [Readers -> Entry]
    BY <1>1 DEF OpenRead, Read, StoreTyped, TypeOK, Entry
  <2> QED BY <1>1, <2>1 DEF OpenRead, Read, StoreTyped, TypeOK, Busy, Idle
<1>2. ASSUME Gone
      PROVE  /\ spc' \in [Savers -> SaverPC] /\ sval' \in [Savers -> Values \cup {None}]
             /\ sfd' \in [Savers -> Entry] /\ rfd' \in [Readers -> Entry] /\ Busy'
             /\ faults' \in 0..MaxFaults /\ crashes' \in 0..MaxCrashes
  <2>1. faults' \in 0..MaxFaults /\ crashes' \in 0..MaxCrashes
    BY <1>2, StoreAssumption DEF Gone, StoreTyped, TypeOK
  <2> QED BY <1>2, <2>1 DEF Gone, SaverPC, Entry, Busy, Idle
<1>3. CASE Crash
  BY <1>2, <1>3 DEF Crash, StoreTyped, TypeOK
<1>4. CASE PowerLoss
  <2>1. PICK kept \in [Inodes \ flushed -> 0..Max({Len(content[i]) : i \in Inodes})] :
          content' = [i \in Inodes |-> IF i \in flushed THEN content[i]
                                       ELSE First(content[i], kept[i])]
    BY <1>4 DEF PowerLoss
  <2>2. ASSUME NEW i \in Inodes PROVE content'[i] \in Seq(Values)
    <3>1. content[i] \in Seq(Values)
      BY DEF StoreTyped, TypeOK
    <3>2. CASE i \notin flushed
      <4> DEFINE m == Max({Len(content[k]) : k \in Inodes})
      <4>1. kept \in [Inodes \ flushed -> 0..m] /\ i \in Inodes \ flushed
        BY <2>1, <3>2
      <4> HIDE DEF m
      <4>2. kept[i] \in 0..m
        BY <4>1
      <4>3. kept[i] \in Nat
        BY <4>2, UpToIsNat
      <4>4. First(content[i], kept[i]) \in Seq(Values)
        BY <3>1, <4>3, FirstType
      <4> QED BY <2>1, <3>2, <4>4
    <3> QED BY <2>1, <3>1, <3>2
  <2>3. content' \in [Inodes -> Seq(Values)]
    BY <2>1, <2>2
  <2>4. /\ dir' \in dirs' /\ dirs' \subseteq dirs /\ flushed' = Inodes
    BY <1>4 DEF PowerLoss
  <2> QED BY <1>2, <1>4, <2>3, <2>4 DEF PowerLoss, StoreTyped, TypeOK
<1> QED BY <1>1, <1>3, <1>4

\* Every variable keeps its type and no inode ever has both names, whether Saves
\* of a record overlap or not, and whatever fails or dies.
THEOREM StoreTypeCorrect == Spec => []TypeOK
<1>1. Init => StoreTyped
  BY StoreAssumption DEF Init, StoreTyped, TypeOK, Busy, Idle, SaverPC, Entry
<1>2. StoreTyped /\ [Next]_vars => StoreTyped'
  <2>1. StoreTyped /\ UNCHANGED vars => StoreTyped'
    BY DEF vars, boundVars, dirVars, fileVars, saveVars, StoreTyped, TypeOK, Busy, Idle
  <2> QED BY <2>1, TypedSavers, TypedOthers DEF Next
<1>3. StoreTyped => TypeOK
  BY DEF StoreTyped
<1> QED BY <1>1, <1>2, <1>3, PTL DEF Spec
=============================================================================
