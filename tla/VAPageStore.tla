---------------------------- MODULE VAPageStore ----------------------------
(***************************************************************************)
(* The page store of the VA file (src/backend/utils/adt/adam_index_va.c): *)
(* the meta page with its free-page ring, the data pages, the free space   *)
(* map and the relation's length, shared by concurrent backends:           *)
(*   - inserters running vaInsert (addItemToBlock, addItem, newBuffer);    *)
(*   - one VACUUM running vaBulkDelete then vaVacuumCleanup;               *)
(*   - one reader walking the pages as bitmapSingleSearch does (no limit,  *)
(*     so it emits every tuple of every page it reads).                    *)
(* The index content is what vaBuild/buildCallback leave.  A tuple is its  *)
(* heap TID; the approximation bytes do not matter to the page protocol.   *)
(*                                                                         *)
(* Buffer locks are modelled where a backend holds one across steps: the   *)
(* meta buffer's share and exclusive locks (metaS, metaX) and the share    *)
(* lock the bulk delete holds on the page it compacts.  Lock, change and   *)
(* release inside one code section with no wait are one step.  Buffer      *)
(* locks are not re-entrant: LockBuffer on a buffer a backend already      *)
(* holds exclusively never returns.                                        *)
(***************************************************************************)
EXTENDS Integers, Sequences, FiniteSets

CONSTANTS
    Procs,      \* inserting backends
    NewTids,    \* heap TIDs the inserters index (each at most once)
    BuildTids,  \* the heap TIDs vaBuild indexes, in heap order
    PageCap,    \* tuples that fit a data page (addItem's space test)
    ExactFit,   \* TRUE: a page with one slot left has exactly sizeOfTuple free
    MetaBlockN, \* entries of the free-page ring notFullPage
    MaxBlocks,  \* bound on the relation's length in blocks (meta included)
    MaxVacuums, \* bound on VACUUM rounds
    NoTid,      \* an empty slot
    NoProc      \* no backend (a model value outside Procs)

ASSUME PageCap \in Nat \ {0} /\ MetaBlockN \in Nat \ {0}
ASSUME MaxBlocks \in Nat /\ MaxBlocks >= 2 /\ ExactFit \in BOOLEAN

VARIABLES
    page,       \* page[b]: [slots, maxoff, del] of data block b
    npages,     \* RelationGetNumberOfBlocks: blocks 0..npages-1 exist
    meta,       \* the meta page: [ring, nStart, nEnd, nChanges]
    fsm,        \* blocks recorded in the free space map
    metaS,      \* inserters holding the meta buffer SHARE
    metaX,      \* the inserter holding it EXCLUSIVE, or NoProc
    ins,        \* ins[p]: [pc, tid, blk, tmp] of inserter p
    vac,        \* the VACUUM's locals
    scan,       \* the reader's locals
    used,       \* history: the TIDs an insert has been started for
    committed,  \* history: TIDs whose index insert returned (or built)
    dead,       \* TIDs deleted in the heap
    reaped      \* dead TIDs a finished VACUUM has removed from the heap

vars == <<page, npages, meta, fsm, metaS, metaX, ins, vac, scan,
          used, committed, dead, reaped>>

Tids == NewTids \cup {BuildTids[i] : i \in 1..Len(BuildTids)}
DataBlocks == 1..MaxBlocks - 1           \* VA_HEAD_BLKNO = 1
RingIdx == 0..MetaBlockN - 1

EmptyPage == [slots |-> [i \in 1..PageCap |-> NoTid], maxoff |-> 0, del |-> FALSE]

\* the tuples a reader of block b sees: slots 1..maxoff
OnPage(b) == {page[b].slots[i] : i \in 1..page[b].maxoff}

\* addItem: GetFreePageSpace(state, p) < sizeOfTuple means no room
HasRoom(b) == page[b].maxoff < PageCap

\* vaBulkDelete lists a page when GetFreePageSpace(...) > sizeOfTuple
Listable(b) ==
    page[b].maxoff < PageCap - (IF ExactFit THEN 1 ELSE 0)

\* addItem: append t at slot maxoff+1 (the room test is the caller's guard)
AddItem(pg, t) ==
    [pg EXCEPT !.slots[pg.maxoff + 1] = t, !.maxoff = @ + 1]

\* the ring is non-empty: nEnd > nStart
RingNonEmpty == meta.nEnd > meta.nStart
RingHead == meta.ring[meta.nStart]

\* the page the bulk delete holds SHARE while it compacts it
VacHolds(b) == vac.pc = "bdpage" /\ vac.blk = b

(***************************************************************************)
(* vaBuild + buildCallback: the meta page is block 0 (newBuffer on an      *)
(* empty file), initMetabuffer zeroes the ring, and the heap tuples are    *)
(* packed in order, a new page whenever addItem finds the current full.    *)
(***************************************************************************)
BuildPages ==
    LET n == Len(BuildTids)
        nb == (n + PageCap - 1) \div PageCap
        slot(b, i) == (b - 1) * PageCap + i
    IN  [b \in DataBlocks |->
            IF b > nb THEN EmptyPage
            ELSE [slots  |-> [i \in 1..PageCap |->
                                IF slot(b, i) <= n THEN BuildTids[slot(b, i)]
                                ELSE NoTid],
                  maxoff |-> IF b < nb THEN PageCap ELSE n - (nb - 1) * PageCap,
                  del    |-> FALSE]]

IdleIns == [pc |-> "idle", tid |-> NoTid, blk |-> 0, tmp |-> 0]
IdleVac == [pc |-> "idle", blk |-> 0, np |-> 0, i |-> 0, w |-> 0, end |-> 0,
            notFull |-> <<>>, removed |-> 0, dead |-> {}, last |-> 0,
            rounds |-> 0]
IdleScan == [pc |-> "idle", np |-> 0, blk |-> 0, res |-> {}, base |-> {}]

Init ==
    /\ page = BuildPages
    /\ npages = 1 + (Len(BuildTids) + PageCap - 1) \div PageCap
    /\ meta = [ring |-> [i \in RingIdx |-> 0], nStart |-> 0, nEnd |-> 0,
               nChanges |-> 0]
    /\ fsm = {}
    /\ metaS = {} /\ metaX = NoProc
    /\ ins = [p \in Procs |-> IdleIns]
    /\ vac = IdleVac
    /\ scan = IdleScan
    /\ used = {}
    /\ committed = {BuildTids[i] : i \in 1..Len(BuildTids)}
    /\ dead = {}
    /\ reaped = {}

-----------------------------------------------------------------------------
(***************************************************************************)
(* vaInsert by backend p.  The first try reads the ring under a SHARE lock *)
(* on the meta buffer and, still holding it, calls addItemToBlock on       *)
(* notFullPage[nStart].                                                    *)
(***************************************************************************)
InsStartRing(p, t) ==
    /\ ins[p].pc = "idle" /\ t \notin used
    /\ metaX = NoProc
    /\ RingNonEmpty
    /\ metaS' = metaS \cup {p}
    /\ ins' = [ins EXCEPT ![p] = [@ EXCEPT !.pc = "first", !.tid = t,
                                          !.blk = RingHead]]
    /\ used' = used \cup {t}
    /\ UNCHANGED <<page, npages, meta, fsm, metaX, vac, scan, committed,
                   dead, reaped>>

\* the ring is empty: "no available pages", unlock and go for EXCLUSIVE
InsStartEmpty(p, t) ==
    /\ ins[p].pc = "idle" /\ t \notin used
    /\ metaX = NoProc
    /\ ~RingNonEmpty
    /\ ins' = [ins EXCEPT ![p] = [@ EXCEPT !.pc = "relock", !.tid = t,
                                          !.blk = 0]]
    /\ used' = used \cup {t}
    /\ UNCHANGED <<page, npages, meta, fsm, metaS, metaX, vac, scan,
                   committed, dead, reaped>>

\* addItemToBlock(blkno) on the first try: the tuple fits
InsFirstAdded(p) ==
    LET b == ins[p].blk IN
    /\ ins[p].pc = "first"
    /\ b < npages /\ ~VacHolds(b) /\ HasRoom(b)
    /\ page' = [page EXCEPT ![b] = AddItem(@, ins[p].tid)]
    /\ ins' = [ins EXCEPT ![p].pc = "count"]
    /\ UNCHANGED <<npages, meta, fsm, metaS, metaX, vac, scan, used,
                   committed, dead, reaped>>

\* addItemToBlock fails: unlock the meta buffer and go for EXCLUSIVE
InsFirstFull(p) ==
    LET b == ins[p].blk IN
    /\ ins[p].pc = "first"
    /\ b < npages /\ ~VacHolds(b) /\ ~HasRoom(b)
    /\ metaS' = metaS \ {p}
    /\ ins' = [ins EXCEPT ![p].pc = "relock"]
    /\ UNCHANGED <<page, npages, meta, fsm, metaX, vac, scan, used,
                   committed, dead, reaped>>

(***************************************************************************)
(* nChanges++ on the first path happens under the SHARE lock only: the     *)
(* load and the store of the counter are two steps other holders of the   *)
(* share lock can interleave with.                                         *)
(***************************************************************************)
InsCountLoad(p) ==
    /\ ins[p].pc = "count"
    /\ ins' = [ins EXCEPT ![p] = [@ EXCEPT !.pc = "countStore",
                                          !.tmp = meta.nChanges]]
    /\ UNCHANGED <<page, npages, meta, fsm, metaS, metaX, vac, scan, used,
                   committed, dead, reaped>>

\* Mutant: the first path returns without releasing the meta buffer.
InsCountStoreKeepShare(p) ==
    /\ ins[p].pc = "countStore"
    /\ meta' = [meta EXCEPT !.nChanges = ins[p].tmp + 1]
    /\ committed' = committed \cup {ins[p].tid}
    /\ ins' = [ins EXCEPT ![p] = IdleIns]
    /\ UNCHANGED <<page, npages, fsm, metaS, metaX, vac, scan, used, dead,
                   reaped>>

InsCountStore(p) ==
    /\ ins[p].pc = "countStore"
    /\ meta' = [meta EXCEPT !.nChanges = ins[p].tmp + 1]
    /\ metaS' = metaS \ {p}
    /\ committed' = committed \cup {ins[p].tid}
    /\ ins' = [ins EXCEPT ![p] = IdleIns]
    /\ UNCHANGED <<page, npages, fsm, metaX, vac, scan, used, dead, reaped>>

(***************************************************************************)
(* LockBuffer(metaBuffer, EXCLUSIVE), then skip the head of the ring if it *)
(* is still the page the first try found full.                             *)
(***************************************************************************)
InsRelock(p) ==
    /\ ins[p].pc = "relock"
    /\ metaX = NoProc /\ metaS = {}
    /\ metaX' = p
    /\ meta' = IF RingNonEmpty /\ ins[p].blk = RingHead
               THEN [meta EXCEPT !.nStart = @ + 1] ELSE meta
    /\ ins' = [ins EXCEPT ![p].pc = "loop"]
    /\ UNCHANGED <<page, npages, fsm, metaS, vac, scan, used, committed,
                   dead, reaped>>

\* the retry loop: addItemToBlock(notFullPage[nStart]) succeeds; the code
\* then calls LockBuffer(metaBuffer, EXCLUSIVE) on the buffer it holds
InsLoopAdded(p) ==
    LET b == RingHead IN
    /\ ins[p].pc = "loop" /\ RingNonEmpty
    /\ b < npages /\ ~VacHolds(b) /\ HasRoom(b)
    /\ page' = [page EXCEPT ![b] = AddItem(@, ins[p].tid)]
    /\ ins' = [ins EXCEPT ![p] = [@ EXCEPT !.pc = "selfWait", !.blk = b]]
    /\ UNCHANGED <<npages, meta, fsm, metaS, metaX, vac, scan, used,
                   committed, dead, reaped>>

\* the retry loop: the head page is full, nStart++
InsLoopFull(p) ==
    LET b == RingHead IN
    /\ ins[p].pc = "loop" /\ RingNonEmpty
    /\ b < npages /\ ~VacHolds(b) /\ ~HasRoom(b)
    /\ meta' = [meta EXCEPT !.nStart = @ + 1]
    /\ UNCHANGED <<page, npages, fsm, metaS, metaX, ins, vac, scan, used,
                   committed, dead, reaped>>

\* ReadBuffer of a block past the end of the file raises an ERROR: the
\* transaction aborts, its buffer locks are released, the TID is not indexed
InsReadError(p) ==
    LET b == IF ins[p].pc = "first" THEN ins[p].blk ELSE RingHead IN
    /\ \/ ins[p].pc = "first"
       \/ ins[p].pc = "loop" /\ RingNonEmpty
    /\ b >= npages
    /\ metaS' = metaS \ {p}
    /\ metaX' = IF metaX = p THEN NoProc ELSE metaX
    /\ ins' = [ins EXCEPT ![p] = IdleIns]
    /\ UNCHANGED <<page, npages, meta, fsm, vac, scan, used, committed,
                   dead, reaped>>

(***************************************************************************)
(* The ring is empty (the loop's condition fails): newBuffer, initBuffer,  *)
(* addItem, and the ring is reset to {notFullPage[0] = block, nStart = 0,  *)
(* nEnd = 1}, all under the meta EXCLUSIVE lock, which is then released.   *)
(* nChanges is not incremented on this path.                               *)
(***************************************************************************)
UseNewPage(p, b) ==
    /\ page' = [page EXCEPT ![b] = AddItem(EmptyPage, ins[p].tid)]
    /\ meta' = [meta EXCEPT !.ring[0] = b, !.nStart = 0, !.nEnd = 1]
    /\ metaX' = NoProc
    /\ committed' = committed \cup {ins[p].tid}
    /\ ins' = [ins EXCEPT ![p] = IdleIns]

\* Mutant: the recycled page is not taken out of the free space map.
InsFsmReuseKeep(p, b) ==
    /\ ins[p].pc = "loop" /\ ~RingNonEmpty
    /\ b \in fsm
    /\ ~VacHolds(b) /\ page[b].del
    /\ fsm' = fsm
    /\ UseNewPage(p, b)
    /\ UNCHANGED <<npages, metaS, vac, scan, used, dead, reaped>>

\* newBuffer: GetFreeIndexPage hands out a recycled page; it is locked
\* conditionally and used because it is deleted ("OK to use").  A page
\* that is neither new nor deleted is never in the FSM (FsmPagesReusable).
InsFsmReuse(p, b) ==
    /\ ins[p].pc = "loop" /\ ~RingNonEmpty
    /\ b \in fsm
    /\ ~VacHolds(b) /\ page[b].del
    /\ fsm' = fsm \ {b}
    /\ UseNewPage(p, b)
    /\ UNCHANGED <<npages, metaS, vac, scan, used, dead, reaped>>

\* newBuffer: ConditionalLockBuffer fails because the reader (line 457) or
\* the bulk delete's isDeleted test (line 1236) holds the recycled page
\* SHARE at this moment: the buffer is released and the FSM asked again.
\* GetFreeIndexPage has already taken the page out of the FSM.
InsFsmBusy(p, b) ==
    /\ ins[p].pc = "loop" /\ ~RingNonEmpty
    /\ b \in fsm
    /\ \/ scan.pc = "read" /\ scan.blk = b
       \/ vac.pc = "bd" /\ vac.blk = b
    /\ fsm' = fsm \ {b}
    /\ UNCHANGED <<page, npages, meta, metaS, metaX, ins, vac, scan, used,
                   committed, dead, reaped>>

\* Mutant: the new page is initialised at the last existing block number.
InsExtendLastBlock(p) ==
    /\ ins[p].pc = "loop" /\ ~RingNonEmpty
    /\ fsm = {}
    /\ npages < MaxBlocks
    /\ npages' = npages + 1
    /\ UseNewPage(p, npages - 1)
    /\ UNCHANGED <<fsm, metaS, vac, scan, used, dead, reaped>>

\* newBuffer: the FSM is empty, extend the file by one block (P_NEW)
InsExtend(p) ==
    /\ ins[p].pc = "loop" /\ ~RingNonEmpty
    /\ fsm = {}
    /\ npages < MaxBlocks
    /\ npages' = npages + 1
    /\ UseNewPage(p, npages)
    /\ UNCHANGED <<fsm, metaS, vac, scan, used, dead, reaped>>

-----------------------------------------------------------------------------
(***************************************************************************)
(* A heap tuple whose index entry exists is deleted by a transaction.      *)
(***************************************************************************)
HeapDelete(t) ==
    /\ t \in committed \ dead
    /\ dead' = dead \cup {t}
    /\ UNCHANGED <<page, npages, meta, fsm, metaS, metaX, ins, vac, scan,
                   used, committed, reaped>>

(***************************************************************************)
(* VACUUM: lazy vacuum collects the dead TIDs of the heap, calls           *)
(* vaBulkDelete when there are any (its callback answers from that list),  *)
(* then vaVacuumCleanup.                                                   *)
(***************************************************************************)
VacStart ==
    /\ vac.pc = "idle" /\ vac.rounds < MaxVacuums
    /\ LET d == dead \ reaped IN
       vac' = [vac EXCEPT !.pc = IF d = {} THEN "vc" ELSE "bd",
                          !.dead = d, !.np = npages, !.blk = 1]
    /\ UNCHANGED <<page, npages, meta, fsm, metaS, metaX, ins, scan, used,
                   committed, dead, reaped>>

\* vaBulkDelete, one block: a deleted page is skipped
BdSkipDeleted ==
    /\ vac.pc = "bd" /\ vac.blk < vac.np /\ page[vac.blk].del
    /\ vac' = [vac EXCEPT !.blk = @ + 1]
    /\ UNCHANGED <<page, npages, meta, fsm, metaS, metaX, ins, scan, used,
                   committed, dead, reaped>>

\* LockBuffer SHARE, itupEnd = maxoff at this moment
BdPageBegin ==
    /\ vac.pc = "bd" /\ vac.blk < vac.np /\ ~page[vac.blk].del
    /\ vac' = [vac EXCEPT !.pc = "bdpage", !.i = 1, !.w = 1,
                          !.end = page[vac.blk].maxoff]
    /\ UNCHANGED <<page, npages, meta, fsm, metaS, metaX, ins, scan, used,
                   committed, dead, reaped>>

\* Mutant: a removed tuple does not decrement maxoff.
BdRemoveKeepMaxoff ==
    /\ vac.pc = "bdpage" /\ vac.i <= vac.end
    /\ page[vac.blk].slots[vac.i] \in vac.dead
    /\ vac' = [vac EXCEPT !.i = @ + 1, !.removed = @ + 1]
    /\ UNCHANGED <<page, npages, meta, fsm, metaS, metaX, ins, scan, used,
                   committed, dead, reaped>>

\* the callback rejects the tuple at itup: maxoff-- (under the SHARE lock)
BdRemove ==
    LET b == vac.blk IN
    /\ vac.pc = "bdpage" /\ vac.i <= vac.end
    /\ page[b].slots[vac.i] \in vac.dead
    /\ page' = [page EXCEPT ![b].maxoff = @ - 1]
    /\ vac' = [vac EXCEPT !.i = @ + 1, !.removed = @ + 1]
    /\ UNCHANGED <<npages, meta, fsm, metaS, metaX, ins, scan, used,
                   committed, dead, reaped>>

\* Mutant: a surviving tuple is never copied left.
BdKeepNoCopy ==
    /\ vac.pc = "bdpage" /\ vac.i <= vac.end
    /\ page[vac.blk].slots[vac.i] \notin vac.dead
    /\ vac' = [vac EXCEPT !.i = @ + 1, !.w = @ + 1]
    /\ UNCHANGED <<page, npages, meta, fsm, metaS, metaX, ins, scan, used,
                   committed, dead, reaped>>

\* a surviving tuple is copied left to itupPtr when the two differ
BdKeep ==
    LET b == vac.blk IN
    /\ vac.pc = "bdpage" /\ vac.i <= vac.end
    /\ page[b].slots[vac.i] \notin vac.dead
    /\ page' = [page EXCEPT ![b].slots[vac.w] = page[b].slots[vac.i]]
    /\ vac' = [vac EXCEPT !.i = @ + 1, !.w = @ + 1]
    /\ UNCHANGED <<npages, meta, fsm, metaS, metaX, ins, scan, used,
                   committed, dead, reaped>>

\* Mutant: the local notFullPage bound is off by one (countPage <= MetaBlockN).
BdPageEndRingOverrun ==
    LET b   == vac.blk
        del == page[b].del \/ (vac.w # vac.i /\ vac.w = 1)
        pg  == [page[b] EXCEPT !.del = del,
                  !.slots = [i \in 1..PageCap |->
                               IF i <= page[b].maxoff THEN @[i] ELSE NoTid]]
    IN
    /\ vac.pc = "bdpage" /\ vac.i > vac.end
    /\ page' = [page EXCEPT ![b] = pg]
    /\ vac' = [vac EXCEPT !.pc = "bd", !.blk = @ + 1,
                 !.notFull = IF ~del /\ Listable(b) /\ Len(@) <= MetaBlockN
                             THEN Append(@, b) ELSE @]
    /\ UNCHANGED <<npages, meta, fsm, metaS, metaX, ins, scan, used,
                   committed, dead, reaped>>

(***************************************************************************)
(* End of the page: if anything was removed and nothing survives, set      *)
(* VA_DELETED; a page that is not deleted and has more than one tuple's    *)
(* space free is added to the local notFullPage while it has room.  The    *)
(* slots past the new maxoff are never read again before addItem or        *)
(* initBuffer overwrites them; they are cleared to keep states canonical.  *)
(***************************************************************************)
BdPageEnd ==
    LET b   == vac.blk
        del == page[b].del \/ (vac.w # vac.i /\ vac.w = 1)
        pg  == [page[b] EXCEPT !.del = del,
                  !.slots = [i \in 1..PageCap |->
                               IF i <= page[b].maxoff THEN @[i] ELSE NoTid]]
    IN
    /\ vac.pc = "bdpage" /\ vac.i > vac.end
    /\ page' = [page EXCEPT ![b] = pg]
    /\ vac' = [vac EXCEPT !.pc = "bd", !.blk = @ + 1,
                 !.notFull = IF ~del /\ Listable(b) /\ Len(@) < MetaBlockN
                             THEN Append(@, b) ELSE @]
    /\ UNCHANGED <<npages, meta, fsm, metaS, metaX, ins, scan, used,
                   committed, dead, reaped>>

\* countPage > 0: rewrite the ring and add tuples_removed to nChanges under
\* the meta EXCLUSIVE lock (entries past countPage are never read)
BdMeta ==
    /\ vac.pc = "bd" /\ vac.blk >= vac.np
    /\ vac.notFull # <<>>
    /\ metaX = NoProc /\ metaS = {}
    /\ meta' = [ring     |-> [i \in RingIdx |->
                                IF i < Len(vac.notFull) THEN vac.notFull[i + 1]
                                ELSE 0],
                nStart   |-> 0,
                nEnd     |-> Len(vac.notFull),
                nChanges |-> meta.nChanges + vac.removed]
    /\ vac' = [vac EXCEPT !.pc = "vc"]
    /\ UNCHANGED <<page, npages, fsm, metaS, metaX, ins, scan, used,
                   committed, dead, reaped>>

\* countPage = 0: the meta page is left as it is
BdNoMeta ==
    /\ vac.pc = "bd" /\ vac.blk >= vac.np
    /\ vac.notFull = <<>>
    /\ vac' = [vac EXCEPT !.pc = "vc"]
    /\ UNCHANGED <<page, npages, meta, fsm, metaS, metaX, ins, scan, used,
                   committed, dead, reaped>>

\* vaVacuumCleanup: npages under the relation lock, lastFilledBlock = 1
VcStart ==
    /\ vac.pc = "vc"
    /\ vac' = [vac EXCEPT !.pc = "vcpage", !.np = npages, !.blk = 1,
                          !.last = 1]
    /\ UNCHANGED <<page, npages, meta, fsm, metaS, metaX, ins, scan, used,
                   committed, dead, reaped>>

\* a deleted page is recorded in the FSM
VcRecordFree ==
    /\ vac.pc = "vcpage" /\ vac.blk < vac.np /\ page[vac.blk].del
    /\ fsm' = fsm \cup {vac.blk}
    /\ vac' = [vac EXCEPT !.blk = @ + 1]
    /\ UNCHANGED <<page, npages, meta, metaS, metaX, ins, scan, used,
                   committed, dead, reaped>>

\* a live page becomes lastFilledBlock
VcFilled ==
    /\ vac.pc = "vcpage" /\ vac.blk < vac.np /\ ~page[vac.blk].del
    /\ vac' = [vac EXCEPT !.blk = @ + 1, !.last = vac.blk]
    /\ UNCHANGED <<page, npages, meta, fsm, metaS, metaX, ins, scan, used,
                   committed, dead, reaped>>

VacDone == [IdleVac EXCEPT !.rounds = vac.rounds + 1]

\* Mutant: the truncation leaves the free space map as it is.
VcTruncateKeepFsm ==
    LET n == vac.last + 1 IN
    /\ vac.pc = "vcpage" /\ vac.blk >= vac.np
    /\ vac.np - 1 > vac.last
    /\ npages' = n
    /\ page' = [b \in DataBlocks |-> IF b < n THEN page[b] ELSE EmptyPage]
    /\ reaped' = reaped \cup vac.dead
    /\ vac' = VacDone
    /\ UNCHANGED <<fsm, meta, metaS, metaX, ins, scan, used, committed, dead>>

\* lastBlock = npages-1 (as read at VcStart) > lastFilledBlock:
\* RelationTruncate(index, lastFilledBlock + 1), with the FSM beyond it
VcTruncate ==
    LET n == vac.last + 1 IN
    /\ vac.pc = "vcpage" /\ vac.blk >= vac.np
    /\ vac.np - 1 > vac.last
    /\ npages' = n
    /\ page' = [b \in DataBlocks |-> IF b < n THEN page[b] ELSE EmptyPage]
    /\ fsm' = {b \in fsm : b < n}
    /\ reaped' = reaped \cup vac.dead
    /\ vac' = VacDone
    /\ UNCHANGED <<meta, metaS, metaX, ins, scan, used, committed, dead>>

VcNoTruncate ==
    /\ vac.pc = "vcpage" /\ vac.blk >= vac.np
    /\ vac.np - 1 <= vac.last
    /\ reaped' = reaped \cup vac.dead
    /\ vac' = VacDone
    /\ UNCHANGED <<page, npages, meta, fsm, metaS, metaX, ins, scan, used,
                   committed, dead>>

-----------------------------------------------------------------------------
(***************************************************************************)
(* The reader: bitmapSingleSearch without a limit.  npages is read once;   *)
(* the meta page is read under SHARE (magic, stale warning); then every    *)
(* block below npages is read under SHARE and, unless deleted, all its     *)
(* tuples are added to the bitmap.  base records the TIDs live and indexed *)
(* when the scan starts.                                                   *)
(***************************************************************************)
ScStart ==
    /\ scan.pc = "idle" /\ metaX = NoProc
    /\ scan' = [pc |-> "read", np |-> npages, blk |-> 1, res |-> {},
                base |-> committed \ dead]
    /\ UNCHANGED <<page, npages, meta, fsm, metaS, metaX, ins, vac, used,
                   committed, dead, reaped>>

ScPage ==
    /\ scan.pc = "read" /\ scan.blk < scan.np /\ scan.blk < npages
    /\ scan' = [scan EXCEPT !.blk = @ + 1,
                  !.res = IF page[scan.blk].del THEN @ ELSE @ \cup OnPage(scan.blk)]
    /\ UNCHANGED <<page, npages, meta, fsm, metaS, metaX, ins, vac, used,
                   committed, dead, reaped>>

\* ReadBufferExtended of a block the file no longer has: ERROR
ScReadError ==
    /\ scan.pc = "read" /\ scan.blk < scan.np /\ scan.blk >= npages
    /\ scan' = [scan EXCEPT !.pc = "error"]
    /\ UNCHANGED <<page, npages, meta, fsm, metaS, metaX, ins, vac, used,
                   committed, dead, reaped>>

\* Mutant: the walk stops one block early.
ScEndEarly ==
    /\ scan.pc = "read" /\ scan.blk >= scan.np - 1
    /\ scan' = [scan EXCEPT !.pc = "done"]
    /\ UNCHANGED <<page, npages, meta, fsm, metaS, metaX, ins, vac, used,
                   committed, dead, reaped>>

ScEnd ==
    /\ scan.pc = "read" /\ scan.blk >= scan.np
    /\ scan' = [scan EXCEPT !.pc = "done"]
    /\ UNCHANGED <<page, npages, meta, fsm, metaS, metaX, ins, vac, used,
                   committed, dead, reaped>>

-----------------------------------------------------------------------------
Insert(p) ==
    \/ \E t \in NewTids : InsStartRing(p, t) \/ InsStartEmpty(p, t)
    \/ InsFirstAdded(p) \/ InsFirstFull(p)
    \/ InsCountLoad(p) \/ InsCountStore(p)
    \/ InsRelock(p) \/ InsLoopAdded(p) \/ InsLoopFull(p) \/ InsReadError(p)
    \/ \E b \in fsm : InsFsmReuse(p, b) \/ InsFsmBusy(p, b)
    \/ InsExtend(p)

Vacuum ==
    \/ VacStart
    \/ BdSkipDeleted \/ BdPageBegin \/ BdRemove \/ BdKeep \/ BdPageEnd
    \/ BdMeta \/ BdNoMeta
    \/ VcStart \/ VcRecordFree \/ VcFilled \/ VcTruncate \/ VcNoTruncate

Scan == ScStart \/ ScPage \/ ScReadError \/ ScEnd

Next ==
    \/ \E p \in Procs : Insert(p)
    \/ \E t \in Tids : HeapDelete(t)
    \/ Vacuum
    \/ Scan

(***************************************************************************)
(* Backends are scheduled preemptively and a released buffer lock is      *)
(* granted to a waiter, so every backend that can take a step eventually   *)
(* does.  Fairness covers the steps of an operation under way; starting   *)
(* an insert, a VACUUM or a scan, and heap deletes, are clients' choices.  *)
(***************************************************************************)
Fairness ==
    /\ \A p \in Procs : WF_vars(ins[p].pc # "idle" /\ Insert(p))
    /\ WF_vars(vac.pc # "idle" /\ Vacuum)
    /\ WF_vars(scan.pc = "read" /\ Scan)

Spec == Init /\ [][Next]_vars
FairSpec == Spec /\ Fairness

-----------------------------------------------------------------------------
TypeOK ==
    /\ npages \in 1..MaxBlocks
    /\ \A b \in DataBlocks :
          /\ page[b].maxoff \in 0..PageCap
          /\ page[b].slots \in [1..PageCap -> Tids \cup {NoTid}]
          /\ page[b].del \in BOOLEAN
    /\ 0 <= meta.nStart /\ meta.nStart <= meta.nEnd /\ meta.nEnd <= MetaBlockN
    /\ meta.ring \in [RingIdx -> 0..MaxBlocks - 1]
    /\ fsm \subseteq DataBlocks
    /\ metaS \subseteq Procs /\ metaX \in Procs \cup {NoProc}
    /\ \A p \in Procs : ins[p].pc \in {"idle", "first", "count", "countStore",
                                      "relock", "loop", "selfWait"}
    /\ vac.pc \in {"idle", "bd", "bdpage", "vc", "vcpage"}
    /\ scan.pc \in {"idle", "read", "done", "error"}

\* t is stored: in slots 1..maxoff of a page that exists and is not deleted,
\* or in the part of the page the bulk delete is compacting it still reads
Stored(t) ==
    \E b \in 1..npages - 1 :
        /\ ~page[b].del
        /\ \/ t \in OnPage(b)
           \/ VacHolds(b) /\ t \in {page[b].slots[i] : i \in vac.i..vac.end}

(***************************************************************************)
(* No index entry of a live heap tuple is lost: every TID whose index      *)
(* insert returned (or that vaBuild indexed) and that is not deleted in    *)
(* the heap is on a non-deleted page inside the file, where a scan finds   *)
(* it.  About vaInsert's choice of page (ring, FSM, extension),            *)
(* vaBulkDelete's compaction and VA_DELETED marking, and vaVacuumCleanup's *)
(* truncation, in any interleaving.                                        *)
(***************************************************************************)
NoLostTuple == \A t \in committed \ dead : Stored(t)

(***************************************************************************)
(* Spec section 8 round trip: a scan without a limit emits every TID that *)
(* was indexed and live when it started and is still live when it ends.  *)
(* About the reader's page walk against vaBulkDelete's in-place compaction *)
(* (done under a SHARE lock) and against concurrent inserts.               *)
(***************************************************************************)
ScanComplete == scan.pc = "done" => scan.base \ dead \subseteq scan.res


(***************************************************************************)
(* Every page the free space map can hand to newBuffer is VA_DELETED, so   *)
(* newBuffer's isDeleted test rejects none: a recycled page is passed over *)
(* only while another backend holds it (InsFsmBusy).  About                *)
(* vaVacuumCleanup recording pages, newBuffer recycling them and the       *)
(* truncation cutting the FSM, while inserts and deletes go on.            *)
(***************************************************************************)
FsmPagesReusable == \A b \in fsm : page[b].del

(***************************************************************************)
(* No heap TID has two index entries a scan can read: the slots 1..maxoff  *)
(* of the pages in the file hold pairwise different TIDs.  About the       *)
(* compaction in vaBulkDelete (maxoff-- and the leftward copy) and the     *)
(* reuse of pages by vaInsert and newBuffer.                               *)
(***************************************************************************)
NoDuplicateEntry ==
    \A b1, b2 \in 1..npages - 1 :
        \A i \in 1..page[b1].maxoff, j \in 1..page[b2].maxoff :
            <<b1, i>> # <<b2, j>> => page[b1].slots[i] # page[b2].slots[j]

(***************************************************************************)
(* Every vaInsert that has started returns.  About the meta buffer locks   *)
(* vaInsert takes and re-takes, under fair scheduling of the backends.     *)
(***************************************************************************)
InsertTerminates ==
    \A p \in Procs : ins[p].pc # "idle" ~> ins[p].pc = "idle"

(***************************************************************************)
(* Every VACUUM that starts returns: vaBulkDelete's walk over the pages,   *)
(* its wait at line 1288 for the meta buffer's EXCLUSIVE lock, which each  *)
(* insert holds SHARE from its ring read to its nChanges++ or EXCLUSIVE    *)
(* through a new page, and vaVacuumCleanup's walk and truncation all end, *)
(* under fair scheduling of the backends.                                  *)
(***************************************************************************)
VacuumTerminates == vac.pc # "idle" ~> vac.pc = "idle"

=============================================================================
