--------------------------------- MODULE Fs ---------------------------------
(***************************************************************************)
(* The copy-on-write file system (kernel/src/fs/mod.rs and fs/format.rs)   *)
(* over a disk with a write cache.                                         *)
(*                                                                         *)
(* FileSystem::state is a SleepMutex held for a whole operation, so an     *)
(* operation is sequential; what comes between its steps is a power cut or *)
(* a device error.  A step is one device write or one flush, with the      *)
(* memory changes around it.  A power cut keeps any part of the writes     *)
(* since the last flush, and may leave a superblock or the bitmap torn.    *)
(*                                                                         *)
(* A directory's entries fit one block and a file's contents are one block *)
(* or none: more of either repeats the same step.  Permission checks, name *)
(* checks and lookups that fail change nothing and are left out; mode is   *)
(* kept, as what set_mode_as rewrites.                                     *)
(***************************************************************************)
EXTENDS Integers, Sequences, FiniteSets, SequencesExt

CONSTANTS Name,          \* directory entries' names
          Top,           \* names operations are asked for in the root
          Dir, Within,   \* names in the root that are walked through, and to what inside
          Kinds,         \* the operations that are asked for
          Value,         \* contents of a block of file data, and modes
          Total,         \* the disk's last block: 1 is the root's first inode, the rest the data area
          MaxGeneration, \* bound on the superblock generation
          FaultAt,       \* steps at which the device may report an error
          FaultKinds,    \* operations during which it may
          MaxFaults      \* bound on those errors

ASSUME FsAssumption ==
  /\ Total \in Nat \ {0} /\ MaxGeneration \in Nat /\ MaxFaults \in Nat
  /\ Top \cup Dir \cup Within \subseteq Name /\ Top # {}
  /\ FaultKinds \subseteq Kinds /\ Kinds \subseteq {"create", "mkdir", "write", "remove", "chmod"}

\* The paths operations are asked for.
Paths == {<<n>> : n \in Top} \cup (Dir \X Within)

VARIABLES
  disk, bitmapOnDisk, super,     \* what has landed: blocks, bitmap, two superblocks
  cache, bitmapCached, superCached,  \* accepted by the device, not flushed
  mounted, generation, root, liveSlot, bitmap, retired,  \* State
  tx,                            \* the operation in progress
  faults

durable == <<disk, bitmapOnDisk, super>>
cached == <<cache, bitmapCached, superCached>>
state == <<mounted, generation, root, liveSlot, bitmap, retired>>
vars == <<durable, cached, state, tx, faults>>

\* Block numbers; 0 is "none", as in Inode::direct and DirEntry::inode.
RootStart == 1
Block == 1 .. Total
Data == Block \ {RootStart}

\* What a block can hold: an inode, a directory's entries or a file's data.
NoEntries == [n \in Name |-> 0]
Node(kind, direct, value) == [kind |-> kind, direct |-> direct, names |-> NoEntries, value |-> value]
Entries(names) == [Node("entries", << >>, 0) EXCEPT !.names = names]
Contents(v) == Node("data", << >>, v)
Junk == Node("junk", << >>, 0)

\* A superblock copy; generation -1 stands for one that fails its checksum.
SuperBlock(g, r) == [generation |-> g, root |-> r]
Torn == SuperBlock(-1, 0)

\* transact's locals: the operation, the inodes of the directories along its
\* path, the node it found there, the block of new contents, the inode that
\* replaces the one below, and the garbage list.
Idle == [pc |-> "idle", kind |-> "none", path |-> << >>, value |-> 0, dirs |-> << >>,
         existing |-> 0, fresh |-> << >>, replacement |-> 0, garbage |-> {}]

\* format() and the mount at its end.
Init ==
  /\ disk = [b \in Block |-> IF b = RootStart THEN Node("dir", << >>, 0) ELSE Junk]
  /\ bitmapOnDisk = {RootStart}
  /\ super = [s \in 0 .. 1 |-> SuperBlock(1 - s, RootStart)]
  /\ cache = << >> /\ bitmapCached = << >> /\ superCached = << >>
  /\ mounted = TRUE /\ generation = 1 /\ root = RootStart /\ liveSlot = 0
  /\ bitmap = {RootStart} /\ retired = {}
  /\ tx = Idle
  /\ faults = 0

-----------------------------------------------------------------------------
(* Reading the tree.                                                       *)

\* read_block: the device answers from its cache.
Current == cache @@ disk
Read(b) == Current[b]

\* find_entry, in the directory whose inode is block b of on, a function from
\* blocks to what they hold.
FindEntry(on, b, n) ==
  IF on[b].direct = << >> THEN 0 ELSE on[on[b].direct[1]].names[n]

\* The way resolve and rewrite go from inode r along path: way[k] is the inode
\* reached after k - 1 names, or 0.
Way(on, r, path) ==
  LET way[k \in 1 .. Len(path) + 1] ==
        IF k = 1 THEN r
        ELSE LET b == way[k - 1] IN
             IF b # 0 /\ on[b].kind = "dir" THEN FindEntry(on, b, path[k - 1]) ELSE 0
  IN  [k \in 1 .. Len(path) + 1 |-> way[k]]

\* A tree's levels of blocks: an inode and a block for every name of a path.
Levels == 2 * Max({Len(p) : p \in Paths}) + 1

\* The blocks of the tree below inode r.
Blocks(on, r) ==
  LET Below(b) == Range(on[b].direct) \cup (Range(on[b].names) \ {0})
      within[k \in 0 .. Levels] ==
        IF k = 0 THEN {r} ELSE LET w == within[k - 1] IN w \cup UNION {Below(b) : b \in w}
  IN  within[Levels]

\* What a block outside the tree holds is never read again before it is written,
\* so it need not be told apart: it is taken to be junk once a mount or a commit
\* has left it behind.
Kept(on, r) == [b \in Block |-> IF b \in Blocks(on, r) THEN on[b] ELSE Junk]

-----------------------------------------------------------------------------
(* Allocation.                                                             *)

\* The blocks is_allocated finds unmarked.
FreeBlocks == Data \ bitmap

\* allocate: the first free block of the data area.
FirstFree == CHOOSE b \in FreeBlocks : \A c \in FreeBlocks : b <= c

\* The transaction ends with an error: what it allocated stays allocated, its
\* garbage list is dropped and State::retired keeps what was retired.
Abort == tx' = Idle

\* The device answers a command of this phase with an error.
Faulty(phase) ==
  /\ phase \in FaultAt /\ tx.kind \in FaultKinds
  /\ faults < MaxFaults /\ faults' = faults + 1

\* allocate()? and write_block()?, after which the transaction is next.  A
\* write the device reports as failed may have reached it all the same.
AllocateAndWrite(content, next) ==
  /\ \/ /\ FreeBlocks = {} /\ Abort
        /\ UNCHANGED <<bitmap, cache, faults>>
     \/ /\ FreeBlocks # {}
        /\ bitmap' = bitmap \cup {FirstFree}
        /\ \/ /\ cache' = (FirstFree :> content) @@ cache
              /\ tx' = next
              /\ UNCHANGED faults
           \/ /\ Faulty("data") /\ Abort
              /\ cache' \in {cache, (FirstFree :> content) @@ cache}
  /\ UNCHANGED <<durable, bitmapCached, superCached, mounted, generation, liveSlot>>

\* A bug to be caught: only the inode is retired.
OldBlocksInodeOnly(b) == {b}

\* The blocks retire is called for: a node's contents and its inode.
OldBlocks(b) == Range(Read(b).direct) \cup {b}

-----------------------------------------------------------------------------
(* The operations.  Each begins by walking the path, and stops there, with *)
(* nothing changed, unless the node is what the operation needs.           *)

\* create_for, write_file_as, remove_as, set_mode_as: the walk, the checks and
\* the memory changes up to the first allocation.
Begin(kind, path, v) ==
  /\ mounted /\ tx = Idle /\ generation < MaxGeneration
  /\ LET way == Way(Current, root, path)
         found == Last(way)
         new == [Idle EXCEPT !.kind = kind, !.path = path, !.value = v,
                             !.dirs = Front(way), !.existing = found]
     IN  /\ \A k \in DOMAIN path : way[k] # 0 /\ Read(way[k]).kind = "dir"
         /\ \/ /\ kind = "create" /\ found = 0
               /\ tx' = [new EXCEPT !.pc = "inode"] /\ retired' = retired
            \/ /\ kind = "mkdir" /\ found = 0
               /\ tx' = [new EXCEPT !.pc = "contents"] /\ retired' = retired
            \/ /\ kind = "write" /\ found # 0 /\ Read(found).kind = "file"
               /\ tx' = [new EXCEPT !.pc = IF v = 0 THEN "inode" ELSE "contents"]
               /\ retired' = retired
            \/ /\ kind = "chmod" /\ found # 0
               /\ tx' = [new EXCEPT !.pc = "inode", !.fresh = Read(found).direct]
               /\ retired' = retired
            \/ /\ kind = "remove" /\ found # 0
               /\ Read(found).kind = "dir" => \A n \in Name : FindEntry(Current, found, n) = 0
               /\ tx' = [new EXCEPT !.pc = "entries"]
               /\ retired' = retired \cup OldBlocks(found)
  /\ UNCHANGED <<durable, cached, mounted, generation, root, liveSlot, bitmap, faults>>

\* The block a new directory starts with, or the block of a file's new contents.
WriteContents ==
  /\ tx.pc = "contents"
  /\ AllocateAndWrite(IF tx.kind = "mkdir" THEN Entries(NoEntries) ELSE Contents(tx.value),
                      [tx EXCEPT !.pc = "inode", !.fresh = <<FirstFree>>])
  /\ UNCHANGED <<root, retired>>

\* The node's inode.  write_file_as and set_mode_as list what it replaces before
\* they allocate it.
WriteInode ==
  /\ tx.pc = "inode"
  /\ LET old == Read(tx.existing)
         inode == CASE tx.kind = "create" -> Node("file", << >>, 0)
                    [] tx.kind = "mkdir"  -> Node("dir", tx.fresh, 0)
                    [] tx.kind = "write"  -> Node("file", tx.fresh, old.value)
                    [] tx.kind = "chmod"  -> Node(old.kind, tx.fresh, tx.value)
     IN  /\ AllocateAndWrite(inode, [tx EXCEPT !.pc = "entries", !.replacement = FirstFree])
         /\ retired' = CASE tx.kind = "write" -> retired \cup OldBlocks(tx.existing)
                         [] tx.kind = "chmod" -> retired \cup {tx.existing}
                         [] OTHER -> retired
  /\ UNCHANGED root

\* The directory on top of the way, with the entry replaced, added or dropped, in
\* a fresh block; its old block becomes garbage.
WriteEntries ==
  /\ tx.pc = "entries"
  /\ LET dir == Read(Last(tx.dirs))
         old == IF dir.direct = << >> THEN NoEntries ELSE Read(dir.direct[1]).names
         name == tx.path[Len(tx.dirs)]
     IN  AllocateAndWrite(Entries([old EXCEPT ![name] = tx.replacement]),
                          [tx EXCEPT !.pc = "dir", !.fresh = <<FirstFree>>,
                                     !.garbage = @ \cup Range(dir.direct)])
  /\ UNCHANGED <<root, retired>>

\* A bug to be caught: the directory's inode is updated where it is, as an early
\* version of rewrite did.
WriteDirInPlace ==
  /\ tx.pc = "dir"
  /\ LET dir == Last(tx.dirs) IN
     /\ cache' = (dir :> [Read(dir) EXCEPT !.direct = tx.fresh]) @@ cache
     /\ tx' = [tx EXCEPT !.pc = IF Len(tx.dirs) > 1 THEN "entries" ELSE "bitmap",
                         !.dirs = Front(@), !.replacement = dir]
  /\ UNCHANGED <<durable, bitmapCached, superCached, state, faults>>

\* That directory's inode, in a fresh block; then the directory above it, and
\* after the root's inode transact sets root_inode and commits.
WriteDir ==
  /\ tx.pc = "dir"
  /\ LET dir == Last(tx.dirs)
         top == Len(tx.dirs) = 1
     IN  /\ AllocateAndWrite([Read(dir) EXCEPT !.direct = tx.fresh],
              [tx EXCEPT !.pc = IF top THEN "bitmap" ELSE "entries",
                         !.dirs = Front(@), !.replacement = FirstFree,
                         !.garbage = @ \cup {dir}])
         /\ root' = IF tx'.pc = "bitmap" THEN tx'.replacement ELSE root
  /\ UNCHANGED retired

-----------------------------------------------------------------------------
(* commit, and what transact does after it.                                *)

CommitFails == Faulty("commit") /\ Abort

\* A bug to be caught: the bitmap on disk already gives up the old tree's blocks.
SavedReleased == bitmap \ (tx.garbage \cup retired)

\* The bitmap commit writes: in it the blocks of both trees are marked.
Saved == bitmap

\* The write of the bitmap.
WriteBitmap ==
  /\ tx.pc = "bitmap"
  /\ \/ /\ tx' = [tx EXCEPT !.pc = "flush"] /\ bitmapCached' = <<Saved>> /\ UNCHANGED faults
     \/ /\ CommitFails /\ bitmapCached' \in {bitmapCached, <<Saved>>}
  /\ UNCHANGED <<durable, cache, superCached, state>>

\* The device's flush: everything it accepted lands (disk is in the actions).
Flush ==
  /\ bitmapOnDisk' = IF bitmapCached = << >> THEN bitmapOnDisk ELSE bitmapCached[1]
  /\ super' = superCached @@ super
  /\ cache' = << >> /\ bitmapCached' = << >> /\ superCached' = << >>

\* A bug to be caught: no flush before the superblock is written.
FlushTreeNot ==
  /\ tx.pc = "flush"
  /\ tx' = [tx EXCEPT !.pc = "super"]
  /\ UNCHANGED <<durable, cached, state, faults>>

\* The flush that puts the new tree and the bitmap on disk.
FlushTree ==
  /\ tx.pc = "flush"
  /\ \/ /\ tx' = [tx EXCEPT !.pc = "super"] /\ Flush /\ disk' = Current /\ UNCHANGED faults
     \/ /\ CommitFails /\ UNCHANGED <<durable, cached>>
  /\ UNCHANGED state

\* commit's next_slot.
NextSlot == 1 - liveSlot

\* The write of the superblock, into the slot that is not live.
WriteSuper ==
  /\ tx.pc = "super"
  /\ generation' = generation + 1
  /\ LET written == (NextSlot :> SuperBlock(generation + 1, root)) @@ superCached IN
     \/ /\ tx' = [tx EXCEPT !.pc = "land"] /\ superCached' = written /\ UNCHANGED faults
     \/ /\ CommitFails /\ superCached' \in {superCached, written}
  /\ UNCHANGED <<durable, cache, bitmapCached, mounted, root, liveSlot, bitmap, retired>>

\* mark(block, false) for the garbage and what was retired; the root's first inode
\* lies below first_data_block and stays marked.
Released == bitmap \ ((tx.garbage \cup retired) \ {RootStart})

\* The flush that makes the superblock durable; live_slot moves, and only then are
\* the blocks the old tree had to itself released.
FlushSuper ==
  /\ tx.pc = "land"
  /\ \/ /\ Flush /\ disk' = Kept(Current, root)
        /\ tx' = Idle /\ liveSlot' = NextSlot
        /\ bitmap' = Released /\ retired' = {}
        /\ UNCHANGED faults
     \/ /\ CommitFails /\ UNCHANGED <<durable, cached, liveSlot, bitmap, retired>>
  /\ UNCHANGED <<mounted, generation, root>>

-----------------------------------------------------------------------------
(* Power cuts and mounting.                                                *)

\* Any of the writes since the last flush may have landed.  A superblock may be
\* torn; a torn bitmap is a mixture of the old and the new, whose extremes are
\* their intersection and their union.
Crash ==
  /\ mounted
  /\ \E landed \in SUBSET DOMAIN cache :
       disk' = [b \in Block |-> IF b \in landed THEN cache[b] ELSE disk[b]]
  /\ IF bitmapCached = << >> THEN UNCHANGED bitmapOnDisk
     ELSE bitmapOnDisk' \in {bitmapOnDisk, bitmapCached[1],
                             bitmapOnDisk \cap bitmapCached[1], bitmapOnDisk \cup bitmapCached[1]}
  /\ super' \in {super} \cup UNION {{[super EXCEPT ![s] = superCached[s]], [super EXCEPT ![s] = Torn]} :
                                      s \in DOMAIN superCached}
  /\ cache' = << >> /\ bitmapCached' = << >> /\ superCached' = << >>
  /\ mounted' = FALSE /\ generation' = 0 /\ root' = 0 /\ liveSlot' = 0 /\ bitmap' = {} /\ retired' = {}
  /\ tx' = Idle
  /\ UNCHANGED faults

\* A bug to be caught: the copy with the older generation is chosen.
WinnerOlder == IF super[0].generation <= super[1].generation THEN 0 ELSE 1

\* mount's choice: the newer generation, a torn copy never.
Winner == IF super[0].generation >= super[1].generation THEN 0 ELSE 1

\* mount; NotFormatted when both copies are torn.
Mount ==
  /\ ~mounted /\ super[Winner] # Torn
  /\ mounted' = TRUE
  /\ generation' = super[Winner].generation /\ root' = super[Winner].root
  /\ liveSlot' = Winner /\ bitmap' = bitmapOnDisk /\ retired' = {}
  /\ disk' = Kept(disk, root')
  /\ UNCHANGED <<bitmapOnDisk, super, cached, tx, faults>>

\* The values an operation is asked with: only a write and a chmod have one, and a
\* chmod to the default mode 0 is not asked for.
Asked(kind) == CASE kind = "write" -> Value [] kind = "chmod" -> Value \ {0} [] OTHER -> {0}

Next ==
  \/ \E kind \in Kinds, path \in Paths : \E v \in Asked(kind) : Begin(kind, path, v)
  \/ WriteContents \/ WriteInode \/ WriteEntries \/ WriteDir
  \/ WriteBitmap \/ FlushTree \/ WriteSuper \/ FlushSuper
  \/ Crash \/ Mount

Spec == Init /\ [][Next]_vars

-----------------------------------------------------------------------------
(* Properties.                                                             *)

\* What read_file_as, list_as, stat_as and owner_as find at path p.
Shown(on, r, p) ==
  LET b == Last(Way(on, r, p)) IN
  IF b = 0 THEN [kind |-> "absent", mode |-> 0, data |-> 0]
  ELSE [kind |-> on[b].kind, mode |-> on[b].value,
        data |-> IF on[b].kind # "file" \/ on[b].direct = << >> THEN 0
                 ELSE LET c == on[on[b].direct[1]] IN IF c.kind = "data" THEN c.value ELSE -1]

Tree(on, r) == [p \in Paths |-> Shown(on, r, p)]

\* The tree a mount would find if the power went now and nothing cached landed.
LiveRoot == super[Winner].root
OnDisk == Tree(disk, LiveRoot)

\* "Nothing reachable from the live superblock is written": no write the device
\* has accepted since the last flush is to a block of the tree a mount would find,
\* nor, until a commit has failed, to the superblock it would choose.
NothingLiveWritten ==
  /\ DOMAIN cache \cap Blocks(disk, LiveRoot) = {}
  /\ faults = 0 => Winner \notin DOMAIN superCached

\* A live block is never free: every block of the tree on disk is marked in the
\* bitmap on disk, which is what the next mount allocates by, and in the bitmap of
\* the mounted file system; so is every block of the tree in use.
LiveBlocksMarked ==
  /\ Blocks(disk, LiveRoot) \subseteq bitmapOnDisk
  /\ mounted => Blocks(disk, LiveRoot) \cup Blocks(Current, root) \subseteq bitmap

\* The tree a mount would find is whole: an entry names an inode, a directory's
\* block holds entries and a file's holds data, whatever failed or was cut off
\* before.
TreeIntact ==
  \A b \in Blocks(disk, LiveRoot) :
    LET n == disk[b]
        Hold(bs, kinds) == \A c \in bs : disk[c].kind \in kinds
    IN  CASE n.kind = "dir"     -> Hold(Range(n.direct), {"entries"})
          [] n.kind = "file"    -> Hold(Range(n.direct), {"data"})
          [] n.kind = "entries" -> Hold(Range(n.names) \ {0}, {"dir", "file"})
          [] OTHER              -> n.kind = "data"

\* What is on disk changes by whole operations, power cuts and torn superblocks
\* included: commit is atomic.  (After a device error during a commit the next one
\* takes the failed operation with it, so this is the store until then.)
Disk == INSTANCE Store WITH tree <- OnDisk
ChangesWhole == Disk!StoreInit /\ [][faults' = 0 => Disk!StoreNext]_OnDisk

\* An operation that returned Ok is on disk, so a power cut does not take it back,
\* and its commit has given back every block that only the old tree had, the root's
\* first inode excepted.
CommitLands ==
  [][ tx.pc = "land" /\ liveSlot' # liveSlot /\ mounted' /\ faults = 0
        => /\ Disk!Do(tx.kind, tx.path, tx.value)
           /\ (Blocks(disk, LiveRoot) \ Blocks(disk, LiveRoot)') \cap bitmap' \subseteq {RootStart} ]_vars
=============================================================================
