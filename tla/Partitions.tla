----------------------------- MODULE Partitions -----------------------------
(* Reading a partition table and presenting a partition as a device           *)
(* (kernel/src/block/partition.rs, and validate of block/mod.rs).  The words  *)
(* of a GPT entry are whatever the disk says, so sums can pass the end of     *)
(* the word; Word stands for 2^64.  A request's length is in sectors, with    *)
(* half a sector for a length that is not a whole number of them.             *)
EXTENDS Naturals, Sequences

CONSTANTS
    Word,          \* 2^64
    DiskSectors,   \* sector_count of the disk
    MaxRequest     \* bound: sectors of one request

ASSUME PartitionsAssumption ==
    /\ Word \in Nat \ {0}
    /\ DiskSectors \in 0 .. Word - 1
    /\ MaxRequest \in Nat

Number == 0 .. Word - 1
\* Lengths in half sectors.
Length == 0 .. 2 * MaxRequest

VARIABLES
    table,      \* what the first sectors of the disk hold
    views,      \* read's partitions that PartitionDevice::new accepted
    reached     \* the sectors of the disk the last request reached, by view

partitionVars == <<table, views, reached>>

Entries == [used : BOOLEAN, first : Number, last : Number]
Tables ==
    [mbr : {"none", "empty", "protective", "plain"},
     gpt : {"absent", "corrupt", "good"},
     entry : Entries]

-----------------------------------------------------------------------------

\* read_mbr: an empty entry, a protective one and one of no sectors are passed
\* over.  The entry's two words are its start and its count; they are 32 bits
\* wide on a disk, and the whole range here only asks more of the checks.
ReadMbr(t) ==
    IF t.mbr = "plain" /\ t.entry.last # 0
    THEN {[start |-> t.entry.first, sectors |-> t.entry.last]}
    ELSE {}

\* read_gpt past its checks: the last sector is inclusive.  The count wraps in
\* a release build when the entry claims every sector there could be.
ReadGpt(t) ==
    IF t.entry.used /\ t.entry.first <= t.entry.last
    THEN {[start |-> t.entry.first,
           sectors |-> (t.entry.last - t.entry.first + 1) % Word]}
    ELSE {}

\* read: no signature, no partitions; a GPT that verifies hides the MBR.
ReadTable(t) ==
    CASE t.mbr = "none" -> {}
      [] t.mbr # "none" /\ t.gpt = "good" -> ReadGpt(t)
      [] OTHER -> ReadMbr(t)

\* PartitionDevice::new: checked_add, and the end is inside the disk.
Opens(p) ==
    /\ p.start + p.sectors < Word
    /\ p.start + p.sectors <= DiskSectors

\* validate: whole sectors, at least one, and all of them inside.
Valid(sectors, lba, length) ==
    /\ length # 0
    /\ length % 2 = 0
    /\ lba + length \div 2 < Word
    /\ lba + length \div 2 <= sectors

PartitionsInit ==
    /\ table \in Tables
    /\ views = {}
    /\ reached = {}

\* mount_root and crash::init open every partition the table lists.
OpenPartitions ==
    /\ views = {}
    /\ views' = {p \in ReadTable(table) : Opens(p)}
    /\ UNCHANGED <<table, reached>>

\* read, write and write_now of PartitionDevice: map, then the disk.
RequestSectors(p, lba, length) ==
    /\ Valid(p.sectors, lba, length)
    /\ reached' = {(p.start + lba + i) % Word : i \in 0 .. length \div 2 - 1}
    /\ UNCHANGED <<table, views>>

PartitionsNext ==
    \/ OpenPartitions
    \/ \E p \in views, lba \in Number, length \in Length :
           RequestSectors(p, lba, length)

PartitionsSpec == PartitionsInit /\ [][PartitionsNext]_partitionVars

-----------------------------------------------------------------------------

\* Whatever the table says, no request through a partition reaches a sector
\* outside the disk or outside the sectors the table gives the partition, and
\* none reaches the disk through a protective entry or an unverified GPT.
RequestsInside ==
    reached # {} =>
        /\ \A s \in reached : s < DiskSectors /\ table.entry.first <= s
        /\ table.mbr = "plain" \/ table.gpt = "good"
        /\ table.mbr # "none" /\ table.gpt = "good" =>
               \A s \in reached : s <= table.entry.last

=============================================================================
