---------------------------- MODULE DeviceProofs ----------------------------
(***************************************************************************)
(* Disks and the network daemon: requests stay inside their partition, a   *)
(* crash record survives, a frame leaves once, a lookup is answered once   *)
(* and what is referred to stays mapped, for every value of the constants. *)
(***************************************************************************)
EXTENDS Crash, Buffers, Lookups, FiniteSetTheorems, WellFoundedInduction, TLAPS

\* The time each leaf is given.
USE SMTT(30), ZenonT(30)

\* A loop over slots from the first stops at the least that will do.
LEMMA LeastSlot ==
  ASSUME NEW S, S \subseteq Nat, S # {}
  PROVE  (CHOOSE s \in S : \A t \in S : s <= t) \in S
<1> DEFINE Less == {ss \in Nat \X Nat : ss[1] < ss[2]}
<1>1. IsWellFoundedOn(Less, Nat)
  BY NatLessThanWellFounded, Zenon DEF OpToRel
<1> HIDE DEF Less
<1>2. PICK s \in S : \A t \in S : ~(<<t, s>> \in Less)
  BY <1>1, WFMin, Zenon
<1>3. \A t \in S : s <= t
  <2> SUFFICES ASSUME NEW t \in S PROVE s <= t
    BY Zenon
  <2>1. ~(t < s)
    BY <1>2, Zenon DEF Less
  <2>2. s \in Nat /\ t \in Nat
    BY Zenon
  <2> QED
    BY <2>1, <2>2, SMT
<1> QED
  BY <1>3, Zenon

-----------------------------------------------------------------------------
(* RequestsInside for any width of the word and any disk.                    *)

\* A partition that was opened is what the table says and ends inside the disk.
PartitionsInv ==
    /\ table \in Tables
    /\ views \subseteq {p \in ReadTable(table) : Opens(p)}
    /\ RequestsInside

\* A number below the word does not wrap.
LEMMA NoWrap ==
    ASSUME NEW n \in Nat, n < Word
    PROVE  n % Word = n
  BY PartitionsAssumption

\* An opened partition begins where its entry does, its count is a number, and the
\* entry is a plain MBR's or a verified GPT's, whose last sector it does not pass.
LEMMA OpenedView ==
    ASSUME NEW t \in Tables, NEW p \in ReadTable(t), Opens(p)
    PROVE  /\ p.start = t.entry.first /\ p.start \in Nat /\ p.sectors \in Nat
           /\ t.mbr = "plain" \/ t.gpt = "good"
           /\ t.mbr # "none" /\ t.gpt = "good" /\ p.sectors # 0 =>
                  p.start + p.sectors = t.entry.last + 1
<1> USE PartitionsAssumption DEF Tables, Entries, Number, ReadTable
<1>1. CASE t.mbr # "none" /\ t.gpt = "good"
  <2>1. /\ t.entry.used /\ t.entry.first <= t.entry.last
        /\ p = [start |-> t.entry.first,
                sectors |-> (t.entry.last - t.entry.first + 1) % Word]
    BY <1>1, Zenon DEF ReadGpt
  <2> DEFINE count == t.entry.last - t.entry.first + 1
  <2>2. count \in Nat /\ count <= Word
    BY <2>1
  <2>3. CASE count = Word
    <3>1. count % Word = 0
      BY <2>3
    <3> QED
      BY <1>1, <2>1, <3>1
  <2>4. CASE count < Word
    <3>1. count % Word = count
      BY <2>2, <2>4, NoWrap, Zenon
    <3> QED
      BY <1>1, <2>1, <2>2, <3>1
  <2> QED
    BY <2>2, <2>3, <2>4
<1>2. CASE t.mbr # "none" /\ t.gpt # "good"
  BY <1>2 DEF ReadMbr
<1>3. CASE t.mbr = "none"
  BY <1>3, Zenon
<1> QED
  BY <1>1, <1>2, <1>3, Zenon

\* A request that validate accepts reaches sectors of its partition only, and the sum
\* of start and lba does not wrap.
LEMMA RequestKeeps ==
    ASSUME PartitionsInv, NEW p \in views, NEW lba \in Number, NEW length \in Length,
           RequestSectors(p, lba, length)
    PROVE  PartitionsInv'
<1> USE PartitionsAssumption
<1>1. p \in ReadTable(table) /\ Opens(p) /\ table \in Tables
  BY Zenon DEF PartitionsInv
<1>2. /\ p.start = table.entry.first /\ p.start \in Nat /\ p.sectors \in Nat
      /\ table.mbr = "plain" \/ table.gpt = "good"
      /\ table.mbr # "none" /\ table.gpt = "good" /\ p.sectors # 0 =>
             p.start + p.sectors = table.entry.last + 1
  BY <1>1, OpenedView, Zenon
<1>3. length \div 2 \in Nat /\ lba \in Nat /\ lba + length \div 2 <= p.sectors
  BY DEF RequestSectors, Valid, Length, Number
<1>4. ASSUME NEW i \in 0 .. length \div 2 - 1
      PROVE  /\ (p.start + lba + i) % Word = p.start + lba + i
             /\ p.start + lba + i < p.start + p.sectors
  <2>1. p.start + lba + i \in Nat /\ p.start + lba + i < p.start + p.sectors
    BY <1>2, <1>3
  <2>2. p.start + lba + i < Word
    BY <1>1, <1>2, <2>1 DEF Opens
  <2> QED
    BY <2>1, <2>2, NoWrap, Zenon
<1>5. ASSUME NEW s \in reached'
      PROVE  /\ s \in Nat /\ p.sectors # 0
             /\ table.entry.first <= s /\ s < p.start + p.sectors /\ s < DiskSectors
  <2>1. PICK i \in 0 .. length \div 2 - 1 : s = p.start + lba + i
    BY <1>4, Zenon DEF RequestSectors
  <2> QED
    BY <1>1, <1>2, <1>3, <1>4, <2>1 DEF Opens
<1>6. table.mbr # "none" /\ table.gpt = "good" => \A s \in reached' : s <= table.entry.last
  <2> SUFFICES ASSUME table.mbr # "none", table.gpt = "good", NEW s \in reached'
               PROVE  s <= table.entry.last
    BY Zenon
  <2>1. table.entry.last \in Nat
    BY <1>1 DEF Tables, Entries, Number
  <2> QED
    BY <1>2, <1>5, <2>1
<1>7. table' = table /\ views' = views
  BY Zenon DEF RequestSectors
<1>8. RequestsInside'
  BY <1>2, <1>5, <1>6, <1>7, Zenon DEF RequestsInside
<1> QED
  BY <1>7, <1>8, Zenon DEF PartitionsInv

\* Whatever a disk's first sectors hold, a request through a partition stays inside
\* the disk and inside the entry the partition was read from (PartitionDevice::new,
\* validate and map), although the words it adds may wrap.
THEOREM RequestsStayInside == PartitionsSpec => []RequestsInside
<1>1. PartitionsInit => PartitionsInv
  BY Zenon DEF PartitionsInit, PartitionsInv, RequestsInside
<1>2. PartitionsInv /\ [PartitionsNext]_partitionVars => PartitionsInv'
  <2> SUFFICES ASSUME PartitionsInv, [PartitionsNext]_partitionVars PROVE PartitionsInv'
    BY Zenon
  <2>1. CASE OpenPartitions
    BY <2>1, Zenon DEF OpenPartitions, PartitionsInv, RequestsInside
  <2>2. CASE \E p \in views, lba \in Number, length \in Length : RequestSectors(p, lba, length)
    BY <2>2, RequestKeeps, Zenon
  <2>3. CASE UNCHANGED partitionVars
    BY <2>3, Zenon DEF partitionVars, PartitionsInv, RequestsInside
  <2> QED
    BY <2>1, <2>2, <2>3, Zenon DEF PartitionsNext
<1>3. PartitionsInv => RequestsInside
  BY Zenon DEF PartitionsInv
<1> QED
  BY <1>1, <1>2, <1>3, PTL DEF PartitionsSpec
----------------------------------------------------------------------------
(* The crash record.                                                       *)

Saving == saveStep \in {"text", "header", "flush"}

\* The steps of save run in order and against no other writer: whoever reports has
\* stopped the boot before it could clear, and a report under way is not the one kept.
SaveInv ==
  /\ bootPhase = "off" => saveStep = "none"
  /\ \A c \in CrashCpu : crashCpu[c] = "reports" => panicking
  /\ Saving => kept # report
  /\ Saving => bootPhase = "running" \/ crashCpu[BootCpu] # "runs"
  /\ saveStep \in {"header", "flush"} => \A s \in TextSector : written[s] = report
  /\ saveStep = "flush" => written["header"] = report

CrashInv ==
  /\ medium \in [Sector -> Nat] /\ written \in [Sector -> Nat]
  /\ crashCpu \in [CrashCpu -> {"runs", "reports", "halted"}]
  /\ report \in Nat /\ kept \in 0..report
  /\ SaveInv
  /\ bootPhase \in {"probing", "found", "header", "text", "cleared"} => shown = BlankSector
  /\ shown # BlankSector => \A s \in TextSector : readText[s] = shown
  /\ kept # BlankSector /\ kept = report =>
       \A s \in Sector : medium[s] = kept /\ written[s] = kept

\* The drive and the power.
LEMMA DriveKeeps ==
  ASSUME CrashInv, PowerCut \/ \E s \in Sector : Lands(s)
  PROVE  CrashInv'
<1>1. ASSUME NEW s \in Sector, Lands(s) PROVE CrashInv'
  <2>1. /\ medium' = [medium EXCEPT ![s] = written[s]]
        /\ UNCHANGED <<written, bootVars, panicVars, kept>>
    BY <1>1, Zenon DEF Lands
  <2> QED
    BY <2>1, Zenon DEF CrashInv, SaveInv, Saving, bootVars, panicVars
<1>2. CASE PowerCut
  <2>1. crashCpu' \in [CrashCpu -> {"runs", "reports", "halted"}]
    BY <1>2, Zenon DEF PowerCut
  <2> QED
    BY <1>2, <2>1, Zenon DEF PowerCut, CrashInv, SaveInv, Saving
<1> QED
  BY <1>1, <1>2, Zenon

\* init and take_previous write only the header, and only while nobody saves.
LEMMA BootKeeps ==
  ASSUME CrashInv,
         Boots \/ FindArea \/ ReadHeader \/ ReadText \/ ReadFails \/ Clear \/ ShowPrevious
  PROVE  CrashInv'
<1>1. CASE Boots
  BY <1>1, Zenon DEF Boots, CrashInv, SaveInv, Saving, panicVars, diskVars
<1>2. CASE FindArea \/ ReadHeader \/ ReadText \/ ReadFails \/ Clear \/ ShowPrevious
  <2>1. ~Saving
    BY <1>2, Zenon DEF FindArea, ReadHeader, ReadText, ReadFails, Clear, ShowPrevious, Running, CrashInv,
                SaveInv
  <2>2. UNCHANGED panicVars /\ bootPhase' # "off"
    BY <1>2, Zenon DEF FindArea, ReadHeader, ReadText, ReadFails, Clear, ShowPrevious
  <2>3. SaveInv'
    BY <2>1, <2>2, Zenon DEF CrashInv, SaveInv, Saving, panicVars
  <2>4. CASE FindArea \/ ReadHeader \/ ReadText \/ ReadFails
    BY <2>2, <2>3, <2>4, Zenon DEF FindArea, ReadHeader, ReadText, ReadFails, CrashInv, panicVars, diskVars
  <2>5. CASE Clear
    <3>1. written' \in [Sector -> Nat]
      BY <2>5 DEF Clear, CrashInv, BlankSector
    <3>2. /\ UNCHANGED <<medium, readText, shown, crashCpu, report>> /\ kept' = BlankSector
          /\ shown = BlankSector
      BY <2>5, Zenon DEF Clear, CrashInv, panicVars
    <3>3. kept' \in 0..report'
      BY <3>2 DEF CrashInv, BlankSector
    <3> QED
      BY <2>3, <3>1, <3>2, <3>3, Zenon DEF CrashInv
  <2>6. CASE ShowPrevious
    BY <2>2, <2>3, <2>6, Zenon DEF ShowPrevious, CrashInv, panicVars, Verifies
  <2> QED
    BY <1>2, <2>4, <2>5, <2>6, Zenon
<1> QED
  BY <1>1, <1>2, Zenon

\* A panic begins a report that is none of those before; a processor that halts
\* changes nothing else.
LEMMA PanicKeeps ==
  ASSUME CrashInv, NEW c \in CrashCpu, Panic(c) \/ Nmi(c)
  PROVE  CrashInv'
<1>1. CASE UNCHANGED report
  <2>1. /\ UNCHANGED <<diskVars, bootVars, panicking, report, saveStep, kept>>
        /\ crashCpu' = [crashCpu EXCEPT ![c] = "halted"]
    BY <1>1 DEF Panic, Nmi, CrashInv
  <2> QED
    BY <2>1 DEF CrashInv, SaveInv, Saving, diskVars, bootVars
<1>2. CASE report' # report
  <2>1. /\ UNCHANGED <<diskVars, bootVars, kept>> /\ Up
        /\ Running(c) /\ panicking'
        /\ crashCpu' = [crashCpu EXCEPT ![c] = "reports"]
        /\ report' = report + 1 /\ saveStep' \in {"text", "none"}
    <3>1. /\ Panic(c) /\ ~panicking
      BY <1>2, Zenon DEF Panic, Nmi
    <3>2. /\ UNCHANGED <<diskVars, bootVars, kept>> /\ panicking'
          /\ crashCpu' = [crashCpu EXCEPT ![c] = "reports"]
          /\ report' = report + 1 /\ saveStep' \in {"text", "none"}
      BY <3>1, Zenon DEF Panic
    <3>3. crashCpu[c] # "reports"
      BY <3>1, Zenon DEF CrashInv, SaveInv
    <3>4. Running(c) /\ Up
      BY <3>1, <3>3, Zenon DEF Panic, Running
    <3> QED
      BY <3>2, <3>4, Zenon
  <2>2. bootPhase' = "running" \/ crashCpu'[BootCpu] # "runs"
    BY <2>1, Zenon DEF Running, CrashInv, bootVars, Up
  <2>3. kept' \in 0..report' /\ report' \in Nat /\ kept' # report'
    BY <2>1 DEF CrashInv
  <2>4. crashCpu' \in [CrashCpu -> {"runs", "reports", "halted"}]
    BY <2>1, Zenon DEF CrashInv
  <2>5. SaveInv'
    BY <2>1, <2>2, <2>3, Zenon DEF SaveInv, Saving, bootVars, Up
  <2> QED
    BY <2>1, <2>3, <2>4, <2>5, Zenon DEF CrashInv, diskVars, bootVars
<1> QED
  BY <1>1, <1>2, Zenon

\* save: the text is in place before the header is, and both before it returns Ok.
LEMMA SaveKeeps ==
  ASSUME CrashInv,
         \/ \E s \in TextSector : WriteText(s)
         \/ FlushText \/ WriteHeader \/ FlushHeader \/ SaveFails
  PROVE  CrashInv'
<1>1. ASSUME NEW s \in TextSector, WriteText(s) PROVE CrashInv'
  BY <1>1, Zenon DEF WriteText, CrashInv, SaveInv, Saving, bootVars, panicVars, Sector
<1>2. CASE FlushText
  BY <1>2, Zenon DEF FlushText, CrashInv, SaveInv, Saving, bootVars
<1>3. CASE WriteHeader
  BY <1>3, Zenon DEF WriteHeader, CrashInv, SaveInv, Saving, bootVars, Sector
<1>4. CASE FlushHeader
  BY <1>4 DEF FlushHeader, CrashInv, SaveInv, Saving, bootVars, Sector
<1>5. CASE SaveFails
  BY <1>5, Zenon DEF SaveFails, CrashInv, SaveInv, Saving, bootVars, diskVars
<1> QED
  BY <1>1, <1>2, <1>3, <1>4, <1>5, Zenon

\* However the power goes and whoever panics when, a report whose save returned Ok is on
\* the drive until a boot has read it or a later panic writes over it, and what a boot
\* shows is one report read whole (crash.rs, save and take_previous); and meanwhile
\* requests through partitions stay inside them.
THEOREM RecordsStaySafe == PartitionsSpec /\ CrashSpec => []RecordsSafe
<1>1. CrashInit => CrashInv
  BY DEF CrashInit, CrashInv, SaveInv, Saving, Sector, BlankSector
<1>2. CrashInv /\ [CrashNext]_crashVars => CrashInv'
  <2>1. ASSUME CrashInv, UNCHANGED crashVars PROVE CrashInv'
    BY <2>1, Zenon DEF crashVars, CrashInv, SaveInv, Saving
  <2>2. ASSUME CrashInv, CrashNext PROVE CrashInv'
    BY <2>2, DriveKeeps, BootKeeps, PanicKeeps, SaveKeeps, Zenon DEF CrashNext
  <2> QED
    BY <2>1, <2>2, Zenon
<1>3. CrashInv => RecordKept
  BY Zenon DEF CrashInv, RecordKept
<1>4. RequestsInside /\ RecordKept => RecordsSafe
  BY Zenon DEF RecordsSafe
<1> QED
  BY <1>1, <1>2, <1>3, <1>4, RequestsStayInside, PTL DEF CrashSpec

----------------------------------------------------------------------------
(* The network daemon's table of mapped buffers.                           *)

Named == Buffer \cup {NoBuffer}

\* The daemon may still read or write b.
Uses(b) ==
  \/ b \in {lookupBase, stream.base, stream.flight}
  \/ \E p \in Port : bindings[p] = b \/ listeners[p] = b

\* A connection that is not open has no flight, so refers_to need not look at it.
BuffersInv ==
  /\ mappings \in [1..Mappings -> Named]
  /\ bindings \in [Port -> Named] /\ listeners \in [Port -> Named]
  /\ stream \in [base : Named, flight : Named] /\ lookupBase \in Named
  /\ stream.base = NoBuffer => stream.flight = NoBuffer
  /\ BuffersStayMapped

\* mapping() leaves its buffer in the table, and every one that is referred to.
LEMMA MappingKeeps ==
  ASSUME BuffersInv, NEW b \in Buffer, Mapping(b)
  PROVE  /\ mappings' \in [1..Mappings -> Named] /\ Mapped(b)'
         /\ \A x \in Buffer : RefersTo(x) /\ Mapped(x) => Mapped(x)'
<1> USE BuffersAssumption DEF NoBuffer
<1>1. CASE Mapped(b) /\ UNCHANGED mappings
  BY <1>1, Zenon DEF BuffersInv, Mapped
<1>2. CASE ~Mapped(b) /\ Room # {} /\ mappings' = [mappings EXCEPT ![First(Room)] = b]
  <2>1. DOMAIN mappings = 1..Mappings
    BY Zenon DEF BuffersInv
  <2>2. Room \subseteq 1..Mappings
    BY <2>1, Zenon DEF Room, Holding, Spare
  <2>3. First(Room) \in Room
    <3>1. Room \subseteq Nat
      BY <2>2
    <3> QED
      BY <1>2, <3>1, LeastSlot, Zenon DEF First
  <2> PICK f \in Room : f = First(Room)
    BY <2>3, Zenon
  <2>4. ASSUME NEW x \in Buffer, RefersTo(x) PROVE mappings[f] # x
    BY <2>4, Zenon DEF Room, Holding, Spare
  <2>5. /\ mappings'[f] = b /\ f \in 1..Mappings
        /\ \A s \in 1..Mappings : s # f => mappings'[s] = mappings[s]
    BY <1>2, <2>1, <2>2, Zenon
  <2>6. mappings' \in [1..Mappings -> Named] /\ DOMAIN mappings' = 1..Mappings
    BY <1>2, <2>2, Zenon DEF BuffersInv, Named
  <2> QED
    BY <2>1, <2>4, <2>5, <2>6, Zenon DEF Mapped
<1> QED
  BY <1>1, <1>2, Zenon DEF Mapping

\* What is referred to is mapped, and a reference is to one of these.
LEMMA ReferredMapped ==
  ASSUME BuffersInv, NEW b \in Buffer
  PROVE  /\ RefersTo(b) => Mapped(b)
         /\ Uses(b) => RefersTo(b)
<1>1. b # NoBuffer
  BY BuffersAssumption, Zenon DEF NoBuffer
<1>2. Uses(b) => RefersTo(b)
  BY <1>1, Zenon DEF BuffersInv, RefersTo, Uses
<1> QED
  BY <1>2, Zenon DEF BuffersInv, BuffersStayMapped, RefersTo

\* A step is safe when it keeps what was referred to in the table and what it newly
\* refers to is there.
LEMMA ReferencesKept ==
  ASSUME BuffersInv,
         mappings' \in [1..Mappings -> Named],
         bindings' \in [Port -> Named], listeners' \in [Port -> Named],
         stream' \in [base : Named, flight : Named], lookupBase' \in Named,
         stream'.base = NoBuffer => stream'.flight = NoBuffer,
         \A x \in Buffer : RefersTo(x) => Mapped(x)',
         \A x \in Buffer : Uses(x)' => RefersTo(x) \/ Mapped(x)'
  PROVE  BuffersInv'
<1>1. \A x \in Buffer : Uses(x)' => Mapped(x)'
  BY Zenon
<1>2. BuffersStayMapped'
  BY <1>1, Zenon DEF BuffersStayMapped, Uses
<1> QED
  BY <1>2, Zenon DEF BuffersInv

\* Every call that names a buffer goes through mapping(); the others only let go.
LEMMA BuffersNextKeeps ==
  ASSUME BuffersInv, BuffersNext
  PROVE  BuffersInv'
<1> USE BuffersAssumption DEF NoBuffer
<1>t. /\ mappings \in [1..Mappings -> Named]
      /\ bindings \in [Port -> Named] /\ listeners \in [Port -> Named]
      /\ stream \in [base : Named, flight : Named] /\ lookupBase \in Named
      /\ stream.base = NoBuffer => stream.flight = NoBuffer
  BY Zenon DEF BuffersInv
<1>r. \A x \in Buffer :
        /\ RefersTo(x) => Mapped(x)
        /\ Uses(x) => RefersTo(x)
  BY ReferredMapped, Zenon
<1>m. ASSUME NEW b \in Buffer, Mapping(b)
      PROVE  /\ mappings' \in [1..Mappings -> Named] /\ Mapped(b)' /\ b \in Named
             /\ \A x \in Buffer : RefersTo(x) => Mapped(x)'
  BY <1>m, <1>r, MappingKeeps, Zenon DEF Named
<1>n. NoBuffer \in Named
  BY Zenon DEF Named
<1>u. ASSUME UNCHANGED mappings
      PROVE  \A x \in Buffer : RefersTo(x) => Mapped(x)'
  BY <1>r, <1>u, Zenon DEF Mapped
<1>1. ASSUME NEW b \in Buffer, MappingRefused(b) PROVE BuffersInv'
  <2>1. DOMAIN mappings = 1..Mappings
    BY <1>t, Zenon
  <2>2. Room \subseteq 1..Mappings
    BY <2>1, Zenon DEF Room, Holding, Spare
  <2>3. First(Room) \in Room
    <3>1. Room \subseteq Nat /\ Room # {}
      BY <1>1, <2>2 DEF MappingRefused
    <3> QED
      BY <3>1, LeastSlot, Zenon DEF First
  <2> PICK f \in Room : f = First(Room)
    BY <2>3, Zenon
  <2>4. mappings' = [mappings EXCEPT ![f] = NoBuffer]
    BY <1>1, Zenon DEF MappingRefused
  <2>5. ASSUME NEW x \in Buffer, RefersTo(x) PROVE Mapped(x)'
    <3>1. mappings[f] # x
      BY <2>5, Zenon DEF Room, Holding, Spare
    <3>2. PICK s \in 1..Mappings : mappings[s] = x
      BY <1>r, <2>1, <2>5, Zenon DEF Mapped
    <3>3. mappings'[s] = x /\ s \in DOMAIN mappings'
      BY <1>t, <2>4, <3>1, <3>2, Zenon
    <3> QED
      BY <3>3, Zenon DEF Mapped
  <2>6. mappings' \in [1..Mappings -> Named]
    BY <1>n, <1>t, <2>2, <2>4, Zenon
  <2>7. UNCHANGED <<bindings, listeners, stream, lookupBase>>
    BY <1>1, Zenon DEF MappingRefused
  <2> QED
    <3>1. \A x \in Buffer : Uses(x)' => RefersTo(x)
      BY <1>r, <2>7, Zenon DEF Uses
    <3> QED
      BY <1>t, <2>5, <2>6, <2>7, <3>1, ReferencesKept, Zenon
<1>2. ASSUME NEW b \in Buffer, NEW p \in Port, BindBuffer(p, b) \/ Listen(p, b)
      PROVE  BuffersInv'
  <2>1. Mapping(b) /\ UNCHANGED <<stream, lookupBase>>
    BY <1>2, Zenon DEF BindBuffer, Listen
  <2>2. \/ bindings' = [bindings EXCEPT ![p] = b] /\ UNCHANGED listeners
        \/ listeners' = [listeners EXCEPT ![p] = b] /\ UNCHANGED bindings
    BY <1>2, Zenon DEF BindBuffer, Listen
  <2>3. bindings' \in [Port -> Named] /\ listeners' \in [Port -> Named]
    BY <1>m, <1>t, <2>1, <2>2, Zenon
  <2>4. \A q \in Port : /\ bindings'[q] = bindings[q] \/ bindings'[q] = b
                        /\ listeners'[q] = listeners[q] \/ listeners'[q] = b
    BY <1>t, <2>2, Zenon
  <2>5. ASSUME NEW x \in Buffer, Uses(x)'
        PROVE  RefersTo(x) \/ Mapped(x)'
    BY <1>m, <1>r, <2>1, <2>4, <2>5, Zenon DEF Uses
  <2> QED
    BY <1>m, <1>t, <2>1, <2>3, <2>5, ReferencesKept, Zenon
<1>3. ASSUME NEW b \in Buffer, ConnectWith(b) \/ SendFrom(b) \/ ResolveWith(b) \/ SendUdp(b)
      PROVE  BuffersInv'
  <2>1. Mapping(b) /\ UNCHANGED <<bindings, listeners>>
    BY <1>3, Zenon DEF ConnectWith, SendFrom, ResolveWith, SendUdp
  <2>2. /\ stream' \in [base : Named, flight : Named] /\ lookupBase' \in Named
        /\ stream'.base = NoBuffer => stream'.flight = NoBuffer
        /\ {lookupBase', stream'.base, stream'.flight} \subseteq
             {lookupBase, stream.base, stream.flight, b, NoBuffer}
    <3>1. b \in Named /\ b # NoBuffer
      BY Zenon DEF Named
    <3>2. stream = Unopened \/ stream.base # NoBuffer
      BY <1>t, Zenon DEF Unopened
    <3> QED
      BY <1>3, <1>n, <1>t, <3>1, <3>2, Zenon DEF ConnectWith, SendFrom, ResolveWith, SendUdp, Unopened
  <2>3. ASSUME NEW x \in Buffer, Uses(x)'
        PROVE  RefersTo(x) \/ Mapped(x)'
    BY <1>m, <1>r, <2>1, <2>2, <2>3, Zenon DEF Uses
  <2> QED
    BY <1>m, <1>t, <2>1, <2>2, <2>3, ReferencesKept, Zenon
<1>4. ASSUME NEW p \in Port, AcceptOn(p) PROVE BuffersInv'
  <2>1. /\ UNCHANGED <<mappings, bindings, lookupBase>>
        /\ listeners[p] \in Named /\ listeners[p] # NoBuffer
        /\ stream' = [Unopened EXCEPT !.base = listeners[p]]
        /\ listeners' = [listeners EXCEPT ![p] = NoBuffer]
    BY <1>4, <1>t, Zenon DEF AcceptOn
  <2>2. /\ listeners' \in [Port -> Named]
        /\ \A q \in Port : listeners'[q] \in {listeners[q], NoBuffer}
    BY <1>n, <1>t, <2>1, Zenon
  <2>3. /\ stream' \in [base : Named, flight : Named]
        /\ stream'.base = listeners[p] /\ stream'.flight = NoBuffer
    BY <1>n, <2>1, Zenon DEF Unopened
  <2>4. ASSUME NEW x \in Buffer, Uses(x)'
        PROVE  RefersTo(x) \/ Mapped(x)'
    BY <1>r, <2>1, <2>2, <2>3, <2>4, Zenon DEF Uses
  <2>5. mappings' \in [1..Mappings -> Named] /\ bindings' \in [Port -> Named] /\ lookupBase' \in Named
    BY <1>t, <2>1, Zenon
  <2> QED
    BY <1>u, <2>1, <2>2, <2>3, <2>4, <2>5, ReferencesKept, Zenon
<1>5. ASSUME FinishStream \/ ResolveEnds PROVE BuffersInv'
  <2>1. UNCHANGED <<mappings, bindings, listeners>>
    BY <1>5, Zenon DEF FinishStream, ResolveEnds
  <2>2. /\ stream' \in [base : Named, flight : Named] /\ lookupBase' \in Named
        /\ stream'.base = NoBuffer => stream'.flight = NoBuffer
        /\ {lookupBase', stream'.base, stream'.flight} \subseteq
             {lookupBase, stream.base, stream.flight, NoBuffer}
    BY <1>5, <1>n, <1>t DEF FinishStream, ResolveEnds, Unopened
  <2>3. ASSUME NEW x \in Buffer, Uses(x)'
        PROVE  RefersTo(x) \/ Mapped(x)'
    BY <1>r, <2>1, <2>2, <2>3, Zenon DEF Uses
  <2> QED
    BY <1>t, <1>u, <2>1, <2>2, <2>3, ReferencesKept, Zenon
<1> QED
  BY <1>1, <1>2, <1>3, <1>4, <1>5, Zenon DEF BuffersNext

\* Whatever clients bind, listen on, send and look up, and however often mapping() makes
\* room, every buffer the daemon may still read or write is in its table.
THEOREM MappedWhileReferred == BuffersSpec => []BuffersStayMapped
<1>1. BuffersInit => BuffersInv
  <2> SUFFICES ASSUME BuffersInit PROVE BuffersInv
    BY Zenon
  <2>1. \A x \in Buffer : x # NoBuffer
    BY BuffersAssumption, Zenon DEF NoBuffer
  <2> QED
    BY <2>1, Zenon DEF BuffersInit, BuffersInv, BuffersStayMapped, Unopened, Named
<1>2. BuffersInv /\ [BuffersNext]_bufferVars => BuffersInv'
  <2>1. ASSUME BuffersInv, UNCHANGED bufferVars PROVE BuffersInv'
    BY <2>1, Zenon DEF bufferVars, BuffersInv, BuffersStayMapped, Mapped
  <2> QED
    BY <2>1, BuffersNextKeeps, Zenon
<1>3. BuffersInv => BuffersStayMapped
  BY Zenon DEF BuffersInv
<1> QED
  BY <1>1, <1>2, <1>3, PTL DEF BuffersSpec


-----------------------------------------------------------------------------
(* FramesLeaveOnce for any number of neighbours, entries and slots.          *)

\* A frame that waits has a number of its own, has not left, and waits for a
\* neighbour that is not in the cache.
NeighboursInv ==
  /\ mac \in [Neighbour -> Nat]
  /\ arp \in [0..(ArpEntries - 1) -> (Neighbour \cup {Nobody}) \X Nat]
  /\ arpNext \in 0..(ArpEntries - 1) /\ number \in Nat
  /\ waiting \in [1..WaitingFrames -> (Neighbour \cup {Nobody}) \X Nat]
  /\ \A f \in left : f[1] \in Nat /\ f[1] <= number
  /\ \A s \in 1..WaitingFrames : waiting[s][1] # Nobody => waiting[s][2] <= number
  /\ \A s, t \in 1..WaitingFrames :
       waiting[s][1] # Nobody /\ waiting[t][1] # Nobody /\ waiting[s][2] = waiting[t][2] => s = t
  /\ FramesLeaveOnce

\* What SendTo does to an empty slot.
LEMMA SendToKeeps ==
  ASSUME NeighboursInv, NEW d \in Neighbour \cup {Far, Everyone}, SendTo(d)
  PROVE  NeighboursInv'
<1> DEFINE hop == NextHop(d)
<1>1. number' = number + 1 /\ UNCHANGED <<mac, arp, arpNext>>
  BY Zenon DEF SendTo
<1>2. d # Everyone => hop \in Neighbour
  BY LookupsAssumption, Zenon DEF NextHop
<1>3. \A f \in left : f[1] # number'
  BY <1>1 DEF NeighboursInv
<1>4. CASE \E h, m : left' = left \cup {<<number', h, m>>} /\ UNCHANGED waiting
  <2>1. PICK h, m : left' = left \cup {<<number', h, m>>} /\ UNCHANGED waiting
    BY <1>4, Zenon
  <2>2. \A f \in left' : f \in left \/ (f = <<number', h, m>> /\ f[1] = number')
    BY <2>1
  <2>3. \A s \in 1..WaitingFrames : waiting[s][1] # Nobody => waiting[s][2] # number'
    BY <1>1 DEF NeighboursInv
  <2>4. FramesLeaveOnce'
    <3>1. \A s \in DOMAIN waiting : waiting[s][1] # Nobody =>
            Known(waiting[s][1]) = {} /\ \A f \in left' : f[1] # waiting[s][2]
      BY <2>2, <2>3, Zenon DEF NeighboursInv, FramesLeaveOnce
    <3>2. \A f, g \in left' : f[1] = g[1] => f = g
      BY <1>3, <2>2, Zenon DEF NeighboursInv, FramesLeaveOnce
    <3> QED
      BY <1>1, <2>1, <3>1, <3>2, Zenon DEF FramesLeaveOnce, Known
  <2>5. \A f \in left' : f[1] \in Nat /\ f[1] <= number'
    BY <1>1, <2>2 DEF NeighboursInv
  <2>6. \A s \in 1..WaitingFrames : waiting[s][1] # Nobody => waiting[s][2] <= number'
    BY <1>1 DEF NeighboursInv
  <2> QED
    BY <1>1, <2>1, <2>4, <2>5, <2>6 DEF NeighboursInv
<1>5. CASE UNCHANGED <<waiting, left>>
  <2>1. FramesLeaveOnce'
    BY <1>1, <1>5, Zenon DEF NeighboursInv, FramesLeaveOnce, Known
  <2> QED
    BY <1>1, <1>5, <2>1 DEF NeighboursInv
<1>6. CASE /\ hop \in Neighbour /\ Known(hop) = {} /\ UNCHANGED left
           /\ \E s \in Waiting(Nobody) : waiting' = [waiting EXCEPT ![s] = <<hop, number'>>]
  <2>1. PICK s \in 1..WaitingFrames : waiting' = [waiting EXCEPT ![s] = <<hop, number'>>]
    BY <1>6, Zenon DEF Waiting, NeighboursInv
  <2>2. \A t \in 1..WaitingFrames : waiting'[t] = (IF t = s THEN <<hop, number'>> ELSE waiting[t])
    BY <2>1, Zenon DEF NeighboursInv
  <2>3. waiting' \in [1..WaitingFrames -> (Neighbour \cup {Nobody}) \X Nat]
    <3>1. number' \in Nat
      BY <1>1 DEF NeighboursInv
    <3>2. <<hop, number'>> \in (Neighbour \cup {Nobody}) \X Nat
      BY <1>6, <3>1, Zenon
    <3> QED
      BY <2>1, <3>2, Zenon DEF NeighboursInv
  <2>4. waiting'[s][1] = hop /\ waiting'[s][2] = number'
    BY <2>2
  <2>5. \A t \in 1..WaitingFrames : t # s => waiting'[t] = waiting[t]
    BY <2>2, Zenon
  <2>6. \A t \in 1..WaitingFrames : waiting[t][1] # Nobody => waiting[t][2] # number'
    BY <1>1 DEF NeighboursInv
  <2>7. \A t \in 1..WaitingFrames : waiting'[t][1] # Nobody => waiting'[t][2] <= number'
    BY <1>1, <2>4, <2>5 DEF NeighboursInv
  <2>8. \A t, u \in 1..WaitingFrames :
          waiting'[t][1] # Nobody /\ waiting'[u][1] # Nobody /\ waiting'[t][2] = waiting'[u][2] => t = u
    <3> SUFFICES ASSUME NEW t \in 1..WaitingFrames, NEW u \in 1..WaitingFrames, t # u,
                        waiting'[t][1] # Nobody, waiting'[u][1] # Nobody
                 PROVE  waiting'[t][2] # waiting'[u][2]
      BY Zenon
    <3>1. CASE t # s /\ u # s
      <4>1. waiting'[t] = waiting[t] /\ waiting'[u] = waiting[u]
        BY <2>5, <3>1, Zenon
      <4> QED
        BY <4>1, Zenon DEF NeighboursInv
    <3>2. CASE t = s /\ u # s
      BY <2>4, <2>5, <2>6, <3>2, Zenon
    <3>3. CASE t # s /\ u = s
      BY <2>4, <2>5, <2>6, <3>3, Zenon
    <3> QED
      BY <3>1, <3>2, <3>3, Zenon
  <2>9. FramesLeaveOnce'
    <3>1. DOMAIN waiting = 1..WaitingFrames /\ DOMAIN waiting' = 1..WaitingFrames
      BY <2>3, Zenon DEF NeighboursInv
    <3>2. ASSUME NEW t \in 1..WaitingFrames, waiting'[t][1] # Nobody
          PROVE  Known(waiting'[t][1]) = {} /\ \A f \in left : f[1] # waiting'[t][2]
      <4>1. CASE t = s
        BY <1>3, <1>6, <2>4, <4>1, Zenon
      <4>2. CASE t # s
        BY <2>5, <3>1, <3>2, <4>2, Zenon DEF NeighboursInv, FramesLeaveOnce
      <4> QED
        BY <4>1, <4>2, Zenon
    <3>3. \A f, g \in left : f[1] = g[1] => f = g
      BY Zenon DEF NeighboursInv, FramesLeaveOnce
    <3> QED
      <4>1. ASSUME NEW t \in DOMAIN waiting', waiting'[t][1] # Nobody
            PROVE  Known(waiting[t][1])' = {} /\ \A f \in left' : f[1] # waiting'[t][2]
        BY <1>1, <1>6, <3>1, <3>2, <4>1, Zenon DEF Known
      <4> QED
        BY <1>6, <3>3, <4>1, Zenon DEF FramesLeaveOnce
  <2>10. number' \in Nat /\ \A f \in left : f[1] \in Nat /\ f[1] <= number'
    BY <1>1 DEF NeighboursInv
  <2> QED
    BY <1>1, <1>6, <2>3, <2>7, <2>8, <2>9, <2>10, Zenon DEF NeighboursInv
<1> QED
  <2>1. Waiting(Nobody) # {} =>
          (CHOOSE s \in Waiting(Nobody) : \A t \in Waiting(Nobody) : s <= t) \in Waiting(Nobody)
    <3>1. DOMAIN waiting = 1..WaitingFrames
      BY Zenon DEF NeighboursInv
    <3>2. Waiting(Nobody) \subseteq Nat
      BY <3>1 DEF Waiting
    <3> QED
      BY <3>2, LeastSlot, Zenon
  <2> QED
    BY <1>2, <1>4, <1>5, <1>6, <2>1, Zenon DEF SendTo

\* learn: what waits for n leaves, and n is in the cache.
LEMMA LearnKeeps ==
  ASSUME NeighboursInv, NEW n \in Neighbour, Learn(n)
  PROVE  NeighboursInv'
<1>1. /\ UNCHANGED <<mac, number>> /\ waiting' = Released(n)
      /\ left' = left \cup {<<waiting[s][2], n, mac[n]>> : s \in Waiting(n)}
  BY Zenon DEF Learn
<1>2. \A s \in 1..WaitingFrames :
        waiting'[s] = (IF waiting[s][1] = n THEN <<Nobody, 0>> ELSE waiting[s])
  BY <1>1, Zenon DEF NeighboursInv, Released
<1>3. waiting' \in [1..WaitingFrames -> (Neighbour \cup {Nobody}) \X Nat]
  BY <1>1, <1>2, Zenon DEF NeighboursInv, Released
<1>4. \A s \in 1..WaitingFrames :
        waiting'[s][1] # Nobody => waiting'[s] = waiting[s] /\ waiting[s][1] # n
  BY <1>2
<1>5. /\ arp' \in [0..(ArpEntries - 1) -> (Neighbour \cup {Nobody}) \X Nat]
      /\ arpNext' \in 0..(ArpEntries - 1)
      /\ \A e \in 0..(ArpEntries - 1) : arp'[e][1] = n \/ arp'[e] = arp[e]
  <2>1. mac[n] \in Nat
    BY Zenon DEF NeighboursInv
  <2>2. CASE Known(n) # {}
    <3>1. arp' = [e \in 0..(ArpEntries - 1) |-> IF e \in Known(n) THEN <<n, mac[n]>> ELSE arp[e]]
      BY <2>2, Zenon DEF Learn, NeighboursInv
    <3> QED
      BY <2>1, <2>2, <3>1, Zenon DEF Learn, NeighboursInv
  <2>3. CASE Known(n) = {}
    <3>1. arp' = [arp EXCEPT ![arpNext] = <<n, mac[n]>>] /\ arpNext' = (arpNext + 1) % ArpEntries
      BY <2>3, Zenon DEF Learn
    <3>2. <<n, mac[n]>> \in (Neighbour \cup {Nobody}) \X Nat /\ <<n, mac[n]>>[1] = n
      BY <2>1, Zenon
    <3>3. arpNext' \in 0..(ArpEntries - 1)
      BY <3>1, LookupsAssumption DEF NeighboursInv
    <3>4. \A e \in 0..(ArpEntries - 1) : arp'[e] = (IF e = arpNext THEN <<n, mac[n]>> ELSE arp[e])
      BY <3>1, Zenon DEF NeighboursInv
    <3>5. arp' \in [0..(ArpEntries - 1) -> (Neighbour \cup {Nobody}) \X Nat]
      BY <3>1, <3>2, Zenon DEF NeighboursInv
    <3> QED
      BY <3>2, <3>3, <3>4, <3>5, Zenon
  <2> QED
    BY <2>2, <2>3, Zenon
<1>6. \A m : m # n /\ Known(m) = {} => {e \in DOMAIN arp' : arp'[e][1] = m} = {}
  BY <1>5 DEF Known, NeighboursInv
<1>7. \A f \in left' : \/ f \in left
                       \/ \E s \in 1..WaitingFrames : /\ waiting[s][1] = n /\ f = <<waiting[s][2], n, mac[n]>>
                                                      /\ f[1] = waiting[s][2]
  <2>1. DOMAIN waiting = 1..WaitingFrames
    BY Zenon DEF NeighboursInv
  <2>2. \A s \in 1..WaitingFrames : <<waiting[s][2], n, mac[n]>>[1] = waiting[s][2]
    BY Zenon
  <2> QED
    BY <1>1, <2>1, <2>2, Zenon DEF Waiting
<1>8. n # Nobody
  BY LookupsAssumption, Zenon
<1>9. \A s \in 1..WaitingFrames : waiting[s][1] # Nobody => \A f \in left : f[1] # waiting[s][2]
  BY Zenon DEF NeighboursInv, FramesLeaveOnce
<1>10. FramesLeaveOnce'
  <2>1. DOMAIN waiting' = 1..WaitingFrames /\ DOMAIN waiting = 1..WaitingFrames
    BY <1>3, Zenon DEF NeighboursInv
  <2>2. ASSUME NEW s \in 1..WaitingFrames, waiting'[s][1] # Nobody
        PROVE  Known(waiting[s][1])' = {} /\ \A f \in left' : f[1] # waiting'[s][2]
    <3>1. waiting'[s] = waiting[s] /\ waiting[s][1] # n /\ waiting[s][1] # Nobody
      BY <1>4, <2>2, Zenon
    <3>2. Known(waiting[s][1]) = {}
      BY <2>1, <3>1, Zenon DEF NeighboursInv, FramesLeaveOnce
    <3>3. \A t \in 1..WaitingFrames : waiting[t][1] = n => waiting[t][2] # waiting[s][2]
      BY <1>8, <3>1, Zenon DEF NeighboursInv
    <3>4. \A f \in left' : f[1] # waiting[s][2]
      BY <1>7, <1>9, <3>1, <3>3, Zenon
    <3>5. {e \in DOMAIN arp' : arp'[e][1] = waiting[s][1]} = {}
      BY <1>6, <3>1, <3>2, Zenon
    <3> QED
      BY <3>1, <3>4, <3>5, Zenon DEF Known
  <2>3. ASSUME NEW f \in left', NEW g \in left', f[1] = g[1]
        PROVE  f = g
    <3>1. CASE f \in left /\ g \in left
      BY <2>3, <3>1, Zenon DEF NeighboursInv, FramesLeaveOnce
    <3>2. CASE f \in left /\ g \notin left
      BY <1>7, <1>8, <1>9, <2>3, <3>2, Zenon
    <3>3. CASE f \notin left /\ g \in left
      BY <1>7, <1>8, <1>9, <2>3, <3>3, Zenon
    <3>4. CASE f \notin left /\ g \notin left
      <4>1. PICK s \in 1..WaitingFrames :
              waiting[s][1] = n /\ f = <<waiting[s][2], n, mac[n]>> /\ f[1] = waiting[s][2]
        BY <1>7, <3>4, Zenon
      <4>2. PICK t \in 1..WaitingFrames :
              waiting[t][1] = n /\ g = <<waiting[t][2], n, mac[n]>> /\ g[1] = waiting[t][2]
        BY <1>7, <3>4, Zenon
      <4> QED
        BY <2>3, <4>1, <4>2, Zenon
    <3> QED
      BY <3>1, <3>2, <3>3, <3>4, Zenon
  <2> QED
    BY <2>1, <2>2, <2>3, Zenon DEF FramesLeaveOnce
<1>11. \A f \in left' : f[1] \in Nat /\ f[1] <= number
  <2> SUFFICES ASSUME NEW f \in left'
               PROVE  f[1] \in Nat /\ f[1] <= number
    BY Zenon
  <2>1. CASE f \in left
    BY <2>1, Zenon DEF NeighboursInv
  <2>2. CASE f \notin left
    <3>1. PICK s \in 1..WaitingFrames : waiting[s][1] = n /\ f[1] = waiting[s][2]
      BY <1>7, <2>2, Zenon
    <3>2. waiting[s][2] \in Nat
      BY Zenon DEF NeighboursInv
    <3> QED
      BY <1>8, <3>1, <3>2, Zenon DEF NeighboursInv
  <2> QED
    BY <2>1, <2>2, Zenon
<1>12. /\ \A s \in 1..WaitingFrames : waiting'[s][1] # Nobody => waiting'[s][2] <= number
       /\ \A s, t \in 1..WaitingFrames :
            waiting'[s][1] # Nobody /\ waiting'[t][1] # Nobody /\ waiting'[s][2] = waiting'[t][2] => s = t
  BY <1>4, Zenon DEF NeighboursInv
<1> QED
  BY <1>1, <1>3, <1>5, <1>10, <1>11, <1>12, Zenon DEF NeighboursInv

\* A frame waits only for a neighbour that is not in the cache, and leaves once.
LEMMA NeighboursInductive == NeighboursSpec => []NeighboursInv
<1>1. NeighboursInit => NeighboursInv
  <2> SUFFICES ASSUME NeighboursInit PROVE NeighboursInv
    BY Zenon
  <2>1. arp \in [0..(ArpEntries - 1) -> (Neighbour \cup {Nobody}) \X Nat]
    BY Zenon DEF NeighboursInit
  <2>2. \A s \in 1..WaitingFrames : waiting[s][1] = Nobody
    BY Zenon DEF NeighboursInit
  <2>3. waiting \in [1..WaitingFrames -> (Neighbour \cup {Nobody}) \X Nat] /\ left = {}
    BY Zenon DEF NeighboursInit
  <2>4. FramesLeaveOnce
    BY <2>2, <2>3, Zenon DEF FramesLeaveOnce
  <2> QED
    BY <2>1, <2>2, <2>3, <2>4, LookupsAssumption DEF NeighboursInit, NeighboursInv
<1>2. NeighboursInv /\ [NeighboursNext]_neighbourVars => NeighboursInv'
  <2> SUFFICES ASSUME NeighboursInv, [NeighboursNext]_neighbourVars PROVE NeighboursInv'
    BY Zenon
  <2>1. ASSUME NEW n \in Neighbour, Replaced(n)
        PROVE  NeighboursInv'
    <3>1. mac' \in [Neighbour -> Nat] /\ UNCHANGED <<arp, arpNext, waiting, number, left>>
      BY <2>1 DEF Replaced, NeighboursInv
    <3>2. FramesLeaveOnce'
      BY <3>1, Zenon DEF NeighboursInv, FramesLeaveOnce, Known
    <3> QED
      BY <3>1, <3>2, Zenon DEF NeighboursInv
  <2>2. CASE UNCHANGED neighbourVars
    BY <2>2, Zenon DEF neighbourVars, NeighboursInv, FramesLeaveOnce, Known
  <2> QED
    BY <2>1, <2>2, SendToKeeps, LearnKeeps, Zenon DEF NeighboursNext
<1> QED
  BY <1>1, <1>2, PTL DEF NeighboursSpec

-----------------------------------------------------------------------------
(* LeaseGranted, LookupAnswered and TimerCoversWaits for any number of       *)
(* servers, transactions, slots and lookups.                                 *)

\* A server grants only what it was asked for, and in one transaction the daemon
\* asks only the server whose offer it took.
LeaseInv ==
  /\ transaction \in Nat /\ dhcp \in {"Discovering", "Requesting", "Done"}
  /\ \A t \in Nat, v \in Server : <<"ack", t, v>> \in replies => <<t, v>> \in granted
  /\ \A t \in Nat, v \in Server : <<t, v>> \in granted => Request(t, v) \in questions
  /\ \A t \in Nat, v \in Server : Request(t, v) \in questions =>
       t < transaction \/ (t = transaction /\ dhcp # "Discovering" /\ v = offered)
  /\ LeaseGranted

\* A lookup that was asked for holds one slot until its client is told, and is
\* in none after that.
SlotsInv ==
  /\ lookup \in 0..MaxLookups
  /\ resolves \in [ResolveSlot -> [id : 0..MaxLookups, tries : Nat]]
  /\ DOMAIN told = 1..MaxLookups
  /\ \A s \in ResolveSlot : resolves[s].id <= lookup
  /\ \A s, t \in ResolveSlot : resolves[s].id # 0 /\ resolves[s].id = resolves[t].id => s = t
  /\ \A l \in 1..MaxLookups :
       \/ lookup < l /\ told[l] = {}
       \/ l <= lookup /\ told[l] = {} /\ \E s \in ResolveSlot : resolves[s].id = l
       \/ l <= lookup /\ (\E x : told[l] = {<<x, l>>}) /\ \A s \in ResolveSlot : resolves[s].id # l

LookupsInv == LeaseInv /\ SlotsInv /\ TimerCoversWaits

\* Nothing of DHCP moves.
LEMMA LeaseUnmoved ==
  ASSUME LeaseInv, UNCHANGED dhcpVars, resolving' = {} \/ dhcp # "Done", waiters6' = {} \/ ~router'
  PROVE  LeaseInv'
  BY Zenon DEF LeaseInv, LeaseGranted, dhcpVars, Request

\* No lookup is asked for or told.
LEMMA SlotsUnmoved ==
  ASSUME SlotsInv, UNCHANGED <<lookup, resolves, told>>
  PROVE  SlotsInv'
  BY Zenon DEF SlotsInv

\* The timer stays set as long as it was, and nothing new waits.
LEMMA TimerKept ==
  ASSUME TimerCoversWaits, UNCHANGED timerArmed,
         WaitingFor(dhcp, resolves, router, solicited)' => WaitingFor(dhcp, resolves, router, solicited)
  PROVE  TimerCoversWaits'
  BY Zenon DEF TimerCoversWaits

\* The timer is armed by the handler's last call.
LEMMA TimerArmed ==
  ASSUME NEW armed, ArmTimer(armed)
  PROVE  TimerCoversWaits'
  BY Zenon DEF TimerCoversWaits, ArmTimer, WaitingFor

\* What the servers send and what the daemon makes of it.
LEMMA DhcpKeeps ==
  ASSUME LookupsInv, NEW v \in Server,
         ServerReplies(v) \/ DhcpOffer(v) \/ DhcpAck(v) \/ DhcpNak(v)
  PROVE  LookupsInv'
<1>1. CASE ServerReplies(v)
  <2>1. UNCHANGED <<dhcp, transaction, offered, address, questions, resolving, routerVars, dnsVars, timerArmed>>
    BY <1>1, Zenon DEF ServerReplies
  <2>2. LeaseInv'
    <3>1. PICK t \in 1..MaxTransaction :
            \/ replies' = replies \cup {<<"offer", t, v>>} /\ UNCHANGED granted
            \/ /\ Request(t, v) \in questions
               /\ replies' = replies \cup {<<"ack", t, v>>} /\ granted' = granted \cup {<<t, v>>}
            \/ replies' = replies \cup {<<"nak", t, v>>} /\ UNCHANGED granted
      BY <1>1, Zenon DEF ServerReplies
    <3>2. \A u \in Nat, w \in Server : <<"ack", u, w>> \in replies' => <<u, w>> \in granted'
      BY <3>1 DEF LookupsInv, LeaseInv
    <3>3. \A u \in Nat, w \in Server : <<u, w>> \in granted' => Request(u, w) \in questions
      BY <3>1 DEF LookupsInv, LeaseInv
    <3>4. granted \subseteq granted'
      BY <3>1, Zenon
    <3> QED
      BY <2>1, <3>2, <3>3, <3>4, Zenon DEF LookupsInv, LeaseInv, LeaseGranted, Request, routerVars
  <2> QED
    BY <2>1, <2>2, SlotsUnmoved, TimerKept, Zenon DEF LookupsInv, dnsVars, routerVars, WaitingFor
<1>2. CASE DhcpOffer(v)
  <2>1. /\ dhcp = "Discovering" /\ offered' = v /\ dhcp' = "Requesting"
        /\ questions' = questions \cup {Request(transaction, v)}
        /\ UNCHANGED <<transaction, address, granted, replies, resolving, routerVars, dnsVars, timerArmed>>
    BY <1>2, Zenon DEF DhcpOffer
  <2>2. \A t \in Nat, w \in Server : Request(t, w) \in questions' =>
          Request(t, w) \in questions \/ (t = transaction /\ w = v)
    BY <2>1, Zenon DEF Request
  <2>3. LeaseInv'
    BY <2>1, <2>2, Zenon DEF LookupsInv, LeaseInv, LeaseGranted, Request, routerVars
  <2> QED
    BY <2>1, <2>3, SlotsUnmoved, TimerKept, Zenon DEF LookupsInv, dnsVars, routerVars, WaitingFor
<1>3. CASE DhcpAck(v)
  <2>1. /\ dhcp = "Requesting" /\ <<"ack", transaction, v>> \in replies
        /\ address' = offered /\ dhcp' = "Done" /\ resolving' = {}
        /\ UNCHANGED <<transaction, offered, granted, questions, replies, routerVars, resolves, lookup,
                       queries, told, timerArmed>>
    BY <1>3, Zenon DEF DhcpAck
  <2>2. <<transaction, v>> \in granted /\ v = offered
    BY <2>1 DEF LookupsInv, LeaseInv
  <2>3. LeaseInv'
    BY <2>1, <2>2, Zenon DEF LookupsInv, LeaseInv, LeaseGranted, Request, routerVars
  <2> QED
    BY <2>1, <2>3, SlotsUnmoved, TimerKept, Zenon DEF LookupsInv, dnsVars, routerVars, WaitingFor
<1>4. CASE DhcpNak(v)
  <2>1. /\ dhcp = "Requesting" /\ transaction' = transaction + 1 /\ dhcp' = "Discovering"
        /\ questions' = questions \cup {Discover(transaction')}
        /\ UNCHANGED <<offered, address, granted, replies, resolving, routerVars, dnsVars, timerArmed>>
    BY <1>4, Zenon DEF DhcpNak
  <2>2. \A t \in Nat, w \in Server : Request(t, w) \in questions' => Request(t, w) \in questions
    BY <2>1, Zenon DEF Request, Discover
  <2>3. \A t \in Nat, w \in Server : Request(t, w) \in questions' => t < transaction'
    BY <2>1, <2>2 DEF LookupsInv, LeaseInv
  <2>4. transaction' \in Nat
    BY <2>1 DEF LookupsInv, LeaseInv
  <2>5. questions \subseteq questions'
    BY <2>1, Zenon
  <2>6. LeaseInv'
    BY <2>1, <2>3, <2>4, <2>5, Zenon DEF LookupsInv, LeaseInv, LeaseGranted, Request, routerVars
  <2> QED
    BY <2>1, <2>6, SlotsUnmoved, TimerKept, Zenon DEF LookupsInv, dnsVars, routerVars, WaitingFor
<1> QED
  BY <1>1, <1>2, <1>3, <1>4, Zenon

\* One lookup more, in a free slot or refused at once.
LEMMA ResolveKeeps ==
  ASSUME SlotsInv, lookup < MaxLookups, lookup' = lookup + 1,
         \/ /\ UNCHANGED told
            /\ \E slot \in ResolveSlot :
                 /\ resolves[slot].id = 0
                 /\ resolves' = [resolves EXCEPT ![slot] = [id |-> lookup', tries |-> 1]]
         \/ told' = [told EXCEPT ![lookup'] = {<<"refused", lookup'>>}] /\ UNCHANGED resolves
  PROVE  SlotsInv'
<1>1. /\ lookup \in Nat /\ lookup' \in 1..MaxLookups /\ MaxLookups \in Nat /\ ~(lookup' <= lookup)
      /\ \A i \in Nat : i <= lookup => i <= lookup' /\ i # lookup'
      /\ \A l \in 1..MaxLookups : lookup < l => lookup' < l \/ l = lookup'
  BY LookupsAssumption DEF SlotsInv
<1>2. \A s \in ResolveSlot : resolves[s].id \in Nat /\ resolves[s].id <= lookup
  BY DEF SlotsInv
<1>0. \A l \in 1..MaxLookups : lookup < l => told[l] = {}
  BY DEF SlotsInv
<1>3. told[lookup'] = {}
  BY <1>0, <1>1, Zenon DEF SlotsInv
<1>4. CASE /\ UNCHANGED told
           /\ \E slot \in ResolveSlot :
                /\ resolves[slot].id = 0
                /\ resolves' = [resolves EXCEPT ![slot] = [id |-> lookup', tries |-> 1]]
  <2>1. PICK slot \in ResolveSlot :
               /\ resolves[slot].id = 0
               /\ resolves' = [resolves EXCEPT ![slot] = [id |-> lookup', tries |-> 1]]
    BY <1>4, Zenon
  <2>2. resolves' \in [ResolveSlot -> [id : 0..MaxLookups, tries : Nat]]
    BY <1>1, <2>1 DEF SlotsInv
  <2>3. \A s \in ResolveSlot : resolves'[s].id = (IF s = slot THEN lookup' ELSE resolves[s].id)
    BY <2>1, Zenon DEF SlotsInv
  <2>4. \A s \in ResolveSlot : resolves'[s].id <= lookup'
    BY <1>1, <1>2, <2>3
  <2>5. \A s, t \in ResolveSlot : resolves'[s].id # 0 /\ resolves'[s].id = resolves'[t].id => s = t
    <3> SUFFICES ASSUME NEW s \in ResolveSlot, NEW t \in ResolveSlot, s # t, resolves'[s].id # 0
                 PROVE  resolves'[s].id # resolves'[t].id
      BY Zenon
    <3>1. resolves[s].id # lookup' /\ resolves[t].id # lookup'
      BY <1>1, <1>2, Zenon
    <3>2. resolves[s].id # 0 => resolves[s].id # resolves[t].id
      BY Zenon DEF SlotsInv
    <3>3. CASE s = slot
      BY <2>3, <3>1, <3>3, Zenon
    <3>4. CASE t = slot
      BY <2>3, <3>1, <3>4, Zenon
    <3>5. CASE s # slot /\ t # slot
      BY <2>3, <3>2, <3>5, Zenon
    <3> QED
      BY <3>3, <3>4, <3>5, Zenon
  <2>6. ASSUME NEW l \in 1..MaxLookups
        PROVE  \/ lookup' < l /\ told[l] = {}
               \/ l <= lookup' /\ told[l] = {} /\ \E s \in ResolveSlot : resolves'[s].id = l
               \/ l <= lookup' /\ (\E x : told[l] = {<<x, l>>}) /\ \A s \in ResolveSlot : resolves'[s].id # l
    <3>1. CASE l = lookup'
      <4>1. lookup' <= lookup'
        BY <1>1
      <4> QED
        <5>1. l <= lookup' /\ told[l] = {} /\ resolves'[slot].id = l
          BY <1>3, <2>3, <3>1, <4>1, Zenon
        <5> QED
          BY <5>1, Zenon
    <3>2. CASE l # lookup' /\ lookup < l
      BY <1>0, <1>1, <3>2, Zenon
    <3>3. CASE l # lookup' /\ ~(lookup < l)
      <4>1. l <= lookup' /\ l # 0
        BY <1>1, <3>3
      <4>2. \A s \in ResolveSlot : resolves[s].id = l <=> resolves'[s].id = l
        BY <2>1, <2>3, <3>3, <4>1, Zenon
      <4> QED
        BY <3>3, <4>1, <4>2, Zenon DEF SlotsInv
    <3> QED
      BY <3>1, <3>2, <3>3, Zenon
  <2>7. lookup' \in 0..MaxLookups
    BY <1>1
  <2> QED
    BY <1>4, <2>2, <2>4, <2>5, <2>6, <2>7, Zenon DEF SlotsInv
<1>5. CASE told' = [told EXCEPT ![lookup'] = {<<"refused", lookup'>>}] /\ UNCHANGED resolves
  <2>1. DOMAIN told' = 1..MaxLookups
    BY <1>5, Zenon DEF SlotsInv
  <2>2. \A l \in 1..MaxLookups : told'[l] = (IF l = lookup' THEN {<<"refused", lookup'>>} ELSE told[l])
    BY <1>5, Zenon DEF SlotsInv
  <2>3. ASSUME NEW l \in 1..MaxLookups
        PROVE  \/ lookup' < l /\ told'[l] = {}
               \/ l <= lookup' /\ told'[l] = {} /\ \E s \in ResolveSlot : resolves[s].id = l
               \/ l <= lookup' /\ (\E x : told'[l] = {<<x, l>>}) /\ \A s \in ResolveSlot : resolves[s].id # l
    <3>1. CASE l = lookup'
      <4>1. lookup' <= lookup'
        BY <1>1
      <4>2. told'[l] = {<<"refused", l>>}
        BY <2>2, <3>1, Zenon
      <4>3. \A s \in ResolveSlot : resolves[s].id # l
        BY <1>1, <1>2, <3>1, Zenon
      <4> QED
        <5>1. l <= lookup'
          BY <3>1, <4>1, Zenon
        <5>2. \E x : told'[l] = {<<x, l>>}
          BY <4>2, Zenon
        <5> QED
          BY <4>3, <5>1, <5>2, Zenon
    <3>2. CASE l # lookup' /\ lookup < l
      BY <1>0, <1>1, <2>2, <3>2, Zenon
    <3>3. CASE l # lookup' /\ ~(lookup < l)
      <4>1. l <= lookup' /\ told'[l] = told[l]
        BY <1>1, <2>2, <3>3
      <4> QED
        BY <3>3, <4>1, Zenon DEF SlotsInv
    <3> QED
      BY <3>1, <3>2, <3>3, Zenon
  <2>4. \A s \in ResolveSlot : resolves[s].id <= lookup'
    BY <1>1, <1>2, Zenon
  <2>5. lookup' \in 0..MaxLookups
    BY <1>1
  <2> QED
    BY <1>5, <2>1, <2>3, <2>4, <2>5, Zenon DEF SlotsInv
<1> QED
  BY <1>4, <1>5, Zenon

\* Slots are given back, and the client of each is told one thing.
LEMMA SlotsGivenBack ==
  ASSUME SlotsInv, NEW back, back \subseteq ResolveSlot, NEW what, UNCHANGED lookup,
         resolves' \in [ResolveSlot -> [id : 0..MaxLookups, tries : Nat]], DOMAIN told' = 1..MaxLookups,
         \A s \in ResolveSlot : resolves'[s].id = (IF s \in back THEN 0 ELSE resolves[s].id),
         \A s \in back : resolves[s].id # 0,
         \A l \in 1..MaxLookups :
           told'[l] = (IF \E s \in back : resolves[s].id = l THEN told[l] \cup {<<what, l>>} ELSE told[l])
  PROVE  SlotsInv'
<1>1. \A s \in ResolveSlot : resolves'[s].id <= lookup
  <2>1. 0 <= lookup /\ \A s \in ResolveSlot : resolves[s].id <= lookup
    BY LookupsAssumption DEF SlotsInv
  <2> QED
    BY <2>1, Zenon
<1>2. ASSUME NEW s \in ResolveSlot, NEW t \in ResolveSlot,
             resolves'[s].id # 0, resolves'[s].id = resolves'[t].id
      PROVE  s = t
  <2>1. /\ resolves'[s].id = (IF s \in back THEN 0 ELSE resolves[s].id)
        /\ resolves'[t].id = (IF t \in back THEN 0 ELSE resolves[t].id)
    BY Zenon
  <2>2. resolves[s].id # 0 /\ resolves[s].id = resolves[t].id
    BY <1>2, <2>1, Zenon
  <2> QED
    BY <2>2, Zenon DEF SlotsInv
<1>3. ASSUME NEW l \in 1..MaxLookups
      PROVE  \/ lookup < l /\ told'[l] = {}
             \/ l <= lookup /\ told'[l] = {} /\ \E s \in ResolveSlot : resolves'[s].id = l
             \/ l <= lookup /\ (\E x : told'[l] = {<<x, l>>}) /\ \A s \in ResolveSlot : resolves'[s].id # l
  <2>0. l # 0
    BY LookupsAssumption
  <2>1. CASE \E s \in back : resolves[s].id = l
    <3>1. PICK s \in back : resolves[s].id = l
      BY <2>1, Zenon
    <3>2. told[l] = {} /\ l <= lookup
      BY <3>1, Zenon DEF SlotsInv
    <3>3. told'[l] = {<<what, l>>}
      <4>1. told'[l] = told[l] \cup {<<what, l>>}
        BY <2>1, Zenon
      <4> QED
        BY <3>2, <4>1, Zenon
    <3>4. \A t \in ResolveSlot : resolves'[t].id # l
      <4> SUFFICES ASSUME NEW t \in ResolveSlot, resolves'[t].id = l
                   PROVE  FALSE
        BY Zenon
      <4>1. t \notin back /\ resolves[t].id = l
        <5>1. resolves'[t].id = (IF t \in back THEN 0 ELSE resolves[t].id)
          BY Zenon
        <5> QED
          BY <2>0, <5>1, Zenon
      <4> QED
        <5>1. resolves[t].id # 0 /\ resolves[t].id = resolves[s].id => t = s
          BY <3>1, Zenon DEF SlotsInv
        <5> QED
          BY <2>0, <3>1, <4>1, <5>1, Zenon
    <3> QED
      BY <3>2, <3>3, <3>4, Zenon
  <2>2. CASE ~ \E s \in back : resolves[s].id = l
    <3>0. \/ lookup < l /\ told[l] = {}
          \/ l <= lookup /\ told[l] = {} /\ \E s \in ResolveSlot : resolves[s].id = l
          \/ l <= lookup /\ (\E x : told[l] = {<<x, l>>}) /\ \A s \in ResolveSlot : resolves[s].id # l
      BY Zenon DEF SlotsInv
    <3>1. told'[l] = told[l]
      BY <2>2, Zenon
    <3>2. \A s \in ResolveSlot : resolves'[s].id = l <=> resolves[s].id = l
      <4> SUFFICES ASSUME NEW s \in ResolveSlot
                   PROVE  resolves'[s].id = l <=> resolves[s].id = l
        BY Zenon
      <4>1. resolves'[s].id = (IF s \in back THEN 0 ELSE resolves[s].id)
        BY Zenon
      <4> QED
        BY <2>0, <2>2, <4>1, Zenon
    <3> QED
      BY <3>0, <3>1, <3>2, Zenon
  <2> QED
    BY <2>1, <2>2, Zenon
<1> QED
  BY <1>1, <1>2, <1>3, Zenon DEF SlotsInv

\* A reply, late or repeated, and the ticks.
LEMMA DnsReplyKeeps ==
  ASSUME SlotsInv, NEW slot \in ResolveSlot, NEW id, DnsReply(slot, id)
  PROVE  SlotsInv'
<1>1. /\ UNCHANGED lookup /\ resolves[slot].id # 0 /\ resolves[slot].id = id
      /\ told' = [told EXCEPT ![id] = @ \cup {<<"answer", id>>}]
      /\ resolves' = [resolves EXCEPT ![slot] = Idle]
  BY Zenon DEF DnsReply, Answers
<1>2. id \in 1..MaxLookups
  BY <1>1, LookupsAssumption DEF SlotsInv
<1>3. Idle \in [id : 0..MaxLookups, tries : Nat] /\ Idle.id = 0
  BY LookupsAssumption DEF Idle
<1>4. resolves' \in [ResolveSlot -> [id : 0..MaxLookups, tries : Nat]]
  BY <1>1, <1>3, Zenon DEF SlotsInv
<1>5. \A s \in ResolveSlot : resolves'[s].id = (IF s \in {slot} THEN 0 ELSE resolves[s].id)
  <2>1. \A s \in ResolveSlot : resolves'[s] = (IF s = slot THEN Idle ELSE resolves[s])
    BY <1>1, Zenon DEF SlotsInv
  <2> QED
    BY <1>3, <2>1, Zenon
<1>6. DOMAIN told' = 1..MaxLookups
  BY <1>1, Zenon DEF SlotsInv
<1>7. \A l \in 1..MaxLookups :
        told'[l] = (IF \E s \in {slot} : resolves[s].id = l THEN told[l] \cup {<<"answer", l>>} ELSE told[l])
  <2> SUFFICES ASSUME NEW l \in 1..MaxLookups
               PROVE  told'[l] = (IF \E s \in {slot} : resolves[s].id = l
                                  THEN told[l] \cup {<<"answer", l>>} ELSE told[l])
    BY Zenon
  <2>1. CASE l = id
    BY <1>1, <1>2, <2>1, Zenon DEF SlotsInv
  <2>2. CASE l # id
    BY <1>1, <2>2, Zenon DEF SlotsInv
  <2> QED
    BY <2>1, <2>2, Zenon
<1>8. \A s \in {slot} : resolves[s].id # 0
  BY <1>1, Zenon
<1> QED
  <2>1. {slot} \subseteq ResolveSlot
    BY Zenon
  <2> QED
    BY <1>1, <1>4, <1>5, <1>6, <1>7, <1>8, <2>1, SlotsGivenBack, Zenon

LEMMA TickKeeps ==
  ASSUME SlotsInv, NEW due, due \subseteq ResolveSlot, TickDns(due), UNCHANGED lookup
  PROVE  SlotsInv'
<1>1. Idle \in [id : 0..MaxLookups, tries : Nat] /\ Idle.id = 0
  BY LookupsAssumption DEF Idle
<1>2. \A s \in ResolveSlot :
        LET r == resolves[s]
        IN  [r EXCEPT !.tries = @ + 1] \in [id : 0..MaxLookups, tries : Nat] /\ [r EXCEPT !.tries = @ + 1].id = r.id
  BY DEF SlotsInv
<1>3. resolves' \in [ResolveSlot -> [id : 0..MaxLookups, tries : Nat]]
  BY <1>1, <1>2, Zenon DEF TickDns, SlotsInv
<1>4. \A s \in ResolveSlot : resolves'[s].id = (IF s \in GivenUp(due) THEN 0 ELSE resolves[s].id)
  BY <1>1, <1>2, Zenon DEF TickDns
<1>5. GivenUp(due) \subseteq ResolveSlot /\ \A s \in GivenUp(due) : resolves[s].id # 0
  BY Zenon DEF GivenUp
<1>6. DOMAIN told' = 1..MaxLookups
  BY Zenon DEF TickDns
<1>7. \A l \in 1..MaxLookups :
        told'[l] = (IF \E s \in GivenUp(due) : resolves[s].id = l THEN told[l] \cup {<<"timed out", l>>} ELSE told[l])
  <2> SUFFICES ASSUME NEW l \in 1..MaxLookups
               PROVE  told'[l] = (IF \E s \in GivenUp(due) : resolves[s].id = l
                                  THEN told[l] \cup {<<"timed out", l>>} ELSE told[l])
    BY Zenon
  <2> DEFINE late == {<<"timed out", l>> : s \in {t \in GivenUp(due) : resolves[t].id = l}}
  <2>1. told'[l] = told[l] \cup late
    BY Zenon DEF TickDns
  <2>2. late = (IF \E s \in GivenUp(due) : resolves[s].id = l THEN {<<"timed out", l>>} ELSE {})
    BY Zenon
  <2> HIDE DEF late
  <2> QED
    BY <2>1, <2>2, Zenon
<1> QED
  BY <1>3, <1>4, <1>5, <1>6, <1>7, SlotsGivenBack, Zenon

\* Each client is told once, in a slot of its own until then.
LEMMA LookupAnsweredIn == SlotsInv => LookupAnswered
<1> SUFFICES ASSUME SlotsInv, NEW l \in 1..lookup
             PROVE  /\ \A t \in told[l] : t[2] = l
                    /\ Cardinality(told[l]) + Cardinality({s \in ResolveSlot : resolves[s].id = l}) = 1
  BY Zenon DEF LookupAnswered
<1>1. l \in 1..MaxLookups /\ ~(lookup < l) /\ l # 0
  BY LookupsAssumption DEF SlotsInv
<1>2. CASE told[l] = {} /\ \E s \in ResolveSlot : resolves[s].id = l
  <2>1. PICK s \in ResolveSlot : resolves[s].id = l
    BY <1>2, Zenon
  <2>2. {t \in ResolveSlot : resolves[t].id = l} = {s}
    BY <1>1, <2>1, Zenon DEF SlotsInv
  <2>3. Cardinality({s}) = 1 /\ Cardinality(told[l]) = 0
    BY <1>2, FS_Singleton, FS_EmptySet, Zenon
  <2> QED
    BY <1>2, <2>2, <2>3
<1>3. CASE (\E x : told[l] = {<<x, l>>}) /\ \A s \in ResolveSlot : resolves[s].id # l
  <2>1. PICK x : told[l] = {<<x, l>>}
    BY <1>3, Zenon
  <2>2. {t \in ResolveSlot : resolves[t].id = l} = {}
    BY <1>3, Zenon
  <2>3. Cardinality(told[l]) = 1 /\ Cardinality({}) = 0
    BY <2>1, FS_Singleton, FS_EmptySet, Zenon
  <2>4. \A t \in told[l] : t[2] = l
    BY <2>1
  <2> QED
    BY <2>2, <2>3, <2>4
<1> QED
  BY <1>1, <1>2, <1>3, Zenon DEF SlotsInv

\* No step of the daemon or of its servers disturbs it.
LEMMA LookupsInductive == LookupsSpec => []LookupsInv
<1>1. LookupsInit => LookupsInv
  <2> SUFFICES ASSUME LookupsInit PROVE LookupsInv
    BY Zenon
  <2>1. LeaseInv
    BY Zenon DEF LookupsInit, LeaseInv, LeaseGranted, Request, Discover
  <2>2. \A s \in ResolveSlot : resolves[s].id = 0
    BY Zenon DEF LookupsInit
  <2>3. SlotsInv
    <3>1. resolves \in [ResolveSlot -> [id : 0..MaxLookups, tries : Nat]]
      BY LookupsAssumption DEF LookupsInit
    <3>2. \A l \in 1..MaxLookups : told[l] = {} /\ lookup < l
      BY DEF LookupsInit
    <3>3. DOMAIN told = 1..MaxLookups /\ lookup = 0
      BY Zenon DEF LookupsInit
    <3> QED
      BY <2>2, <3>1, <3>2, <3>3, LookupsAssumption DEF SlotsInv
  <2> QED
    BY <2>1, <2>3, Zenon DEF LookupsInit, LookupsInv, TimerCoversWaits
<1>2. LookupsInv /\ [LookupsNext]_lookupVars => LookupsInv'
  <2> SUFFICES ASSUME LookupsInv, [LookupsNext]_lookupVars PROVE LookupsInv'
    BY Zenon
  <2>1. ASSUME NEW c \in Client, Config(c) \/ Config6(c)
        PROVE  LookupsInv'
    <3>1. UNCHANGED <<dhcpVars, router, solicited, dnsVars, timerArmed>>
      BY <2>1, Zenon DEF Config, Config6, routerVars
    <3>2. (resolving' = {} \/ dhcp # "Done") /\ (waiters6' = {} \/ ~router')
      BY <2>1, <3>1, Zenon DEF Config, Config6, routerVars, LookupsInv, LeaseInv, LeaseGranted
    <3> QED
      BY <3>1, <3>2, LeaseUnmoved, SlotsUnmoved, TimerKept, Zenon DEF LookupsInv, dhcpVars, dnsVars, WaitingFor
  <2>2. CASE RouterAdvertisement
    <3>1. /\ UNCHANGED <<dhcpVars, resolving, solicited, resolves, lookup, queries, told, timerArmed>>
          /\ waiters6' = {} /\ router' = TRUE
      BY <2>2, Zenon DEF RouterAdvertisement
    <3>2. resolving' = {} \/ dhcp # "Done"
      BY <3>1, Zenon DEF LookupsInv, LeaseInv, LeaseGranted
    <3> QED
      BY <3>1, <3>2, LeaseUnmoved, SlotsUnmoved, TimerKept, Zenon DEF LookupsInv, dhcpVars, WaitingFor
  <2>3. ASSUME UNCHANGED <<dhcpVars, resolving, waiters6, router>>
        PROVE  LeaseInv'
    <3>1. (resolving' = {} \/ dhcp # "Done") /\ (waiters6' = {} \/ ~router')
      BY <2>3, Zenon DEF LookupsInv, LeaseInv, LeaseGranted
    <3> QED
      BY <2>3, <3>1, LeaseUnmoved, Zenon DEF LookupsInv
  <2>4. ASSUME NEW s \in ResolveSlot, Resolve(s)
        PROVE  LookupsInv'
    <3>1. /\ lookup < MaxLookups /\ lookup' = lookup + 1 /\ resolves[s].id = 0
          /\ resolves' = [resolves EXCEPT ![s] = [id |-> lookup', tries |-> 1]]
          /\ UNCHANGED <<dhcpVars, resolving, routerVars, resolver, told>> /\ ArmTimer(timerArmed)
      BY <2>4, Zenon DEF Resolve
    <3>2. SlotsInv'
      BY <3>1, ResolveKeeps, Zenon DEF LookupsInv
    <3>3. LeaseInv'
      BY <2>3, <3>1, Zenon DEF routerVars
    <3> QED
      BY <3>1, <3>2, <3>3, TimerArmed, Zenon DEF LookupsInv
  <2>5. ASSUME NEW s \in ResolveSlot, NEW id, DnsReply(s, id)
        PROVE  LookupsInv'
    <3>1. /\ UNCHANGED <<dhcpVars, resolving, routerVars, resolver, lookup, queries, timerArmed>>
          /\ resolves' = [resolves EXCEPT ![s] = Idle]
      BY <2>5, Zenon DEF DnsReply
    <3>2. \A t \in ResolveSlot : resolves'[t].id # 0 => resolves[t].id # 0
      BY <3>1, Zenon DEF LookupsInv, SlotsInv, Idle
    <3>3. LeaseInv'
      BY <2>3, <3>1, Zenon DEF routerVars
    <3>4. SlotsInv'
      BY <2>5, DnsReplyKeeps, Zenon DEF LookupsInv
    <3> QED
      BY <3>1, <3>2, <3>3, <3>4, TimerKept, Zenon DEF LookupsInv, dhcpVars, routerVars, WaitingFor
  <2>6. CASE ResolveRefused
    <3>1. /\ lookup < MaxLookups /\ lookup' = lookup + 1
          /\ told' = [told EXCEPT ![lookup'] = {<<"refused", lookup'>>}]
          /\ UNCHANGED <<dhcpVars, resolving, routerVars, resolver, resolves, queries, timerArmed>>
      BY <2>6, Zenon DEF ResolveRefused
    <3>2. SlotsInv'
      BY <3>1, ResolveKeeps, Zenon DEF LookupsInv
    <3>3. LeaseInv'
      BY <2>3, <3>1, Zenon DEF routerVars
    <3> QED
      BY <3>1, <3>2, <3>3, TimerKept, Zenon DEF LookupsInv, dhcpVars, routerVars, WaitingFor
  <2>7. ASSUME NEW due \in SUBSET ResolveSlot, NEW routerDue \in BOOLEAN, Tick(due, routerDue)
        PROVE  LookupsInv'
    <3>1. /\ TickDns(due) /\ ArmTimer(FALSE)
          /\ UNCHANGED <<dhcpVars, resolving, waiters6, router, resolver, lookup, queries>>
      BY <2>7, Zenon DEF Tick
    <3>2. SlotsInv'
      BY <3>1, TickKeeps, Zenon DEF LookupsInv
    <3> QED
      BY <2>3, <3>1, <3>2, TimerArmed, Zenon DEF LookupsInv
  <2>8. CASE UNCHANGED lookupVars
    <3>1. UNCHANGED <<dhcpVars, resolving, waiters6, router, resolves, lookup, told, timerArmed, solicited>>
      BY <2>8, Zenon DEF lookupVars, dhcpVars
    <3> QED
      BY <2>3, <3>1, SlotsUnmoved, TimerKept, Zenon DEF LookupsInv, dhcpVars, WaitingFor
  <2> QED
    BY <2>1, <2>2, <2>4, <2>5, <2>6, <2>7, <2>8, DhcpKeeps, Zenon DEF LookupsNext
<1> QED
  BY <1>1, <1>2, PTL DEF LookupsSpec

\* The daemon's caches, slots and timer (learn, dhcp_packet, dns_packet, tick): a
\* frame leaves once, the address in use was granted, a client that asked for a
\* name is told once, and the timer is set while anything waits for it.
THEOREM AskedAndAnswered == NeighboursSpec /\ LookupsSpec => []LookupsSound
<1>1. NeighboursInv /\ LookupsInv => LookupsSound
  BY LookupAnsweredIn, Zenon DEF NeighboursInv, LookupsInv, LeaseInv, LookupsSound
<1> QED
  BY <1>1, NeighboursInductive, LookupsInductive, PTL

=============================================================================
