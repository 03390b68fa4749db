------------------------------- MODULE Crash -------------------------------
(* The crash record (kernel/src/crash.rs): a panic stops the other            *)
(* processors, writes its report to the reserved partition and halts; the     *)
(* next boot finds the partition, reports what is there and clears it.        *)
(* A report is named by the number of the panic that made it.  The record is  *)
(* a header sector, which names the report its checksum was taken over, and   *)
(* some text sectors; 0 is a sector that holds neither.  The drive keeps      *)
(* written sectors in a cache until a flush, and a power cut loses any of     *)
(* them.                                                                      *)
EXTENDS Partitions, FiniteSets

CONSTANTS
    CrashCpu,     \* processors
    TextSector,   \* the RECORD_SECTORS sectors of text
    MaxReports    \* bound: panics that get to report

Sector == {"header"} \cup TextSector
BlankSector == 0

VARIABLES
    medium,      \* what is on the drive for good
    written,     \* what reads return: the medium under the drive's cache
    bootPhase,   \* how far this boot has come
    readHeader,  \* the header take_previous read
    readText,    \* the text it read
    shown,       \* the report this boot verified and showed
    panicking,   \* PANICKING
    crashCpu,    \* what each processor is doing
    report,      \* how many panics have reported; the last one's name
    saveStep,    \* how far save has come
    kept         \* the report whose save returned Ok and which no boot cleared

crashVars == <<medium, written, bootPhase, readHeader, readText, shown,
               panicking, crashCpu, report, saveStep, kept>>
diskVars == <<medium, written>>
bootVars == <<bootPhase, readHeader, readText, shown>>
panicVars == <<panicking, crashCpu, report, saveStep>>

Up == bootPhase # "off"
\* AREA is set.
AreaFound == bootPhase \in {"found", "header", "text", "cleared", "running"}
\* init still runs on the boot processor alone, the others start after it.
BootCpu == CHOOSE c \in CrashCpu : TRUE
Running(c) == /\ Up
              /\ crashCpu[c] = "runs"
              /\ bootPhase = "running" \/ c = BootCpu

CrashInit ==
    /\ medium = [s \in Sector |-> BlankSector]
    /\ written = medium
    /\ bootPhase = "off"
    /\ readHeader = BlankSector
    /\ readText = [s \in TextSector |-> BlankSector]
    /\ shown = BlankSector
    /\ panicking = FALSE
    /\ crashCpu = [c \in CrashCpu |-> "runs"]
    /\ report = 0
    /\ saveStep = "none"
    /\ kept = BlankSector

-----------------------------------------------------------------------------
(* The drive.                                                                *)

\* A cached sector reaches the medium by itself.
Lands(s) ==
    /\ medium[s] # written[s]
    /\ medium' = [medium EXCEPT ![s] = written[s]]
    /\ UNCHANGED <<written, bootVars, panicVars, kept>>

\* The power goes, and with it whatever was only in the cache.
PowerCut ==
    /\ Up
    /\ written' = medium
    /\ bootPhase' = "off"
    /\ panicking' = FALSE
    /\ crashCpu' = [c \in CrashCpu |-> "runs"]
    /\ saveStep' = "none"
    /\ UNCHANGED <<medium, readHeader, readText, shown, report, kept>>

-----------------------------------------------------------------------------
(* init and take_previous, on the boot processor.                            *)

Boots ==
    /\ bootPhase = "off"
    /\ bootPhase' = "probing"
    /\ shown' = BlankSector
    /\ UNCHANGED <<diskVars, readHeader, readText, panicVars, kept>>

\* The first large enough partition of the type becomes AREA.
FindArea ==
    /\ bootPhase = "probing"
    /\ Running(BootCpu)
    /\ bootPhase' = "found"
    /\ UNCHANGED <<diskVars, readHeader, readText, shown, panicVars, kept>>

\* The header is read; without the magic there is no record.
ReadHeader ==
    /\ bootPhase = "found"
    /\ Running(BootCpu)
    /\ readHeader' = written["header"]
    /\ bootPhase' = IF written["header"] = BlankSector THEN "running" ELSE "header"
    /\ UNCHANGED <<diskVars, readText, shown, panicVars, kept>>

ReadText ==
    /\ bootPhase = "header"
    /\ Running(BootCpu)
    /\ readText' = [s \in TextSector |-> written[s]]
    /\ bootPhase' = "text"
    /\ UNCHANGED <<diskVars, readHeader, shown, panicVars, kept>>

\* Either read can fail; the record stays where it is and is not shown.
ReadFails ==
    /\ bootPhase \in {"found", "header"}
    /\ Running(BootCpu)
    /\ bootPhase' = "running"
    /\ UNCHANGED <<diskVars, readHeader, readText, shown, panicVars, kept>>

\* The record is cleared whether or not it verifies; a failure to is ignored.
Clear ==
    /\ bootPhase = "text"
    /\ Running(BootCpu)
    /\ \/ written' = [written EXCEPT !["header"] = BlankSector]
       \/ UNCHANGED written
    /\ kept' = BlankSector
    /\ bootPhase' = "cleared"
    /\ UNCHANGED <<medium, readHeader, readText, shown, panicVars>>

\* The checksum of the text is the one in the header.
Verifies(header, text) ==
    header # BlankSector /\ \A s \in TextSector : text[s] = header

\* The flush after clearing, whose failure is ignored too, and the verdict.
ShowPrevious ==
    /\ bootPhase = "cleared"
    /\ Running(BootCpu)
    /\ medium' \in {medium, written}
    /\ shown' = IF Verifies(readHeader, readText) THEN readHeader ELSE BlankSector
    /\ bootPhase' = "running"
    /\ UNCHANGED <<written, readHeader, readText, panicVars, kept>>

-----------------------------------------------------------------------------
(* report and save.                                                          *)

\* The first to panic sends every other processor an NMI; a later one, or a
\* panic inside the report, only halts.
Panic(c) ==
    /\ Running(c) \/ (Up /\ crashCpu[c] = "reports")
    /\ IF panicking
       THEN /\ crashCpu' = [crashCpu EXCEPT ![c] = "halted"]
            /\ UNCHANGED <<panicking, report, saveStep>>
       ELSE /\ report < MaxReports
            /\ panicking' = TRUE
            /\ crashCpu' = [crashCpu EXCEPT ![c] = "reports"]
            /\ report' = report + 1
            /\ saveStep' = IF AreaFound THEN "text" ELSE "none"
    /\ UNCHANGED <<diskVars, bootVars, kept>>

\* The NMI arrives: nmi_handler stops the processor for good.
Nmi(c) ==
    /\ panicking
    /\ Running(c)
    /\ crashCpu' = [crashCpu EXCEPT ![c] = "halted"]
    /\ UNCHANGED <<diskVars, bootVars, panicking, report, saveStep, kept>>

Reporting == \E c \in CrashCpu : crashCpu[c] = "reports"

\* The first half of write_now: the sectors are in the drive, one at a time.
WriteText(s) ==
    /\ Reporting
    /\ saveStep = "text"
    /\ written' = [written EXCEPT ![s] = report]
    /\ UNCHANGED <<medium, bootVars, panicVars, kept>>

\* The second half: a flush, and the text is there for good.
FlushText ==
    /\ Reporting
    /\ saveStep = "text"
    /\ \A s \in TextSector : written[s] = report
    /\ medium' = written
    /\ saveStep' = "header"
    /\ UNCHANGED <<written, bootVars, panicking, crashCpu, report, kept>>

\* A bug to be caught: the header is written and not flushed.
SaveHeaderCached ==
    /\ Reporting
    /\ saveStep = "header"
    /\ written' = [written EXCEPT !["header"] = report]
    /\ saveStep' = "saved"
    /\ kept' = report
    /\ UNCHANGED <<medium, bootVars, panicking, crashCpu, report>>

\* The header goes the same way, last.
WriteHeader ==
    /\ Reporting
    /\ saveStep = "header"
    /\ written' = [written EXCEPT !["header"] = report]
    /\ saveStep' = "flush"
    /\ UNCHANGED <<medium, bootVars, panicking, crashCpu, report, kept>>

FlushHeader ==
    /\ Reporting
    /\ saveStep = "flush"
    /\ medium' = written
    /\ saveStep' = "saved"
    /\ kept' = report
    /\ UNCHANGED <<written, bootVars, panicking, crashCpu, report>>

\* Any write or flush can fail or be refused; the rest is left out.
SaveFails ==
    /\ Reporting
    /\ saveStep \in {"text", "header", "flush"}
    /\ saveStep' = "none"
    /\ UNCHANGED <<diskVars, bootVars, panicking, crashCpu, report, kept>>

CrashNext ==
    \/ \E s \in Sector : Lands(s)
    \/ PowerCut
    \/ Boots
    \/ FindArea
    \/ ReadHeader
    \/ ReadText
    \/ ReadFails
    \/ Clear
    \/ ShowPrevious
    \/ \E c \in CrashCpu : Panic(c) \/ Nmi(c)
    \/ \E s \in TextSector : WriteText(s)
    \/ FlushText
    \/ WriteHeader
    \/ FlushHeader
    \/ SaveFails

CrashSpec == CrashInit /\ [][CrashNext]_crashVars

-----------------------------------------------------------------------------

\* A report whose save returned Ok is on the drive, header and text, until a
\* boot has read it or a later panic has begun to write over it; and what a
\* boot shows as verified is one report read whole, however the power went and
\* whatever was left uncleared before.
RecordKept ==
    /\ shown # BlankSector => \A s \in TextSector : readText[s] = shown
    /\ kept # BlankSector /\ kept = report =>
           \A s \in Sector : medium[s] = kept

\* Disks: a request through a partition stays inside it, and a crash record that is
\* shown after a restart is a whole one that some panic wrote.
RecordsSafe == RequestsInside /\ RecordKept

=============================================================================
