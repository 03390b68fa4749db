-------------------------------- MODULE Elf --------------------------------
(* The ELF loader (kernel/src/elf.rs) and the stack load_elf puts above the   *)
(* image (kernel/src/userspace.rs).  Addresses are words below Word, which    *)
(* stands for 2^64; a byte that came from the file is named by its segment    *)
(* and its place in it, <<>> is a zero, and "stale" is what the frame's      *)
(* last owner left.                                                           *)
EXTENDS Naturals, Sequences, FiniteSets

CONSTANTS
    AddressLimit,   \* 2^64
    PageBytes,      \* PAGE_SIZE
    RegionStart,    \* USER_BASE
    RegionEnd,      \* USER_BASE + SLOT_SIZE
    ElfStackPages,  \* STACK_PAGES
    Images          \* the images tried, each an entry and some PT_LOADs

ASSUME ElfAssumption ==
    /\ PageBytes \in Nat \ {0}
    /\ RegionStart \in Nat /\ RegionEnd \in Nat /\ ElfStackPages \in Nat
    /\ RegionStart % PageBytes = 0 /\ RegionEnd % PageBytes = 0
    /\ RegionEnd < AddressLimit

VARIABLES
    image,     \* the image being loaded
    outcome,   \* "none", an error, or "loaded"
    space,     \* the mapped pages and their permissions
    contents,  \* what the mapped addresses hold
    stackAt    \* stack_bottom

elfVars == <<image, outcome, space, contents, stackAt>>

Writable == {"W"}
NoFlags == {}

-----------------------------------------------------------------------------

\* Addresses of a segment, and the pages from its first down to its last up.
Span(s) == s.at .. s.at + s.memory - 1

PagesOf(s) ==
    s.at \div PageBytes .. (s.at + s.memory + PageBytes - 1) \div PageBytes - 1

\* The checks of the first pass, in their order.
Verdict(s) ==
    CASE s.memory = 0 -> "skip"
      [] s.file > s.memory -> "Malformed"
      [] s.at + s.memory >= AddressLimit -> "Malformed"
      [] s.at < RegionStart \/ s.at + s.memory > RegionEnd -> "OutOfBounds"
      [] ~s.inFile -> "Malformed"
      [] OTHER -> "load"

\* The segments that get loaded before the first one refused.
Refused(i) == {n \in 1 .. Len(i.segments) :
                   Verdict(i.segments[n]) \notin {"skip", "load"}}
Loaded(i) == {n \in 1 .. Len(i.segments) : Verdict(i.segments[n]) = "load"}

\* Pages the first pass maps, present, writable and executable meanwhile.
ImagePages(i) == UNION {PagesOf(i.segments[n]) : n \in Loaded(i)}

\* The last of these segments: each one overwrites what came before it.
LastOf(numbers) == CHOOSE n \in numbers : \A m \in numbers : m <= n

\* The first pass's copies and zero fills, one segment after another.
Byte(i, a) ==
    LET holding == {n \in Loaded(i) : a \in Span(i.segments[n])}
    IN  IF holding # {}
        THEN LET n == LastOf(holding)
                 s == i.segments[n]
             IN  IF a - s.at < s.file THEN <<n, a - s.at>> ELSE <<>>
        ELSE <<"stale">>

\* The second pass narrows every page to what the last segment on it asked.
PagesAsked(s) == (IF s.writes THEN Writable ELSE NoFlags)
                \cup (IF s.runs THEN NoFlags ELSE {"NX"})
Permissions(i, p) ==
    PagesAsked(i.segments[LastOf({n \in Loaded(i) : p \in PagesOf(i.segments[n])})])

\* One past the highest page of the image.
HighestPage(i) ==
    CHOOSE h \in {RegionStart \div PageBytes} \cup {p + 1 : p \in ImagePages(i)} :
        \A p \in ImagePages(i) : p < h

ElfInit ==
    /\ image \in Images
    /\ outcome = "none"
    /\ space = <<>>
    /\ contents = <<>>
    /\ stackAt = 0

\* load refuses: a header out of place, an entry outside the image, or no
\* frame for a page.  The pages mapped so far go with the address space.
LoadFails ==
    /\ outcome = "none"
    /\ outcome' \in
          {Verdict(image.segments[n]) :
              n \in {m \in Refused(image) : \A k \in Refused(image) : m <= k}}
              \cup {"Mapping"}
              \cup (IF \/ image.entry < RegionStart
                       \/ image.entry >= HighestPage(image) * PageBytes
                    THEN {"OutOfBounds"} ELSE {})
    /\ UNCHANGED <<image, space, contents, stackAt>>

\* load succeeds and load_elf maps the stack a page above the image and the
\* parameter page above the stack.
LoadElf ==
    /\ outcome = "none"
    /\ Refused(image) = {}
    /\ RegionStart <= image.entry
    /\ image.entry < HighestPage(image) * PageBytes
    /\ stackAt' = HighestPage(image) + 1
    /\ LET above == stackAt' .. stackAt' + ElfStackPages
       IN  /\ space' = [p \in ImagePages(image) \cup above |->
                          IF p \in above THEN {"W", "NX"}
                                         ELSE Permissions(image, p)]
           /\ contents' = [a \in {b \in RegionStart .. RegionEnd - 1 :
                                   b \div PageBytes \in ImagePages(image)} |->
                          Byte(image, a)]
    /\ outcome' = "loaded"
    /\ UNCHANGED image

ElfNext == LoadFails \/ LoadElf

ElfSpec == ElfInit /\ [][ElfNext]_elfVars

-----------------------------------------------------------------------------

Apart(i) ==
    \A n, m \in Loaded(i) :
        n # m => Span(i.segments[n]) \cap Span(i.segments[m]) = {}
Sole(i, n) ==
    {p \in PagesOf(i.segments[n]) :
        \A m \in Loaded(i) : m # n => p \notin PagesOf(i.segments[m])}

\* A program that load_elf accepted is in memory as it was linked: no segment
\* left the region, every byte of a segment is the file's or, past the file's,
\* zero, also where two segments meet in one page; a page only one segment uses
\* carries that segment's permissions; and the page between the image and the
\* stack is not mapped.
ImageAsLinked ==
    outcome = "loaded" /\ Apart(image) =>
        /\ \A n \in Loaded(image) :
               LET s == image.segments[n]
               IN  /\ Span(s) \subseteq RegionStart .. RegionEnd - 1
                   /\ \A a \in Span(s) :
                          /\ a \div PageBytes \in DOMAIN space
                          /\ contents[a] = IF a - s.at < s.file
                                        THEN <<n, a - s.at>> ELSE <<>>
                   /\ \A p \in Sole(image, n) : space[p] = PagesAsked(s)
        /\ stackAt - 1 \notin DOMAIN space

=============================================================================
