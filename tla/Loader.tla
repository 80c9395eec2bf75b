------------------------------- MODULE Loader -------------------------------
(***************************************************************************)
(* The UEFI boot loader (LoaderPkg/Loader): UefiMain, LoadKernel and       *)
(* TransitionToKernelMode.  Every firmware call may fail, so the model is  *)
(* about what the loader holds at each point, what it gives back on its    *)
(* error paths, and what is there when the kernel is entered.              *)
(***************************************************************************)
EXTENDS Integers, Sequences, FiniteSets

CONSTANTS Debug,       \* mDebugMapping: the sections that are kept, in order
          Sections,    \* the names of the sections of the kernel file
          Segments     \* its PT_LOAD program headers

VARIABLE ld
\* pc     : the next step, with the position in the loop or list of steps
\* at, i2 : Index and Index2 of LoadKernel (i2 outside Debug: not set, or no match)
\* held   : what is allocated or open
\* secs   : the sections that have memory
\* params : for each entry of Debug the section stored in LoaderParams, or 0
\* err    : Status is an error
\* acpi   : what ACPIRoot points to
\* loaded : the segments that are in memory
\* virt   : the virtual start of each piece of the memory map
\* virtual: the pointers in LoaderParams that are virtual addresses
\* freed2 : something was freed that was not allocated

(* A firmware call before the section loop: what it acquires, what it gives *)
(* back when it succeeds, and what is given back when it fails.             *)
Step(gets, drops, fails) == [gets |-> gets, drops |-> drops, fails |-> fails]

InitGraphics == <<
  Step({}, {}, {"params"}),                       \* HandleProtocolFallback
  Step({}, {}, {"params"}),                       \* QueryMode of every mode
  Step({}, {}, {"params"}) >>                     \* SetMode

UefiMain ==
  << Step({}, {}, {}),                            \* GetTime
     Step({"params"}, {}, {}) >>                  \* AllocateRuntimePool
  \o InitGraphics
  \o << Step({"event"}, {}, {"params"}) >>        \* CreateEvent

GetKernelFile == <<
  Step({}, {}, {"params", "event"}),              \* the image and its device
  Step({}, {}, {"params", "event"}),              \* the file system
  Step({"volume"}, {}, {"params", "event"}),      \* OpenVolume
  Step({"file"}, {"volume"}, {"params", "event", "volume"}) >>

Headers ==
  LET opened == {"params", "event", "file"}
  IN << Step({}, {}, opened),                     \* the ELF header and its checks
        Step({"sections"}, {}, opened),           \* AllocatePool
        Step({"headers"}, {}, opened \cup {"sections"}),
        Step({}, {}, opened \cup {"sections", "headers"}),
        Step({}, {}, opened \cup {"sections", "headers"}) >>

Prologue == UefiMain \o GetKernelFile \o Headers

(* Reading: got is the number of bytes the file gives, -1 for an error.  A  *)
(* string may be shorter than its buffer.                                   *)
Gets == -1 .. 1
CheckedReadDataShort(size, got) == got >= 0

CheckedReadData(size, got) == got = size
CheckedReadString(size, got) == got >= 0

(* AcpiFindRsdp: an ACPI 2.0 table of the system table, else the last 1.0   *)
(* table, else the last signature in low memory, else in the EBDA, whose    *)
(* start is then taken for the table.                                       *)
AcpiFindLegacyRsdp(low, ebda) ==
  CASE low # {} -> [where |-> "low", at |-> CHOOSE a \in low : \A b \in low : b <= a]
    [] low = {} /\ ebda # {} -> [where |-> "ebda", at |-> 0]
    [] OTHER -> [where |-> "none", at |-> 0]

AcpiFindRsdp(tables, low, ebda) ==
  LET Of(v) == {i \in DOMAIN tables : tables[i] = v}
  IN CASE Of(2) # {} -> [where |-> "table", at |-> CHOOSE i \in Of(2) : \A j \in Of(2) : i <= j]
       [] Of(2) = {} /\ Of(1) # {} -> [where |-> "table", at |-> CHOOSE i \in Of(1) : \A j \in Of(1) : j <= i]
       [] OTHER -> AcpiFindLegacyRsdp(low, ebda)

Init ==
  ld = [pc |-> "prologue", at |-> 1, i2 |-> 0, held |-> {}, secs |-> {}, params |-> [k \in DOMAIN Debug |-> 0],
        err |-> FALSE, acpi |-> [where |-> "none", at |-> 0], loaded |-> {}, virt |-> <<>>, virtual |-> {}, freed2 |-> FALSE]

(* LoaderParams->ACPIRoot is set as soon as LoaderParams is allocated.      *)
AcpiRoots ==
  {AcpiFindRsdp(x[1], x[2], x[3]) : x \in [1 .. 2 -> 0 .. 2] \X (SUBSET (1 .. 2)) \X (SUBSET (1 .. 2))}

Call ==
  /\ ld.pc = "prologue" /\ ld.at <= Len(Prologue)
  /\ \/ \E root \in (IF ld.at = 2 THEN AcpiRoots ELSE {ld.acpi}) :
          ld' = [ld EXCEPT !.at = @ + 1, !.held = (@ \cup Prologue[ld.at].gets) \ Prologue[ld.at].drops, !.acpi = root]
     \/ ld' = [ld EXCEPT !.pc = "returned", !.held = @ \ Prologue[ld.at].fails]

EnterSections ==
  /\ ld.pc = "prologue" /\ ld.at > Len(Prologue)
  /\ ld' = [ld EXCEPT !.pc = "sections", !.at = 1]

(* One round of the section loop.  A debug section that cannot be allocated *)
(* or read ends only the search for its name: the next round overwrites     *)
(* Status.                                                                  *)
Matches(n) == {k \in DOMAIN Debug : Debug[k] = Sections[n]}
Section ==
  /\ ld.pc = "sections" /\ ld.at <= Len(Sections)
  /\ LET n == ld.at
         k == IF Matches(n) = {} THEN Len(Debug) + 1 ELSE CHOOSE k \in Matches(n) : TRUE
         next == [ld EXCEPT !.at = n + 1, !.i2 = k, !.err = FALSE]
     IN \/ \E got \in Gets :
             ~ CheckedReadString(1, got) /\ ld' = [ld EXCEPT !.err = TRUE, !.pc = "free"]
        \/ Matches(n) = {} /\ ld' = next
        \/ Matches(n) # {} /\ ld' = [next EXCEPT !.err = TRUE]        \* AllocateLowRuntimePool
        \/ \E got \in Gets :
             /\ Matches(n) # {}
             /\ ld' = IF CheckedReadData(1, got) THEN [next EXCEPT !.secs = @ \cup {n}, !.params[k] = n]
                      ELSE [next EXCEPT !.err = TRUE]

LeaveSections ==
  /\ ld.pc = "sections" /\ ld.at > Len(Sections)
  /\ ld' = [ld EXCEPT !.pc = IF ld.err THEN "free" ELSE "kernel", !.at = 1]

(* The kernel's memory, from the lowest to the highest p_pa.                *)
AllocKernel ==
  /\ ld.pc = "kernel"
  /\ \/ ld' = [ld EXCEPT !.pc = "free", !.err = TRUE]
     \/ Segments > 0 /\ ld' = [ld EXCEPT !.pc = "segments", !.held = @ \cup {"kernel"}]

ReadSegment ==
  /\ ld.pc = "segments" /\ ld.at <= Segments
  /\ \E got \in Gets :
       ld' = IF CheckedReadData(1, got)
             THEN [ld EXCEPT !.at = @ + 1, !.err = FALSE, !.loaded = IF got = 1 THEN @ \cup {ld.at} ELSE @]
             ELSE [ld EXCEPT !.pc = "free", !.err = TRUE, !.held = @ \ {"kernel"}]

LeaveSegments ==
  /\ ld.pc = "segments" /\ ld.at > Segments
  /\ ld' = [ld EXCEPT !.pc = "free"]

(* FreePool of both headers; on an error the loop over mDebugMapping frees, *)
(* in every round, the section of the entry Index2 that the last search     *)
(* left (beyond the array: whatever is read there).  UefiMain then gives    *)
(* back LoaderParams and the event.                                         *)
Free ==
  /\ ld.pc = "free"
  /\ LET left == ld.held \ {"sections", "headers"}
         stored == ld.i2 \in DOMAIN Debug /\ ld.params[ld.i2] # 0
         Returned(twice) ==
           [ld EXCEPT !.pc = "returned", !.freed2 = twice,
                      !.held = left \ {"params", "event"},
                      !.secs = IF stored THEN @ \ {ld.params[ld.i2]} ELSE @]
     IN \/ ~ ld.err /\ ld' = [ld EXCEPT !.pc = "gate", !.held = left]
        \/ ld.err /\ ld' = Returned(stored /\ Len(Debug) > 1)
        \/ ld.err /\ ld.i2 \notin DOMAIN Debug /\ ld' = Returned(TRUE)

-----------------------------------------------------------------------------
(* PreparePageTable, with EFI_PAGE_SIZE_2M as the unit: pages of a table    *)
(* one after the other, the addresses in its directories ascending.         *)
EFI_MAX_ENTRY_NUM == 4
EFI_PDPTE_ENTRY_NUM == 2
PreparePageTable ==
  [page \in 0 .. 1 + EFI_PDPTE_ENTRY_NUM |->
    [e \in 0 .. EFI_MAX_ENTRY_NUM - 1 |->
      CASE page = 0 -> IF e = 0 THEN 1 ELSE -1
        [] page = 1 -> IF e < EFI_PDPTE_ENTRY_NUM THEN e + 2 ELSE -1
        [] page > 1 -> (page - 2) * EFI_MAX_ENTRY_NUM + e]]

Translate(table, a) ==
  LET pdpt == table[0][a \div (EFI_MAX_ENTRY_NUM * EFI_MAX_ENTRY_NUM)]
      pd == table[pdpt][(a \div EFI_MAX_ENTRY_NUM) % EFI_MAX_ENTRY_NUM]
  IN table[pd][a % EFI_MAX_ENTRY_NUM]

GenerateGateData ==
  /\ ld.pc = "gate"
  /\ \/ ld' = [ld EXCEPT !.pc = "dead"]
     \/ ld' = [ld EXCEPT !.pc = "map", !.held = @ \cup {"gate"}]

(* GetMemoryMap, whose buffer is allocated again until it is large enough.  *)
MemoryMap ==
  /\ ld.pc = "map"
  /\ \/ ld' = [ld EXCEPT !.pc = "dead", !.held = @ \ {"map"}]
     \/ ld' = [ld EXCEPT !.held = @ \cup {"map"}]                      \* EFI_BUFFER_TOO_SMALL
     \/ "map" \in ld.held /\ ld' = [ld EXCEPT !.pc = "exit"]

(* SetupVirtualAddresses: runtime pieces one after the other from the first *)
(* virtual address, here 0; the others have none.                           *)
SetupVirtualAddresses(map) ==
  LET f[n \in 0 .. Len(map)] ==
        IF n = 0 THEN [at |-> 0, virt |-> <<>>]
        ELSE IF map[n].runtime
             THEN [at |-> f[n - 1].at + map[n].pages, virt |-> Append(f[n - 1].virt, f[n - 1].at)]
             ELSE [at |-> f[n - 1].at, virt |-> Append(f[n - 1].virt, -1)]
  IN [n \in DOMAIN map |-> [start |-> f[Len(map)].virt[n], pages |-> map[n].pages]]

Maps == [1 .. 3 -> [runtime : BOOLEAN, pages : 1 .. 2]]

(* The event of CreateEvent: pointers that are set become virtual.          *)
TranslateVirtualAddresses == {"self", "rt", "map"} \cup {Debug[k] : k \in {k \in DOMAIN Debug : ld.params[k] # 0}}

(* ExitBootServices refuses a stale key; then SetVirtualAddressMap signals  *)
(* the event, or fails.                                                     *)
ExitBootServices ==
  /\ ld.pc = "exit"
  /\ \/ ld' = [ld EXCEPT !.pc = "dead", !.held = @ \ {"map"}]
     \/ \E map \in Maps : ld' = [ld EXCEPT !.pc = "dead", !.virt = SetupVirtualAddresses(map)]
     \/ \E map \in Maps : ld' = [ld EXCEPT !.pc = "cpu", !.virt = SetupVirtualAddresses(map),
                                           !.virtual = IF "event" \in ld.held THEN TranslateVirtualAddresses ELSE @]

(* The processor may lack CPUID, one of its levels or the long mode.        *)
CallKernelThroughGate ==
  /\ ld.pc = "cpu"
  /\ \E pc \in {"kernel entered", "dead"} : ld' = [ld EXCEPT !.pc = pc]

Next ==
  \/ Call \/ EnterSections \/ Section \/ LeaveSections
  \/ AllocKernel \/ ReadSegment \/ LeaveSegments \/ Free
  \/ GenerateGateData \/ MemoryMap \/ ExitBootServices \/ CallKernelThroughGate

-----------------------------------------------------------------------------
(* When the loader enters the kernel, the kernel finds what it will use:    *)
(* every segment is whole and in memory that is still allocated, and the    *)
(* page table it starts with maps that memory to itself; LoaderParams, the  *)
(* memory map and the sections it points to are allocated, hold what their  *)
(* name says and are named by virtual addresses; and no two pieces of       *)
(* runtime memory share addresses.                                          *)
KernelFindsItsMemory ==
  ld.pc = "kernel entered" =>
    /\ ld.loaded = 1 .. Segments
    /\ {"kernel", "params", "map", "gate"} \subseteq ld.held
    /\ \A a \in 0 .. EFI_PDPTE_ENTRY_NUM * EFI_MAX_ENTRY_NUM - 1 : Translate(PreparePageTable, a) = a
    /\ {"self", "rt", "map"} \subseteq ld.virtual
    /\ \A k \in DOMAIN Debug :
         ld.params[k] # 0 => /\ ld.params[k] \in ld.secs
                             /\ Sections[ld.params[k]] = Debug[k]
                             /\ Debug[k] \in ld.virtual
    /\ \A m, n \in DOMAIN ld.virt :
         m < n /\ ld.virt[m].start >= 0 /\ ld.virt[n].start >= 0
           => ld.virt[m].start + ld.virt[m].pages <= ld.virt[n].start
=============================================================================
