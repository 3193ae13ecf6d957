----------------------------- MODULE KernelInit -----------------------------
(***************************************************************************)
(* kernel_init, and the kernel thread it ends in: the order in which the   *)
(* facilities of the kernel come up, the messages printed on the way, the  *)
(* ACPI tables and the initrd it reads, the interrupts it lets in and the  *)
(* panics it can end in.  A stage is one call of kernel_init or one part   *)
(* of it; `parse_madt' and `read_file' are loops of one step per record.   *)
(***************************************************************************)
EXTENDS CpioArchive, AcpiTables, ElfImage, FiniteSets

CONSTANTS EarlyCapacity,       \* EARLY_PRINT_BUFFER_SIZE, in parts of a message
          MapLengths,          \* numbers of entries of the boot memory map
          RootTables,          \* lists of tables of the root table
          RedirectionEntries,  \* numbers of entries of an IO APIC
          Initrds,             \* initrds, of a kind and with their entries
          Files,               \* ELF headers the file "init" can have
          MaxInterrupts        \* bound on the interrupts taken

\* parse_madt_table reads the first record without looking for one.
ASSUME FirmwareAssumption ==
    /\ EarlyCapacity \in Nat
    /\ MapLengths \subseteq Nat
    /\ \A t \in RootTables :
           /\ t \in Seq([signature : STRING, records : Seq(Records)])
           /\ \A i \in DOMAIN t : t[i].signature = "APIC" => t[i].records # << >>
    /\ RedirectionEntries \subseteq Nat
    /\ \A i \in Initrds :
           i.entries \in Seq([name : [text : STRING, dotted : BOOLEAN], file_size : Nat])

NoInitrd == [kind |-> "unread", entries |-> << >>]
NoFile == [from |-> 0, to |-> -1]

VARIABLES
    at,            \* index in Order of the stage that comes next
    panicked,
    hung,          \* parse_madt_table goes round for ever
    up,            \* the facilities that have been initialised
    misused,       \* something was used before it was initialised
    intr,          \* the interrupt flag
    early,         \* USE_EARLY_PRINTING
    buffer,        \* EARLY_PRINT_BUFFER
    pending,       \* the parts the running code still has to print
    serial,        \* what has left the serial port
    said,          \* history: how many messages the kernel has printed ...
    switched,      \* ... and how many of them before switch_early_print
    flushed,       \* history: flush_early_print_buffer has been called
    tables,        \* the tables ACPI_TABLE leads to; none when it is None
    cursor,        \* `start' of parse_madt_table, an offset
    cores,         \* NUM_CORES
    io_apics,      \* 1 when IOAPIC is Some
    raises,        \* the vectors that have been unmasked
    interrupts,    \* history: interrupts taken
    initrd,        \* what the loader read, from when it is looked at
    start,         \* `start' of CPIO::read_file
    file           \* the range of the archive it returned

progressVars == <<at, panicked, hung, up, misused>>
printVars == <<intr, buffer, pending, serial, said>>
switchVars == <<early, switched, flushed>>
acpiVars == <<tables, cursor, cores, io_apics, raises>>
fileVars == <<initrd, start, file>>
vars == <<progressVars, printVars, switchVars, acpiVars, interrupts, fileVars>>
-----------------------------------------------------------------------------
\* The calls of kernel_init, of arch::initialize and of kernel_init_thread.
\* serial::set_initialized only adds a second without_interrupts to a print.
Order ==
    <<"early_initialize", "banner", "initialize_heap", "display_memory_map", "mm",
      "processor", "time", "register_devices", "switch_early_print", "console_init",
      "flush_early_print_buffer", "acpi", "gdt", "idt", "syscall", "find_madt",
      "parse_madt", "apic", "io_apic", "initialize_core", "debug_dump",
      "enable_interrupts", "print_interrupts", "initrd", "init_process", "test_process",
      "start", "find_device", "set_ready", "read_file", "parse_file", "replace_image">>

Index(stage) == CHOOSE i \in DOMAIN Order : Order[i] = stage
Done == at > Len(Order)

\* What a stage relies on, besides core!() and the serial port, which every
\* late print uses.  A facility that is missing is a null pointer, an unwrap
\* or an expect.
Needs(stage) ==
    CASE stage \in {"mm", "register_devices", "set_ready"} -> {"heap"}
      [] stage \in {"processor", "acpi", "find_madt", "parse_madt", "apic", "io_apic",
                    "initrd", "init_process", "test_process"} -> {"heap", "mm"}
      [] stage \in {"console_init", "find_device"} -> {"devices"}
      [] stage = "flush_early_print_buffer" -> {"console"}
      [] stage \in {"gdt", "initialize_core"} -> {"heap", "gs"}
      [] stage = "idt" -> {"gdt"}
      [] stage = "start" -> {"gs", "init_thread"}
      [] stage = "replace_image" -> {"heap", "mm", "gs", "current"}
      [] OTHER -> {}

PrintsEarly == ~early /\ ~({"gs", "serial"} \subseteq up)

\* The stage that comes next runs, when the last one has printed everything,
\* leaves some facilities initialised and goes on at another.
RunsTo(stage, facilities, next) ==
    /\ ~panicked /\ ~hung /\ pending = << >>
    /\ ~Done /\ Order[at] = stage
    /\ at' = next
    /\ up' = up \cup facilities
    /\ misused' = (misused \/ ~(Needs(stage) \subseteq up) \/ PrintsEarly)
    /\ UNCHANGED <<panicked, hung>>
Runs(stage, facilities) == RunsTo(stage, facilities, at + 1)
-----------------------------------------------------------------------------
\* A message of the kernel is its time and its text; the buffer can end
\* between them, and a handler can print between them.
Parts(from, to) ==
    [i \in 1 .. 2 * (to - from + 1) |->
        [by |-> "kernel", message |-> from + (i - 1) \div 2,
         part |-> IF i % 2 = 1 THEN "time" ELSE "text"]]
Fitting(parts) == SubSeq(parts, 1, IF Len(parts) < EarlyCapacity THEN Len(parts) ELSE EarlyCapacity)

\* Mutant of WithoutInterrupts: were_enabled is ignored.
WithoutInterruptsAlways(were_enabled) == TRUE

\* ProcessorInfo::without_interrupts: the flag when it is over.
WithoutInterrupts(were_enabled) == were_enabled

\* _print_fmt for some messages, the flag being `flag' when they are printed:
\* into the buffer, or for PrintPart.
SayWith(messages, flag) ==
    /\ said' = said + messages
    /\ intr' = flag
    /\ IF early
       THEN /\ buffer' = Fitting(buffer \o Parts(said + 1, said + messages))
            /\ UNCHANGED pending
       ELSE /\ pending' = Parts(said + 1, said + messages)
            /\ UNCHANGED buffer
    /\ UNCHANGED serial
Say(messages) == SayWith(messages, intr)
Quiet == UNCHANGED printVars

\* arch::debug_print_fmt writes one part without interrupts.
PrintPart ==
    /\ pending # << >>
    /\ serial' = Append(serial, Head(pending))
    /\ pending' = Tail(pending)
    /\ intr' = WithoutInterrupts(intr)
    /\ UNCHANGED <<progressVars, buffer, said, switchVars, acpiVars, interrupts, fileVars>>

\* The panic handler: cli, a message, and a loop that never ends.
Panics ==
    /\ ~panicked /\ ~hung /\ pending = << >>
    /\ panicked' = TRUE
    /\ SayWith(1, FALSE)
    /\ misused' = (misused \/ PrintsEarly)
    /\ UNCHANGED <<at, hung, up, switchVars, acpiVars, interrupts, fileVars>>
PanicsIn(stage) == ~Done /\ Order[at] = stage /\ Panics
-----------------------------------------------------------------------------
\* The firmware may have left interrupts enabled.
Init ==
    /\ at = 1 /\ panicked = FALSE /\ hung = FALSE /\ up = {} /\ misused = FALSE
    /\ intr \in BOOLEAN
    /\ early = TRUE /\ buffer = << >> /\ pending = << >> /\ serial = << >>
    /\ said = 0 /\ switched = 0 /\ flushed = FALSE
    /\ tables = << >> /\ cursor = 0 /\ cores = 0 /\ io_apics = 0 /\ raises = {}
    /\ interrupts = 0
    /\ initrd = NoInitrd /\ start = 0 /\ file = NoFile

\* force_disable_interrupts, serial::initialize, and pic::initialize, which
\* leaves every line of the PIC masked.
EarlyInitialize ==
    /\ Runs("early_initialize", {"serial"})
    /\ intr' = FALSE
    /\ UNCHANGED <<buffer, pending, serial, said, switchVars, acpiVars, interrupts, fileVars>>

\* A stage that initialises something and prints; its lines count as one
\* message.
Plain(stage, facilities, messages) ==
    /\ Runs(stage, facilities)
    /\ Say(messages)
    /\ UNCHANGED <<switchVars, acpiVars, interrupts, fileVars>>

Banner == Plain("banner", {}, 1)
InitializeHeap == Plain("initialize_heap", {"heap"}, 0)
MmInitialize == Plain("mm", {"mm"}, 1)
ProcessorInit == Plain("processor", {"gs"}, 1)
TimeInitialize == Plain("time", {}, 1)
RegisterDevices == Plain("register_devices", {"devices"}, 0)

\* The first lines of arch::initialize.
GdtInitialize == Plain("gdt", {"gdt"}, 0)
IdtInitialize == Plain("idt", {"idt"}, 0)
SyscallInitialize == Plain("syscall", {"syscall"}, 0)

\* The end of parse_madt_table: the local APIC is enabled and mapped.
EnableApic == Plain("apic", {"apic_addr"}, 1)

\* The print after enable_interrupts, all of it without interrupts.
PrintInterrupts ==
    /\ Runs("print_interrupts", {})
    /\ said' = said + 1
    /\ IF early
       THEN buffer' = Fitting(buffer \o Parts(said', said')) /\ UNCHANGED serial
       ELSE serial' = serial \o Parts(said', said') /\ UNCHANGED buffer
    /\ intr' = WithoutInterrupts(intr)
    /\ UNCHANGED <<pending, switchVars, acpiVars, interrupts, fileVars>>

\* The two processes, with debug_dump.
CreateInitProcess == Plain("init_process", {"init_thread"}, 0)
CreateTestProcess == Plain("test_process", {"test_thread"}, 1)

\* kernel_init_thread: two messages and a text that the serial device prints
\* byte by byte, which counts as a message; set_ready with the path,
\* replace_image.
UseSerialDevice == Plain("find_device", {}, 3)
SetReady == Plain("set_ready", {"ready"}, 0)
ReplaceImage == Plain("replace_image", {"image"}, 1)

\* Whatever allocates pages or boxes can fail, and all of it panics.
Allocating == {"mm", "processor", "register_devices", "gdt", "apic", "initialize_core",
               "init_process", "test_process", "set_ready", "replace_image"}
AllocationFails == \E stage \in Allocating : PanicsIn(stage)

\* A heading, the entries and the sum.
DisplayMemoryMap ==
    /\ Runs("display_memory_map", {})
    /\ \E n \in MapLengths : Say(n + 2)
    /\ UNCHANGED <<switchVars, acpiVars, interrupts, fileVars>>
-----------------------------------------------------------------------------
\* Mutant of SwitchEarlyPrint: USE_EARLY_PRINTING stays set.
SwitchEarlyPrintForgets ==
    /\ Runs("switch_early_print", {})
    /\ switched' = said
    /\ Quiet
    /\ UNCHANGED <<early, flushed, acpiVars, interrupts, fileVars>>

SwitchEarlyPrint ==
    /\ Runs("switch_early_print", {})
    /\ early' = FALSE
    /\ switched' = said
    /\ Quiet
    /\ UNCHANGED <<flushed, acpiVars, interrupts, fileVars>>

ConsoleInit ==
    /\ Runs("console_init", {"console"})
    /\ Quiet
    /\ UNCHANGED <<switchVars, acpiVars, interrupts, fileVars>>

\* The console writes the buffer byte by byte through _print_fmt.
FlushEarlyPrintBuffer ==
    /\ Runs("flush_early_print_buffer", {})
    /\ flushed' = TRUE
    /\ IF early
       THEN buffer' = Fitting(buffer \o buffer) /\ UNCHANGED pending
       ELSE pending' = buffer /\ UNCHANGED buffer
    /\ UNCHANGED <<intr, serial, said, early, switched, acpiVars, interrupts, fileVars>>
-----------------------------------------------------------------------------
\* acpi::initialize: there may be no table; an RSDP of revision 2 has a
\* warning.
AcpiInitialize ==
    /\ Runs("acpi", {})
    /\ \/ UNCHANGED tables /\ Quiet
       \/ tables' \in RootTables /\ \E warnings \in 0 .. 1 : Say(warnings)
    /\ UNCHANGED <<switchVars, cursor, cores, io_apics, raises, interrupts, fileVars>>

\* apic::initialize, up to the loop over the records.
FindMadt ==
    \/ /\ HasTable(tables, "APIC")
       /\ Runs("find_madt", {})
       /\ cursor' = FirstRecord
       /\ Say(2)
       /\ UNCHANGED <<switchVars, tables, cores, io_apics, raises, interrupts, fileVars>>
    \/ /\ ~HasTable(tables, "APIC")
       /\ RunsTo("find_madt", {}, Index("initialize_core"))
       /\ Say(2)
       /\ UNCHANGED <<switchVars, acpiVars, interrupts, fileVars>>

Madt == FindTable(tables, "APIC").records

\* Mutant of LastRecord: the end is counted from the first record.
LastRecordEarly(next) == next >= DataLength(Madt) - FirstRecord

\* The test that ends the loop of parse_madt_table.
LastRecord(next) == next >= DataLength(Madt)

Record == RecordAt(Madt, cursor)

\* One round of the loop.
ParseMadtRecord ==
    LET next == cursor + Record.length
    IN  /\ RunsTo("parse_madt", {}, IF LastRecord(next) THEN at + 1 ELSE at)
        /\ \/ Record.kind \in {"lapic", "override", "nmi"} /\ Record.length # 0
           \/ Record.kind = "io_apic" /\ io_apics = 0
        /\ cursor' = next
        /\ cores' = cores + (IF Record.kind = "lapic" THEN 1 ELSE 0)
        /\ io_apics' = io_apics + (IF Record.kind = "io_apic" THEN 1 ELSE 0)
        /\ Say(1)
        /\ UNCHANGED <<switchVars, tables, raises, interrupts, fileVars>>

\* A length of zero: the same record is read, and printed, for ever.
ParseMadtHangs ==
    /\ ~panicked /\ ~hung /\ pending = << >>
    /\ ~Done /\ Order[at] = "parse_madt"
    /\ Record.kind \in {"lapic", "override", "nmi"} /\ Record.length = 0
    /\ hung' = TRUE
    /\ UNCHANGED <<at, panicked, up, misused, printVars, switchVars, acpiVars, interrupts, fileVars>>

\* A core that is and stays off, a record that is not handled, a second IO
\* APIC (the first one again, if its length is zero), or no room to map it.
ParseMadtPanics ==
    /\ PanicsIn("parse_madt")
    /\ Record.kind \in {"disabled_lapic", "unhandled", "io_apic"}

\* IoApic::initialize unmasks the keyboard, entry 1, whose vector is zero
\* after a reset; apic::initialize prints the number of cores.
InitializeIoApic ==
    /\ Runs("io_apic", {})
    /\ \/ io_apics = 0 /\ Say(1) /\ UNCHANGED raises
       \/ /\ io_apics = 1
          /\ raises' = raises \cup {222}
          /\ \E n \in RedirectionEntries : n > 1 /\ Say(n + 1)
    /\ UNCHANGED <<switchVars, tables, cursor, cores, io_apics, interrupts, fileVars>>

\* read_entry(1) is None.
InitializeIoApicPanics ==
    /\ PanicsIn("io_apic")
    /\ io_apics = 1 /\ \E n \in RedirectionEntries : n < 2

\* apic::initialize_core starts the timer of the APIC, if there is one.
InitializeCore ==
    /\ Runs("initialize_core", IF "apic_addr" \in up THEN {"apic"} ELSE {})
    /\ raises' = raises \cup (IF "apic_addr" \in up THEN {224} ELSE {})
    /\ Say(1)
    /\ UNCHANGED <<switchVars, tables, cursor, cores, io_apics, interrupts, fileVars>>

DebugDump ==
    /\ Runs("debug_dump", {})
    /\ Say(Len(tables))
    /\ UNCHANGED <<switchVars, acpiVars, interrupts, fileVars>>

\* After time::sleep.
EnableInterrupts ==
    /\ Runs("enable_interrupts", {})
    /\ intr' = TRUE
    /\ UNCHANGED <<buffer, pending, serial, said, switchVars, acpiVars, interrupts, fileVars>>

\* What interrupt_handler prints: the timer, 0xe0, a dot, and the keyboard,
\* 222, a message.
HandlerParts(vector) ==
    LET handled(part) == [by |-> "handler", message |-> 0, part |-> part]
    IN  IF vector = 224 THEN <<handled("text")>> ELSE <<handled("time"), handled("text")>>

\* An interrupt, between any two instructions that do not mask it: its parts
\* stay together, as a handler runs without interrupts.  Both vectors end at
\* the local APIC and return to where interrupts were enabled.
Interrupt ==
    /\ intr /\ interrupts < MaxInterrupts
    /\ \E vector \in raises :
         LET parts == HandlerParts(vector)
         IN  IF early
             THEN buffer' = Fitting(buffer \o parts) /\ UNCHANGED serial
             ELSE serial' = serial \o parts /\ UNCHANGED buffer
    /\ interrupts' = interrupts + 1
    /\ misused' = (misused \/ PrintsEarly \/ ~({"gdt", "idt", "apic"} \subseteq up))
    /\ UNCHANGED <<at, panicked, hung, up, intr, pending, said, switchVars, acpiVars, fileVars>>
-----------------------------------------------------------------------------
\* What the initrd starts with decides how CPIO is set.
ReadInitrd ==
    \E i \in Initrds :
        /\ i.kind \in {"odc", "newc", "crc", "unknown"}
        /\ Runs("initrd", IF i.kind = "unknown" THEN {} ELSE {"cpio"})
        /\ initrd' = i
        /\ Say(IF i.kind = "unknown" THEN 0 ELSE 1)
        /\ UNCHANGED <<switchVars, acpiVars, interrupts, start, file>>

\* Too short for its magic, or the binary format, which CPIO::new refuses.
ReadInitrdPanics == PanicsIn("initrd") /\ \E i \in Initrds : i.kind \in {"short", "binary"}

\* Scheduler::start enters the first thread of the queue, its flags enabling
\* interrupts.
Start ==
    /\ Runs("start", {"current"})
    /\ intr' = TRUE
    /\ UNCHANGED <<buffer, pending, serial, said, switchVars, acpiVars, interrupts, fileVars>>

\* One round of CPIO::read_file for "init".
ReadsEntry == "cpio" \in up /\ initrd.kind = "newc" /\ HeaderAt(initrd.entries, start)

ReadFile ==
    LET entry == EntryAt(initrd.entries, start)
        from  == ContentsFrom(start, entry)
    IN  /\ ReadsEntry
        /\ \/ /\ CorrectPath(entry.name, "init")
              /\ Runs("read_file", {})
              /\ file' = [from |-> from, to |-> from + entry.file_size - 1]
              /\ UNCHANGED start
           \/ /\ ~CorrectPath(entry.name, "init") /\ ~IsTrailer(entry.name)
              /\ RunsTo("read_file", {}, at)
              /\ start' = NextHeader(start, entry)
              /\ UNCHANGED file
        /\ Quiet
        /\ UNCHANGED <<switchVars, acpiVars, interrupts, initrd>>

\* There is no archive, it is of a kind that is not implemented, it ends, or
\* its trailer is reached.
ReadFilePanics ==
    /\ PanicsIn("read_file")
    /\ ReadsEntry => IsTrailer(EntryAt(initrd.entries, start).name)

\* Elf::parse of the file.
ParseFile ==
    /\ \E header \in Files : Parses(file.to - file.from + 1, header)
    /\ Runs("parse_file", {})
    /\ Quiet
    /\ UNCHANGED <<switchVars, acpiVars, interrupts, fileVars>>

ParseFilePanics ==
    /\ PanicsIn("parse_file")
    /\ \E header \in Files : ~Parses(file.to - file.from + 1, header)

Boot ==
    \/ PrintPart \/ EarlyInitialize \/ Banner \/ InitializeHeap \/ DisplayMemoryMap \/ MmInitialize
    \/ ProcessorInit \/ TimeInitialize \/ RegisterDevices \/ AllocationFails
    \/ SwitchEarlyPrint \/ ConsoleInit \/ FlushEarlyPrintBuffer
    \/ AcpiInitialize \/ GdtInitialize \/ IdtInitialize \/ SyscallInitialize
    \/ FindMadt \/ ParseMadtRecord \/ ParseMadtHangs \/ ParseMadtPanics
    \/ EnableApic \/ InitializeIoApic \/ InitializeIoApicPanics \/ InitializeCore
    \/ DebugDump \/ EnableInterrupts \/ PrintInterrupts
    \/ ReadInitrd \/ ReadInitrdPanics \/ CreateInitProcess \/ CreateTestProcess \/ Start
    \/ UseSerialDevice \/ SetReady
    \/ ReadFile \/ ReadFilePanics \/ ParseFile \/ ParseFilePanics \/ ReplaceImage

Next == Boot \/ Interrupt

\* The processor goes on; interrupts are never required.
Spec == Init /\ [][Next]_vars /\ WF_vars(Boot)
-----------------------------------------------------------------------------
\* The parts of a list that handlers did not print.
Own(list) ==
    LET own[i \in 0 .. Len(list)] ==
            IF i = 0 THEN << >>
            ELSE IF list[i].by = "kernel" THEN Append(own[i - 1], list[i])
            ELSE own[i - 1]
    IN  own[Len(list)]

\* What the serial port shows of the kernel's messages, with what the running
\* code is about to print, is what was printed, in that order: of the messages
\* before switch_early_print those that fit in the buffer, once it is flushed,
\* then everything later, panics included.  A handler may print between the
\* time and the text of a message; nothing is lost, doubled or reordered by it.
OutputInOrder ==
    Own(serial) \o pending =
        IF at <= Index("switch_early_print") THEN << >>
        ELSE (IF flushed THEN Fitting(Parts(1, switched)) ELSE << >>)
                 \o Parts(switched + 1, said)

\* No stage, no print and no interrupt uses what is not yet initialised: the
\* heap, the memory manager, core!(), the port, the devices, and in a handler the
\* descriptor tables and the local APIC it acknowledges at.
NothingUsedEarly == ~misused

\* The records of the first MADT are all read: every usable core is counted
\* and the IO APIC found, only a record the kernel refuses stops it, and only
\* one without a length keeps it.
MadtRead ==
    HasTable(tables, "APIC") =>
        LET first == CHOOSE i \in DOMAIN tables :
                        /\ tables[i].signature = "APIC"
                        /\ \A j \in DOMAIN tables : tables[j].signature = "APIC" => i <= j
            records == tables[first].records
            Number(kind) == Cardinality({i \in DOMAIN records : records[i].kind = kind})
        IN  /\ at > Index("parse_madt") =>
                   /\ cores = Number("lapic") /\ io_apics = Number("io_apic")
                   /\ Number("disabled_lapic") + Number("unhandled") = 0
            /\ at = Index("parse_madt") /\ panicked =>
                   Number("disabled_lapic") + Number("unhandled") + Number("io_apic") > 0
            /\ hung => \E i \in DOMAIN records : records[i].length = 0

\* The entries a path can be found in: those before the trailer.
Listed(entries) == {i \in DOMAIN entries : \A j \in 1 .. i : ~IsTrailer(entries[j].name)}

\* read_file finds "init" exactly where the format puts the contents of the
\* first entry of that name, and only gives up when there is none.
ReadsRightFile ==
    LET inits == IF initrd.kind # "newc" THEN {}
                 ELSE {i \in Listed(initrd.entries) : initrd.entries[i].name.text = "init"}
    IN  /\ at > Index("read_file") =>
               \E i \in inits :
                   /\ \A j \in inits : i <= j
                   /\ file.from = DataOffset(initrd.entries, i)
                   /\ file.to = file.from + initrd.entries[i].file_size - 1
        /\ at = Index("read_file") /\ panicked => inits = {}

\* Booting ends, in the loop of kernel_init_thread or in that of a panic with
\* everything printed, whatever the archive holds and however often it is
\* interrupted; only a record of the MADT without a length can keep it.
BootEnds == <>(hung \/ ((panicked \/ Done) /\ pending = << >>))
=============================================================================
