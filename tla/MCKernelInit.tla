---------------------------- MODULE MCKernelInit ----------------------------
(* Small firmware tables and archives for KernelInit. *)
EXTENDS KernelInit, SequencesExt

CONSTANT FileSizes        \* sizes of the files of an archive

Table(signature, records) == [signature |-> signature, records |-> records]

\* Records with the lengths that ACPI gives them, and two without a length.
Proper == [lapic |-> 8, disabled_lapic |-> 8, io_apic |-> 12, override |-> 10, nmi |-> 6,
           unhandled |-> 16]
MCRecords ==
    {[kind |-> k, length |-> Proper[k]] : k \in DOMAIN Proper}
        \cup {[kind |-> k, length |-> 0] : k \in {"lapic", "io_apic"}}
Lapic == [kind |-> "lapic", length |-> 8]
IoApic == [kind |-> "io_apic", length |-> 12]
MadtRecords ==
    {<<r>> : r \in MCRecords}
        \cup {<<r, s>> : r \in MCRecords, s \in {Lapic, IoApic}}
        \cup {<<Lapic, r>> : r \in MCRecords}

\* No MADT, one after another table, or one before a second MADT.
MCRootTables ==
    {<<Table("FACP", << >>)>>}
        \cup {<<Table("FACP", << >>), Table("APIC", r)>> : r \in MadtRecords}
        \cup {<<Table("APIC", <<IoApic>>), Table("APIC", <<Lapic, Lapic>>)>>}

FileEntry(text, dotted, size) ==
    [name |-> [text |-> text, dotted |-> dotted], file_size |-> size]
FileEntries ==
    {FileEntry("init", dotted, size) : dotted \in BOOLEAN, size \in FileSizes}
        \cup {FileEntry("other", FALSE, size) : size \in FileSizes}
        \cup {FileEntry(Trailer, TRUE, 3)}
Archives ==
    {<< >>} \cup {<<e>> : e \in FileEntries}
        \cup {<<e, FileEntry("init", FALSE, 3)>> : e \in FileEntries}

\* An archive of a kind the kernel refuses, with its trailer, and cut short.
MCInitrds ==
    {[kind |-> kind, entries |-> << >>] :
        kind \in {"short", "binary", "odc", "crc", "unknown"}}
    \cup {[kind |-> "newc", entries |-> a \o <<FileEntry(Trailer, FALSE, 0)>>] : a \in Archives}
    \cup {[kind |-> "newc", entries |-> <<e>>] : e \in FileEntries}

\* A program for this machine, and what the parser refuses.
Program ==
    [magic |-> TRUE, class |-> 2, data |-> 1, os_abi |-> 0, typ |-> 2, machine |-> 62,
     ehsize |-> 64]
MCFiles == {Program, [Program EXCEPT !.class = 1], [Program EXCEPT !.os_abi = 5],
            [Program EXCEPT !.typ = 5], [Program EXCEPT !.machine = 3]}
=============================================================================
