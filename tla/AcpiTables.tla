----------------------------- MODULE AcpiTables -----------------------------
(***************************************************************************)
(* What the kernel reads of the firmware's ACPI tables: the root table's   *)
(* list of tables (kernel/src/acpi.rs) and the records of the MADT         *)
(* (kernel/src/arch/x86_64/apic.rs).                                       *)
(***************************************************************************)
EXTENDS Integers, Sequences

\* A record of the MADT: what parse_madt_table makes of its type and flags,
\* and its length byte, which the firmware may have set to anything.
RecordKinds == {"lapic", "disabled_lapic", "io_apic", "override", "nmi", "unhandled"}
Records == [kind : RecordKinds, length : 0 .. 255]

\* What a record takes of the table: type and length are there in any case.
Space(record) == IF record.length = 0 THEN 2 ELSE record.length

\* The address of the local APICs and the flags come first.
FirstRecord == 8

\* Where the records lie; the last offset is Table::data_length.
RecordOffset(madt) ==
    LET offset[i \in 1 .. Len(madt) + 1] ==
            IF i = 1 THEN FirstRecord ELSE offset[i - 1] + Space(madt[i - 1])
    IN  offset
DataLength(madt) == RecordOffset(madt)[Len(madt) + 1]
RecordAt(madt, start) == madt[CHOOSE i \in DOMAIN madt : RecordOffset(madt)[i] = start]

\* A table is its signature and, for a MADT, its records.  find_table: the
\* first table with a signature.
HasTable(tables, signature) == \E i \in DOMAIN tables : tables[i].signature = signature
FindTable(tables, signature) ==
    tables[CHOOSE i \in DOMAIN tables :
               /\ tables[i].signature = signature
               /\ \A j \in 1 .. i - 1 : tables[j].signature # signature]
=============================================================================
