------------------------------ MODULE ElfImage ------------------------------
(***************************************************************************)
(* The header of an ELF file and its parser in shared/elf/src/lib.rs.      *)
(***************************************************************************)
EXTENDS Integers

\* The fields Elf::parse looks at.
Headers == [magic : BOOLEAN, class : 0 .. 255, data : 0 .. 255, os_abi : 0 .. 255,
            typ : 0 .. 65535, machine : 0 .. 65535, ehsize : 0 .. 65535]

\* The five TryFrom of the parser.
IdentClass(value) ==
    CASE value = 1 -> "Class32" [] value = 2 -> "Class64" [] OTHER -> "InvalidIdentClass"
IdentData(value) ==
    CASE value = 1 -> "LittleEndian" [] value = 2 -> "BigEndian" [] OTHER -> "InvalidIdentData"
IdentOsAbi(value) ==
    CASE value = 0 -> "SystemV"
      [] value \in 1 .. 18 \ {5} -> "another system"
      [] OTHER -> "InvalidIdentOsAbi"
ElfType(value) ==
    IF value \in 0 .. 4 \cup 65024 .. 65535 THEN "known" ELSE "InvalidElfType"
Machine(value) == IF value = 62 THEN "AMD64" ELSE "InvalidMachine"

\* Elf::parse returns Ok.  Otherwise it returns an error, or panics in an
\* assertion or a slice; its callers in the kernel panic at an error.
Parses(length, header) ==
    /\ length >= 64
    /\ header.magic
    /\ IdentClass(header.class) = "Class64"
    /\ IdentData(header.data) = "LittleEndian"
    /\ IdentOsAbi(header.os_abi) = "SystemV"
    /\ ElfType(header.typ) # "InvalidElfType"
    /\ Machine(header.machine) # "InvalidMachine"
    /\ header.ehsize = 64
=============================================================================
