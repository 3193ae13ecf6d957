---------------------------- MODULE CpioArchive ----------------------------
(***************************************************************************)
(* The initrd, a cpio archive in the newc format, and the walk over it in  *)
(* kernel/src/cpio.rs.  Of the bytes only the places of headers, names and *)
(* contents are kept.                                                      *)
(***************************************************************************)
EXTENDS Integers, Sequences

HeaderSize == 110
Trailer == "TRAILER!!!"

\* A name is its text, "init", "other" or the trailer, and whether "./" is
\* in front of it.  c_namesize is its length with a final zero.
NameSize(name) ==
    (CASE name.text = "init" -> 5 [] name.text = "other" -> 6 [] OTHER -> 11)
        + (IF name.dotted THEN 2 ELSE 0)

\* The format: headers and contents lie at multiples of four of the archive.
Align4(n) == ((n + 3) \div 4) * 4
DataFrom(header, e) == Align4(header + HeaderSize + NameSize(e.name))
HeaderOffset(entries) ==
    LET offset[i \in 1 .. Len(entries) + 1] ==
            IF i = 1 THEN 0
            ELSE Align4(DataFrom(offset[i - 1], entries[i - 1]) + entries[i - 1].file_size)
    IN  offset
ArchiveSize(entries) == HeaderOffset(entries)[Len(entries) + 1]
DataOffset(entries, i) == DataFrom(HeaderOffset(entries)[i], entries[i])
-----------------------------------------------------------------------------
\* Mutant of PadTo4: a multiple of four is padded by four.
PadTo4Full(len) == 4 - (len % 4)

\* pad_to_4
PadTo4(len) == IF len % 4 = 0 THEN 0 ELSE 4 - (len % 4)

\* The comparison of a name with the path asked for, which is never dotted.
CorrectPath(name, path) == name.text = path

\* The comparison with the trailer's name, as it stands.
IsTrailer(name) == name = [text |-> Trailer, dotted |-> FALSE]

\* CPIOInfo::parse finds a header at `start'.
HeaderAt(entries, start) ==
    \E i \in DOMAIN entries : HeaderOffset(entries)[i] = start
EntryAt(entries, start) ==
    entries[CHOOSE i \in DOMAIN entries : HeaderOffset(entries)[i] = start]

\* Where read_file looks for the contents of the entry at `start' ...
ContentsFrom(start, e) ==
    start + HeaderSize + NameSize(e.name) + PadTo4(HeaderSize + NameSize(e.name))

\* Mutant of NextHeader: the search is not moved on.
NextHeaderSame(start, e) == start

\* ... and where for the next header.
NextHeader(start, e) == ContentsFrom(start, e) + e.file_size + PadTo4(e.file_size)
=============================================================================
