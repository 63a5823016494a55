------------------------------ MODULE Archive ------------------------------
(***************************************************************************)
(* The commands of fsutil.c that move files between the file system and a  *)
(* ustar archive on the scratch device, and the headers of ustar.c.  The   *)
(* file system is a function from names to contents (Filesys and FileData  *)
(* model it).  A sector of the scratch device holds a header or bytes; a   *)
(* header is kept field by field, its numeric fields as octal digits.      *)
(***************************************************************************)
EXTENDS Integers, Sequences, SequencesExt, FiniteSetsExt, Functions

CONSTANTS
  SectorBytes,  \* BLOCK_SECTOR_SIZE
  ScratchSize,  \* sectors of the scratch device
  ArchiveName,  \* names of files
  ArchiveLength,        \* lengths of files
  FieldSize,    \* characters of a numeric field, the null that ends it included
  StrayBytes,   \* values of the byte that follows a buffer in memory
  MaxName,      \* length of a path
  MaxBoots      \* times the machine starts

VARIABLES
  files,        \* the file system
  scratch,      \* the scratch device, sectors from 0
  extract_sector, append_sector,        \* the static variables sector
  halted,       \* PANIC
  expected, archive,    \* what the commands given mean for files and scratch
  ended,        \* a sector of zeros follows the archive
  boots,
  path          \* a file name, for strip_antisocial_prefixes

archiveVars == <<files, scratch, extract_sector, append_sector, halted,
                 expected, archive, ended, boots, path>>

ArchiveData == {[i \in 1 .. n |-> i % 2] : n \in ArchiveLength}

Zeros == [i \in 1 .. SectorBytes |-> 0]
Bytes(b) == [header |-> <<>>, bytes |-> b]
Blank == Bytes(Zeros)

ArchiveInit ==
  /\ files = <<>> /\ expected = <<>>
  /\ scratch = [s \in 0 .. ScratchSize - 1 |-> Blank]
  /\ extract_sector = 0 /\ append_sector = 0
  /\ halted = FALSE
  /\ archive = <<>> /\ ended = TRUE
  /\ boots = 0 /\ path = <<>>

-----------------------------------------------------------------------------
(* ustar.c *)

\* Drops leading "/", "./" and "../" from a path, a sequence of characters.
RECURSIVE Stripped(_)
Stripped(name) ==
  IF \/ IsPrefix(<<"/">>, name) \/ IsPrefix(<<".", "/">>, name)
     \/ IsPrefix(<<".", ".", "/">>, name)
    THEN Stripped(SubSeq(name, SelectInSeq(name, LAMBDA c : c = "/") + 1, Len(name)))
    ELSE name

strip_antisocial_prefixes(name) ==
  IF Stripped(name) \in {<<>>, <<".", ".">>} THEN <<".">> ELSE Stripped(name)

\* Conversion %0..o: a number as octal digits, with leading zeros.
Octal(n) == [i \in 1 .. FieldSize - 1 |-> (n \div (8 ^ (FieldSize - 1 - i))) % 8]

\* The value of a field of octal digits.
RECURSIVE parse_octal_field(_)
parse_octal_field(digits) ==
  IF digits = <<>> THEN 0 ELSE parse_octal_field(Front(digits)) * 8 + Last(digits)

\* The sum of the bytes of a header: of its digits, and of a name and a type that
\* have a byte each.
calculate_chksum(name, type, size) ==
  FoldSeq(LAMBDA d, sum : d + sum, 0, size) + name + (IF type = "regular" THEN 1 ELSE 2)

ustar_make_header(name, type, size) ==
  [header |-> << [name |-> name, type |-> type, size |-> Octal(size),
                  chksum |-> Octal(calculate_chksum(name, type, Octal(size)))] >>,
   bytes |-> <<>>]

is_all_zeros(sector) == sector.header = <<>> /\ \A i \in DOMAIN sector.bytes : sector.bytes[i] = 0

\* USTAR_EOF, an error, or what the header says.
ustar_parse_header(sector) ==
  IF is_all_zeros(sector) THEN [type |-> "eof", name |-> 0, size |-> 0]
  ELSE IF sector.header = <<>> THEN [type |-> "error", name |-> 0, size |-> 0]
  ELSE LET h == sector.header[1]
       IN  IF parse_octal_field(h.chksum) # calculate_chksum(h.name, h.type, h.size)
             THEN [type |-> "error", name |-> 0, size |-> 0]
             ELSE [type |-> h.type, name |-> h.name,
                   size |-> IF h.type = "regular" THEN parse_octal_field(h.size) ELSE 0]

-----------------------------------------------------------------------------
(* fsutil_append *)

Padded(bytes) == [i \in 1 .. SectorBytes |-> IF i <= Len(bytes) THEN bytes[i] ELSE 0]

\* The chunks of the copy, a sector each.
RECURSIVE Chunks(_)
Chunks(bytes) ==
  IF bytes = <<>> THEN <<>>
  ELSE << Bytes(Padded(SubSeq(bytes, 1, Min({SectorBytes, Len(bytes)})))) >>
       \o Chunks(SubSeq(bytes, SectorBytes + 1, Len(bytes)))

MemberSectors(m) == << ustar_make_header(m.name, m.type, Len(m.data)) >> \o Chunks(m.data)

\* Variant of EndMarker: the position moves past the marker.
EndMarkerKept(sector) == sector + 1

\* The sector where the next call of fsutil_append starts.
EndMarker(sector) == sector

\* The header, the chunks and the end marker.  The marker is written twice to
\* the same sector, the second time from buffer + 1: its last byte is the one
\* that follows the buffer.  Writing past the end of the device is a PANIC.
fsutil_append(name) ==
  /\ ~halted /\ name \in DOMAIN files
  /\ \E stray \in StrayBytes :
       LET new == [type |-> "regular", name |-> name, data |-> files[name]]
           member == MemberSectors(new)
           marker == Bytes([Zeros EXCEPT ![SectorBytes] = stray])
           all == Append(member, marker)
           last == append_sector + Len(member)
       IN  /\ scratch' = [s \in DOMAIN scratch |->
                            IF s \in append_sector .. last
                              THEN all[s - append_sector + 1] ELSE scratch[s]]
           /\ halted' = (last >= ScratchSize)
           /\ append_sector' = Min({EndMarker(last), ScratchSize})
           /\ archive' = Append(IF append_sector = 0 THEN <<>> ELSE archive, new)
           /\ ended' = (last < ScratchSize /\ stray = 0)
  /\ UNCHANGED <<files, extract_sector, expected, boots, path>>

-----------------------------------------------------------------------------
(* fsutil_extract *)

\* The bytes of a file of the given size that starts in a sector.  The file was
\* created full of zeros, and what lies past the end of the device is not read.
FileBytes(sector, size) ==
  [i \in 1 .. size |->
     LET s == sector + ((i - 1) \div SectorBytes)
     IN  IF s < ScratchSize THEN scratch[s].bytes[((i - 1) % SectorBytes) + 1] ELSE 0]

SectorsOf(size) == (size + SectorBytes - 1) \div SectorBytes

\* The loop, from a sector on: the files it creates, where it stops, and whether
\* it ends in a PANIC: a bad header, the end of the device, or a file that exists.
RECURSIVE ExtractFrom(_, _)
ExtractFrom(sector, fs) ==
  IF sector >= ScratchSize THEN [fs |-> fs, sector |-> ScratchSize, panic |-> TRUE]
  ELSE LET h == ustar_parse_header(scratch[sector])
           created == [n \in DOMAIN fs \cup {h.name} |->
                         IF n = h.name THEN FileBytes(sector + 1, h.size) ELSE fs[n]]
       IN  CASE h.type = "error" -> [fs |-> fs, sector |-> sector + 1, panic |-> TRUE]
             [] h.type = "eof" -> [fs |-> fs, sector |-> sector + 1, panic |-> FALSE]
             [] h.type = "directory" -> ExtractFrom(sector + 1, fs)
             [] OTHER ->
                  IF h.name \in DOMAIN fs
                    THEN [fs |-> fs, sector |-> sector + 1, panic |-> TRUE]
                    ELSE ExtractFrom(sector + 1 + SectorsOf(h.size), created)

\* What extraction means, from the members alone.  It fails at the first regular
\* member whose name is taken, and at the end of an archive that has none.  The
\* members before become files, with zeros for what did not fit on the device.
Clash(i) ==
  /\ archive[i].type = "regular"
  /\ \/ archive[i].name \in DOMAIN expected
     \/ \E j \in 1 .. i - 1 : archive[j].type = "regular" /\ archive[j].name = archive[i].name

ExtractFails == ~ended \/ \E i \in DOMAIN archive : Clash(i)

StartOf(i) == FoldFunctionOnSet(+, 0, [j \in DOMAIN archive |-> 1 + SectorsOf(Len(archive[j].data))],
                                1 .. i - 1)
Fitting(i) ==
  [k \in DOMAIN archive[i].data |->
     IF k <= (ScratchSize - StartOf(i) - 1) * SectorBytes THEN archive[i].data[k] ELSE 0]

Extracted ==
  LET taken == {i \in DOMAIN archive : /\ archive[i].type = "regular"
                                       /\ \A j \in 1 .. i : ~Clash(j)}
  IN  [n \in DOMAIN expected \cup {archive[i].name : i \in taken} |->
         IF n \in DOMAIN expected THEN expected[n]
         ELSE Fitting(CHOOSE i \in taken : archive[i].name = n)]

\* The archive's first two sectors are erased.  As its comment asks, extraction
\* precedes all appending; it is done once after the machine starts.
fsutil_extract ==
  /\ ~halted /\ extract_sector = 0 /\ append_sector = 0
  /\ \E x \in {ExtractFrom(0, files)} :
       /\ files' = x.fs
       /\ extract_sector' = x.sector
       /\ halted' = x.panic
       /\ scratch' = IF x.panic THEN scratch ELSE [scratch EXCEPT ![0] = Blank, ![1] = Blank]
  /\ expected' = Extracted
  /\ archive' = IF ExtractFails THEN archive ELSE <<>>
  /\ UNCHANGED <<ended, append_sector, boots, path>>

fsutil_rm(name) ==
  /\ ~halted /\ name \in DOMAIN files
  /\ files' = Restrict(files, DOMAIN files \ {name})
  /\ expected' = Restrict(expected, DOMAIN expected \ {name})
  /\ UNCHANGED <<scratch, extract_sector, append_sector, halted, archive, ended, boots, path>>

\* An archive as the host writes it.
Sectors(members) == FlattenSeq([i \in DOMAIN members |-> MemberSectors(members[i])])
Image(members) == Sectors(members) \o <<Blank, Blank>>

\* The machine starts again, with the scratch device as it was or, after the host
\* has put an archive there, with that.
Boot(members) ==
  /\ boots < MaxBoots /\ boots' = boots + 1
  /\ scratch' = IF members = <<>> THEN scratch
                ELSE [s \in DOMAIN scratch |->
                        IF s < Len(Image(members)) THEN Image(members)[s + 1] ELSE Blank]
  /\ archive' = IF members = <<>> THEN archive ELSE members
  /\ ended' = (ended \/ members # <<>>)
  /\ halted' = FALSE /\ extract_sector' = 0 /\ append_sector' = 0
  /\ UNCHANGED <<files, expected, path>>

\* A path is given to strip_antisocial_prefixes, before anything else happens.
PathGiven ==
  /\ archive = <<>> /\ files = <<>> /\ path = <<>>
  /\ path' \in UNION {[1 .. n -> {"/", ".", "a"}] : n \in 1 .. MaxName}
  /\ UNCHANGED <<files, scratch, extract_sector, append_sector, halted, expected, archive,
                 ended, boots>>

Members ==
  [type : {"regular"}, name : ArchiveName, data : ArchiveData]
    \cup [type : {"directory"}, name : ArchiveName, data : {<<>>}]

HostArchives ==
  {m \in UNION {[1 .. n -> Members] : n \in 0 .. 2} :
     Len(Image(m)) <= ScratchSize /\ \A i, j \in DOMAIN m : m[i].name = m[j].name => i = j}

ArchiveNext ==
  \/ PathGiven
  \/ /\ path = <<>>
     /\ \/ fsutil_extract
        \/ \E name \in ArchiveName : fsutil_append(name) \/ fsutil_rm(name)
        \/ \E members \in HostArchives : Boot(members)

ArchiveSpec == ArchiveInit /\ [][ArchiveNext]_archiveVars

-----------------------------------------------------------------------------
\* Files and archive hold what the commands say.  The files are those the archives
\* extracted held, byte for byte, less the ones removed, and extraction panics only
\* where a name is taken or the archive has no end.  The archive on the scratch
\* device, read from its start, has the members appended since the machine started,
\* or those it had before, every size and checksum reads back as it was written,
\* and a sector of zeros follows the last one, unless fsutil_append put another byte
\* there or found no room.  A path without its antisocial prefixes has none left,
\* is not empty and does not lead to the parent directory.
ArchiveExact ==
  /\ files = expected
  /\ ~halted /\ extract_sector = 0 /\ append_sector = 0 =>
       ExtractFrom(0, files).panic = ExtractFails
  /\ \A i \in DOMAIN archive :
       /\ ustar_parse_header(scratch[StartOf(i)]) =
            [type |-> archive[i].type, name |-> archive[i].name, size |-> Len(archive[i].data)]
       /\ FileBytes(StartOf(i) + 1, Len(archive[i].data)) = Fitting(i)
  /\ ended => is_all_zeros(scratch[StartOf(Len(archive) + 1)])
  /\ LET stripped == strip_antisocial_prefixes(path)
     IN  /\ stripped \notin {<<>>, <<".", ".">>}
         /\ \A p \in {<<"/">>, <<".", "/">>, <<".", ".", "/">>} : ~IsPrefix(p, stripped)
         /\ IsSuffix(stripped, path) \/ stripped = <<".">>

\* What the comment of fsutil_append says of the end-of-archive marker: two
\* consecutive sectors full of zeros follow the file just appended.
EndMarked ==
  append_sector > 0 /\ ~halted =>
    \A s \in {append_sector, append_sector + 1} :
      s < ScratchSize /\ is_all_zeros(scratch[s])
=============================================================================
