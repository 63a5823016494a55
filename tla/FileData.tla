------------------------------ MODULE FileData ------------------------------
(***************************************************************************)
(* Contents of a file: inode_read_at and inode_write_at of inode.c, which  *)
(* cut a range of bytes into chunks that lie in one sector each, and the   *)
(* operations of file.c built on them.  The file's sectors lie between     *)
(* other sectors of the disk.  Sectors are counted from FirstSector, bytes *)
(* of a file from 0.                                                       *)
(***************************************************************************)
EXTENDS Integers, Sequences, SequencesExt, FiniteSetsExt

CONSTANTS
  BLOCK_SECTOR_SIZE,
  DataByte,     \* values of a byte, 0 among them
  FileLength,   \* data.length of the inode
  FirstSector,  \* data.start of the inode
  DataDisk,     \* sectors of the disk
  MaxRequest    \* largest size and offset of a request

VARIABLES
  sector_data,  \* the bytes of every sector
  pos, deny_write,      \* of the open file
  content       \* the bytes written to the file, in order: its meaning

fileDataVars == <<sector_data, pos, deny_write, content>>

Offsets == 0 .. BLOCK_SECTOR_SIZE - 1
ZeroSector == [o \in Offsets |-> 0]
OtherData == [o \in Offsets |-> Max(DataByte)]

bytes_to_sectors(size) == (size + BLOCK_SECTOR_SIZE - 1) \div BLOCK_SECTOR_SIZE
OwnSectors == FirstSector .. FirstSector + bytes_to_sectors(FileLength) - 1

\* inode_create has written zeros; the other sectors hold anything else.
FileDataInit ==
  /\ sector_data = [s \in 0 .. DataDisk - 1 |->
                      IF s \in OwnSectors THEN ZeroSector ELSE OtherData]
  /\ pos = 0 /\ deny_write = FALSE
  /\ content = [i \in 1 .. FileLength |-> 0]

-----------------------------------------------------------------------------
byte_to_sector(p) == IF p < FileLength THEN FirstSector + p \div BLOCK_SECTOR_SIZE ELSE -1

\* Bytes of a request that are in the file and in the sector of its offset.
ChunkSize(size, offset) ==
  Min({size, FileLength - offset, BLOCK_SECTOR_SIZE - (offset % BLOCK_SECTOR_SIZE)})

\* The chunk is a whole sector, and needs no bounce buffer.
Whole(chunk, offset) == offset % BLOCK_SECTOR_SIZE = 0 /\ chunk = BLOCK_SECTOR_SIZE

\* memory: malloc finds room for the bounce buffer.
RECURSIVE inode_read_at(_, _, _)
inode_read_at(size, offset, memory) ==
  LET chunk == ChunkSize(size, offset)
  IN  IF size <= 0 \/ chunk <= 0 \/ ~(memory \/ Whole(chunk, offset)) THEN <<>>
      ELSE [i \in 1 .. chunk |->
              sector_data[byte_to_sector(offset)][(offset % BLOCK_SECTOR_SIZE) + i - 1]]
           \o inode_read_at(size - chunk, offset + chunk, memory)

\* The sector a chunk is copied into: what is on disk, if there is data before
\* or after the chunk, and zeros otherwise.
Bounce(old, chunk, ofs) ==
  IF ofs > 0 \/ chunk < BLOCK_SECTOR_SIZE - ofs THEN old ELSE ZeroSector

\* Variant of Overlaid: the sector starts from zeros if the chunk starts it.
OverlaidOnZeros(old, chunk, ofs, bytes) ==
  [o \in Offsets |-> IF o \in ofs .. ofs + chunk - 1 THEN bytes[o - ofs + 1]
                     ELSE IF ofs > 0 THEN old[o] ELSE 0]

Overlaid(old, chunk, ofs, bytes) ==
  [o \in Offsets |-> IF o \in ofs .. ofs + chunk - 1 THEN bytes[o - ofs + 1]
                     ELSE Bounce(old, chunk, ofs)[o]]

\* The sectors after bytes are written to the file from offset, and the number
\* of bytes written.
RECURSIVE inode_write_at(_, _, _, _, _)
inode_write_at(sectors, bytes, offset, memory, written) ==
  LET chunk == ChunkSize(Len(bytes), offset)
      s == byte_to_sector(offset)
  IN  IF deny_write \/ bytes = <<>> \/ chunk <= 0 \/ ~(memory \/ Whole(chunk, offset))
        THEN [sectors |-> sectors, written |-> written]
      ELSE inode_write_at(
             [sectors EXCEPT ![s] = Overlaid(@, chunk, offset % BLOCK_SECTOR_SIZE, bytes)],
             SubSeq(bytes, chunk + 1, Len(bytes)), offset + chunk, memory, written + chunk)

-----------------------------------------------------------------------------
(* Calls. *)

\* Bytes a request should transfer: those in the file and, without memory, only
\* whole sectors.
Transferred(offset, size, memory) ==
  LET in_file == Min({size, Max({FileLength - offset, 0})})
  IN  IF memory THEN in_file
      ELSE IF offset % BLOCK_SECTOR_SIZE # 0 THEN 0
      ELSE (in_file \div BLOCK_SECTOR_SIZE) * BLOCK_SECTOR_SIZE

\* What a write of bytes from offset means for the file: those transferred take the
\* place of those that were there, and none while writes are denied.
Patched(offset, bytes, memory) ==
  IF deny_write THEN content
  ELSE [i \in 1 .. FileLength |-> IF i - offset \in 1 .. Transferred(offset, Len(bytes), memory)
                                  THEN bytes[i - offset] ELSE content[i]]

\* file_write_at and, at the position of the file and moving it, file_write.
WriteCall(offset, bytes, memory, moves) ==
  \E r \in {inode_write_at(sector_data, bytes, offset, memory, 0)} :
    /\ sector_data' = r.sectors
    /\ content' = Patched(offset, bytes, memory)
    /\ pos' = IF moves THEN pos + r.written ELSE pos
    /\ UNCHANGED deny_write

file_write(bytes, memory) == WriteCall(pos, bytes, memory, TRUE)
file_write_at(bytes, offset, memory) == WriteCall(offset, bytes, memory, FALSE)

file_read(size, memory) ==
  /\ pos' = pos + Len(inode_read_at(size, pos, memory))
  /\ UNCHANGED <<sector_data, deny_write, content>>

file_seek(new_pos) == pos' = new_pos /\ UNCHANGED <<sector_data, deny_write, content>>

\* file_deny_write and file_allow_write, with one file open.
DenyCall == deny_write' = ~deny_write /\ UNCHANGED <<sector_data, pos, content>>

Requests == UNION {[1 .. n -> DataByte] : n \in 0 .. MaxRequest}

FileDataNext ==
  \/ \E bytes \in Requests, memory \in BOOLEAN :
       \/ file_write(bytes, memory)
       \/ \E offset \in 0 .. FileLength + 1 : file_write_at(bytes, offset, memory)
  \/ \E size \in 0 .. MaxRequest, memory \in BOOLEAN : file_read(size, memory)
  \/ \E new_pos \in 0 .. FileLength + 1 : file_seek(new_pos)
  \/ DenyCall

-----------------------------------------------------------------------------
\* A file holds what was written to it, and nothing else on the disk changes: a
\* read, of any size from any offset, returns the bytes last written there up to
\* the end of the file (or, without memory, up to the first sector it needs only a
\* part of); a write says how many bytes it wrote, none while writes are denied; the
\* sectors outside the file are untouched.  The end of the last sector, past the end
\* of the file, stays zero.
FileDataExact ==
  /\ \A size \in 0 .. MaxRequest, offset \in 0 .. FileLength + 1, memory \in BOOLEAN :
       LET n == Transferred(offset, size, memory)
           zeros == [i \in 1 .. size |-> 0]
       IN  /\ inode_read_at(size, offset, memory) = SubSeq(content, offset + 1, offset + n)
           /\ inode_write_at(sector_data, zeros, offset, memory, 0).written
                = IF deny_write THEN 0 ELSE n
  /\ \A s \in DOMAIN sector_data \ OwnSectors : sector_data[s] = OtherData
  /\ \A s \in OwnSectors, o \in Offsets :
       (s - FirstSector) * BLOCK_SECTOR_SIZE + o >= FileLength => sector_data[s][o] = 0
=============================================================================
