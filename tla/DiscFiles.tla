----------------------------- MODULE DiscFiles ------------------------------
(***************************************************************************)
(* The files of the disc as the kernel's file calls see them               *)
(* (source/runtime/runtime.c): the mount, the ISO9660 name lookup, the      *)
(* sixteen file slots behind A0(00)-A0(04), and the copy of a file's bytes  *)
(* into guest memory.                                                      *)
(*                                                                         *)
(* A byte of the disc is named by where it stands, <<lba, offset>>; a       *)
(* directory is the records its sectors hold, the zero bytes behind the     *)
(* last one of a sector skipped.  A name is a stem and whether a ";1"       *)
(* follows it.  What a failed read leaves of a directory buffer is fresh    *)
(* from malloc and may be an older directory.  Bytes taken from behind the  *)
(* sector buffer on the stack are FsJunk.  The copy stores byte by byte,   *)
(* under the guard R518; the decoder, the movie and the module loader,     *)
(* whose stores the guard lets pass, are not at work.                      *)
(***************************************************************************)
EXTENDS Integers, Sequences, FiniteSets

CONSTANTS
  FsSector,     \* bytes of a sector (2048)
  FsSlots,      \* file slots (16)
  FsWord,       \* values of a 32-bit word (2^32)
  FsSectors,    \* the sectors that can be read
  FsVolume,     \* TRUE when sector 16 holds a volume
  FsRoot,       \* the root directory, an extent
  FsRecords,    \* the records of each directory sector, in order
  FsThrees,     \* the places that hold the byte 3
  FsUpper,      \* the stems and their upper-case forms
  FsPaths,      \* paths the guest asks for: sequences of names
  FsRam,        \* bytes of guest memory a copy may land in
  FsTargets,    \* addresses of reads
  FsLengths,    \* lengths of reads
  FsOffsets,    \* offsets of seeks
  FsMaxCalls    \* bound: calls of the guest

FsExtents == [lba : Nat, size : Nat]
FsNames   == [stem : DOMAIN FsUpper, version : BOOLEAN]

ASSUME FsAssumption ==
  /\ FsSector \in Nat \ {0} /\ FsSlots \in Nat \ {0} /\ FsWord \in Nat \ {0}
  /\ FsSectors \subseteq Nat /\ FsVolume \in BOOLEAN /\ FsRoot \in FsExtents
  /\ FsPaths \subseteq Seq(FsNames)
  /\ DOMAIN FsRecords \subseteq Nat
  /\ \A l \in DOMAIN FsRecords : \A i \in DOMAIN FsRecords[l] :
       FsRecords[l][i].extent \in FsExtents
  /\ FsRam \in Nat /\ FsTargets \subseteq Nat /\ FsLengths \subseteq Nat
  /\ FsOffsets \subseteq Int /\ FsMaxCalls \in Nat

VARIABLES
  g_disc,       \* TRUE when an image is mounted
  g_files,      \* the file slots
  fs_ram,       \* the guest memory the reads fill
  fs_call,      \* the call last answered: what it was, its slot, its result
  fs_calls      \* calls so far

fs_vars == <<g_disc, g_files, fs_ram, fs_call, fs_calls>>

FsFds == 0..(FsSlots - 1)
FsFailed == FsWord - 1       \* -1, as the guest sees it
FsNowhere == [lba |-> 0, size |-> FsWord]      \* the answer "not found"

-----------------------------------------------------------------------------
(* The lookup of a name.                                                   *)

\* iso_name_eq: the version of the record is dropped, one the guest asks
\* for is not, and case does not matter.
FsSameName(record, wanted) ==
  ~wanted.version /\ FsUpper[record.stem] = FsUpper[wanted.stem]

FsSectorsOf(extent) ==
  {extent.lba + k : k \in {k \in 0..extent.size : k * FsSector < extent.size}}

\* iso_lookup, on the sectors from first on: the first record of that name,
\* file or directory.
FsFirstOf(sectors, name) ==
  LET hits == {h \in sectors \X (1..20) :
                 /\ h[1] \in DOMAIN FsRecords
                 /\ h[2] \in DOMAIN FsRecords[h[1]]
                 /\ FsSameName(FsRecords[h[1]][h[2]].name, name)}
      first == CHOOSE h \in hits : \A o \in hits :
                 h[1] < o[1] \/ (h[1] = o[1] /\ h[2] <= o[2])
  IN  IF hits = {} THEN FsNowhere ELSE FsRecords[first[1]][first[2]].extent

\* A directory is loaded sector by sector until one cannot be read; the
\* buffer behind it may hold any directory that was there before.
FsLookup(dir, name) ==
  LET wanted == FsSectorsOf(dir)
      read   == {lba \in wanted : \A below \in wanted : below <= lba => below \in FsSectors}
      stale  == {FsFirstOf(FsSectorsOf(d), name) :
                   d \in {r.extent : r \in UNION {{FsRecords[l][i] : i \in DOMAIN FsRecords[l]} :
                                                    l \in DOMAIN FsRecords}}}
  IN  CASE read = {} -> {FsNowhere}
        [] FsFirstOf(read, name) # FsNowhere \/ read = wanted -> {FsFirstOf(read, name)}
        [] OTHER -> stale \cup {FsNowhere}

\* iso_resolve: component by component from the root; the empty path is the
\* root itself.
FsResolve(path) ==
  LET walk[n \in 0..Len(path)] ==
        IF n = 0 THEN {FsRoot}
        ELSE UNION {IF dir = FsNowhere THEN {FsNowhere} ELSE FsLookup(dir, path[n]) :
                      dir \in walk[n - 1]}
  IN  IF g_disc THEN walk[Len(path)] ELSE {FsNowhere}

-----------------------------------------------------------------------------
(* The copy of a file's bytes.                                             *)

FsLeast(a, b) == IF a <= b THEN a ELSE b

FsRemain(file) == IF file.size > file.pos THEN file.size - file.pos ELSE 0

\* Mutant of FsChunkFrom: every chunk begins with its sector.
FsChunkFromStart(file, k) == 0

\* Where the chunk of the file's k-th sector begins in the copy, and the
\* place in its sector it begins at.
FsChunkAt(file, k) == IF k * FsSector <= file.pos THEN 0 ELSE (k * FsSector) - file.pos
FsChunkFrom(file, k) == IF k * FsSector <= file.pos THEN file.pos % FsSector ELSE 0

\* The sectors a read of len bytes goes through, up to the first that cannot
\* be read, and the bytes it has copied by then.
FsChunks(file, len) ==
  LET all == {k \in 0..FsWord : FsChunkAt(file, k) < len /\ (k + 1) * FsSector > file.pos}
  IN  {k \in all : \A j \in all : j <= k => file.lba + j \in FsSectors}

FsCopied(file, len) ==
  LET last == {k \in FsChunks(file, len) : k + 1 \notin FsChunks(file, len)}
  IN  IF last = {} THEN 0
      ELSE LET k == CHOOSE k \in last : TRUE
           IN  FsLeast(len, ((k + 1) * FsSector) - file.pos)

FsJunk == <<-2, 0>>

\* The byte at place i of sector lba, and what stands behind the buffer.
FsByte(lba, i) == IF i < FsSector THEN <<lba, i>> ELSE FsJunk

\* R518 drops the byte 3 where it would be the top byte of a word.
FsDropped(a, byte) == a % 4 = 3 /\ byte \in FsThrees

\* R1424 writes a whole sector's worth of bytes for each byte of a chunk.
FsSpan == FsSector

\* What the chunk of sector k brings to address a.
FsBrings(file, dst, k, a) ==
  FsByte(file.lba + k, FsChunkFrom(file, k) + (a - (dst + FsChunkAt(file, k))))

\* The memory after the copy: the last chunk that writes an address wins.
FsCopy(file, dst, len) ==
  [a \in DOMAIN fs_ram |->
     LET over == {k \in FsChunks(file, len) :
                    LET at == dst + FsChunkAt(file, k)
                    IN  /\ at <= a /\ a < at + FsSpan
                        /\ ~FsDropped(a, FsBrings(file, dst, k, a))}
     IN  IF over = {} THEN fs_ram[a]
         ELSE FsBrings(file, dst, CHOOSE k \in over : \A j \in over : j <= k, a)]

-----------------------------------------------------------------------------
FsClosed == [lba |-> 0, size |-> 0, pos |-> 0, in_use |-> FALSE]

FsInit ==
  /\ g_disc = FALSE
  /\ g_files = [fd \in FsFds |-> FsClosed]
  /\ fs_ram = [a \in 0..(FsRam - 1) |-> <<-1, a>>]
  /\ fs_call = [op |-> "none", file |-> FsClosed, dst |-> 0, v0 |-> 0]
  /\ fs_calls = 0

FsAnswer(op, file, dst, v0) ==
  /\ fs_calls < FsMaxCalls /\ fs_calls' = fs_calls + 1
  /\ fs_call' = [op |-> op, file |-> file, dst |-> dst, v0 |-> v0]

\* xenolift_disc_mount: the slots are emptied by a mount that succeeds.
FsMount ==
  /\ ~g_disc
  /\ g_disc' = FsVolume
  /\ g_files' = IF FsVolume THEN [fd \in FsFds |-> [g_files[fd] EXCEPT !.in_use = FALSE]]
                ELSE g_files
  /\ FsAnswer("mount", FsClosed, 0, IF FsVolume THEN 0 ELSE FsFailed)
  /\ UNCHANGED fs_ram

\* A0(00) FileOpen: the first free slot, with the position at 0.  An empty
\* name is looked for in the second argument.
FsOpen(a0, a1) ==
  \E found \in FsResolve(IF a0 = << >> THEN a1 ELSE a0) :
    LET free == {fd \in FsFds : ~g_files[fd].in_use}
        fd   == CHOOSE fd \in free : \A other \in free : fd <= other
        file == [lba |-> found.lba, size |-> found.size, pos |-> 0, in_use |-> TRUE]
    IN  /\ UNCHANGED <<g_disc, fs_ram>>
        /\ IF found = FsNowhere \/ free = {}
             THEN FsAnswer("open", FsClosed, 0, FsFailed) /\ UNCHANGED g_files
             ELSE FsAnswer("open", file, 0, fd) /\ g_files' = [g_files EXCEPT ![fd] = file]

\* A0(01) FileSeek: from the start, the position or the end, unchecked.
FsSeek(fd, offset, whence) ==
  LET base == CASE whence = "start" -> 0
                [] whence = "here"  -> g_files[fd].pos
                [] whence = "end"   -> g_files[fd].size
  IN  /\ IF g_files[fd].in_use
           THEN g_files' = [g_files EXCEPT ![fd].pos = (base + offset) % FsWord]
           ELSE UNCHANGED g_files
      /\ FsAnswer("seek", g_files[fd], 0, 0)
      /\ UNCHANGED <<g_disc, fs_ram>>

\* A0(02) FileRead, disc_file_read: the position stays where it is.
FsRead(fd, dst, len) ==
  LET file == g_files[fd]
      n    == FsLeast(len, FsRemain(file))
  IN  /\ UNCHANGED <<g_disc, g_files>>
      /\ IF ~file.in_use
           THEN FsAnswer("read", file, dst, FsFailed) /\ UNCHANGED fs_ram
           ELSE /\ FsAnswer("read", file, dst, FsCopied(file, n))
                /\ fs_ram' = FsCopy(file, dst, n)

\* A0(04) FileClose.
FsClose(fd) ==
  /\ g_files' = [g_files EXCEPT ![fd].in_use = FALSE]
  /\ FsAnswer("close", g_files[fd], 0, 1)
  /\ UNCHANGED <<g_disc, fs_ram>>

FsNext ==
  \/ FsMount
  \/ \E a0, a1 \in FsPaths : FsOpen(a0, a1)
  \/ \E fd \in FsFds, offset \in FsOffsets, whence \in {"start", "here", "end"} :
       FsSeek(fd, offset, whence)
  \/ \E fd \in FsFds, dst \in FsTargets, len \in FsLengths : FsRead(fd, dst, len)
  \/ \E fd \in FsFds : FsClose(fd)

FsSpec == FsInit /\ [][FsNext]_fs_vars

-----------------------------------------------------------------------------
(* Properties.                                                             *)

FsTypeOK ==
  /\ g_disc \in BOOLEAN
  /\ g_files \in [FsFds -> [lba : Nat, size : Nat, pos : 0..(FsWord - 1),
                            in_use : BOOLEAN]]
  /\ DOMAIN fs_ram = 0..(FsRam - 1)
  /\ fs_call.v0 \in 0..(FsWord - 1)

\* What FileRead says it has read is in memory, byte for byte from the file's
\* position, but for the bytes the guard keeps out, although every chunk but
\* the last is written over by the next and a read may start in the middle of
\* a sector (runtime.c:16321-16367).
FsReadDelivers ==
  fs_call.op = "read" /\ fs_call.file.in_use =>
    \A i \in 0..(fs_call.v0 - 1) :
      LET a     == fs_call.dst + i
          place == fs_call.file.pos + i
          byte  == <<fs_call.file.lba + (place \div FsSector), place % FsSector>>
      IN  a \in DOMAIN fs_ram => fs_ram[a] = byte \/ FsDropped(a, byte)
=============================================================================
