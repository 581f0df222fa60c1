----------------------------- MODULE DiscStage ------------------------------
(***************************************************************************)
(* The recompiler's disc stage (ftab_stage_main, source/src/main.rs): it   *)
(* reads the file table inside the executable, copies every file off the   *)
(* disc image and unpacks what is compressed, so that the translated       *)
(* overlays come from the disc and not from a running emulator.  A stream  *)
(* is a header of four bytes, the size it unpacks to, and control bytes    *)
(* each followed by the eight tokens it describes.  There are three        *)
(* decoders: one counts the input it takes, one is tried at other places   *)
(* of a file that does not unpack, one forgives matches that reach back    *)
(* before the output.                                                      *)
(*                                                                         *)
(* The disc is its sectors' data; the two raw sector formats, the scan's   *)
(* limits (8192 places, 2048 tries), the messages and failing writes are   *)
(* left out.                                                               *)
(***************************************************************************)
EXTENDS Integers, Sequences, FiniteSets

CONSTANTS
  StSector,     \* bytes of a sector (2048)
  StAhead,      \* sectors that are read at least (64)
  StWindow,     \* bytes the decoder may read (0x20000)
  StMaxOut,     \* the largest size a header may give (0x800000)
  StMaxFile,    \* the largest file (0x200000)
  StDiscs,      \* the disc images: sequences of bytes
  StTables      \* the file tables: rows [lba, size, tail]

ASSUME StAssumption ==
  /\ {StSector, StAhead, StWindow, StMaxOut, StMaxFile} \subseteq Nat \ {0}
  /\ \A disc \in StDiscs : disc \in Seq(0..255)
  /\ \A table \in StTables : table \in Seq([lba : Nat, size : Nat, tail : Nat])

VARIABLES
  st_disc, st_table,  \* the inputs
  st_phase,           \* "table", "files", "done" or "panic"
  st_at,              \* the row or the file it is at
  st_ents,            \* the files of the table: [n, lba, size]
  st_raw,             \* what it read of the last file
  st_out              \* the files written: [n, kind, bytes]

st_vars == <<st_disc, st_table, st_phase, st_at, st_ents, st_raw, st_out>>

-----------------------------------------------------------------------------
(* The decoders.                                                           *)

StHeader(raw) == raw[1] + 256 * raw[2] + 65536 * raw[3] + 16777216 * raw[4]

StPlausible(size) == size \in 1..StMaxOut

StFail(s) == [s EXCEPT !.ok = FALSE]

\* A byte before the output, or not written yet, is zero.
StBack(out, j) == IF j \in 0..(Len(out) - 1) THEN out[j + 1] ELSE 0

StCopy(out, from, n) ==
  LET copied[k \in 0..n] ==
        IF k = 0 THEN out
        ELSE LET o == copied[k - 1] IN Append(o, StBack(o, from + k - 1))
  IN  copied[n]

\* Mutant of StMatch: a match of offset zero repeats the last byte.
StMatchLast(s, raw, size, forgives) ==
  LET off  == (raw[s.i + 1] % 16) * 256 + raw[s.i]
      from == Len(s.out) - (IF off = 0 THEN 1 ELSE off)
      upto == Len(s.out) + (raw[s.i + 1] \div 16) + 3
      n    == (IF upto <= size THEN upto ELSE size) - Len(s.out)
  IN  IF from < 0 /\ ~forgives THEN StFail(s)
      ELSE [s EXCEPT !.i = @ + 2,
                     !.out = StCopy(@, from, n)]

StMatch(s, raw, size, forgives) ==
  LET off  == (raw[s.i + 1] % 16) * 256 + raw[s.i]
      from == Len(s.out) - off
      upto == Len(s.out) + (raw[s.i + 1] \div 16) + 3
      n    == (IF upto <= size THEN upto ELSE size) - Len(s.out)
  IN  IF from < 0 /\ ~forgives THEN StFail(s)
      ELSE [s EXCEPT !.i = @ + 2,
                     !.out = StCopy(@, from, n)]

\* One control byte or one token; s.i is the next byte of the input.
StTurn(s, raw, size, forgives) ==
  LET next == [s EXCEPT !.bits = @ - 1, !.ctrl = @ \div 2]
  IN  IF ~s.ok \/ Len(s.out) >= size THEN s
      ELSE IF s.i + (IF s.bits > 0 THEN s.ctrl % 2 ELSE 0) > Len(raw) THEN StFail(s)
      ELSE IF s.bits = 0 THEN [s EXCEPT !.ctrl = raw[s.i], !.bits = 8, !.i = @ + 1]
      ELSE IF s.ctrl % 2 = 1 THEN StMatch(next, raw, size, forgives)
      ELSE [next EXCEPT !.out = Append(@, raw[s.i]), !.i = @ + 1]

StRun(raw, forgives) ==
  IF Len(raw) < 4 \/ ~StPlausible(StHeader(raw))
  THEN [ok |-> FALSE, i |-> 1, ctrl |-> 0, bits |-> 0, out |-> << >>]
  ELSE LET size  == StHeader(raw)
           after[k \in 0..Len(raw)] ==
             IF k = 0 THEN [ok |-> TRUE, i |-> 5, ctrl |-> 0, bits |-> 0, out |-> << >>]
             ELSE StTurn(after[k - 1], raw, size, forgives)
           end == after[Len(raw)]
       IN  [end EXCEPT !.ok = @ /\ Len(end.out) >= size]

\* lzss_decode_used, lzss_decode, lzss_decode_tolerant.
StDecodeUsed(raw) == LET s == StRun(raw, FALSE) IN [ok |-> s.ok, out |-> s.out, used |-> s.i - 1]
StDecode(raw) == LET s == StRun(raw, FALSE) IN [ok |-> s.ok, out |-> s.out]
StDecodeTolerant(raw) == LET s == StRun(raw, TRUE) IN [ok |-> s.ok, out |-> s.out]

-----------------------------------------------------------------------------
(* The scan for a stream inside a file.  It ends at the first place that   *)
(* leaves no room for a header, though smaller ones may follow.            *)

StFirst == <<4, 8, 16, 32, 64>>
StPlaces(n) ==
  StFirst \o SelectSeq([o \in 1..(IF n = 0 THEN 0 ELSE n - 1) |-> o], LAMBDA o : o \notin {4, 8, 16, 32, 64})

StTail(raw, o) == SubSeq(raw, o + 1, Len(raw))

StScan(raw) ==
  LET places == StPlaces(Len(raw))
      tried  == {k \in DOMAIN places : \A j \in 1..k : places[j] + 4 <= Len(raw)}
      hits   == {k \in tried : StDecode(StTail(raw, places[k])).ok}
      first  == CHOOSE k \in hits : \A j \in hits : k <= j
  IN  IF hits = {} THEN << >> ELSE <<places[first]>>

-----------------------------------------------------------------------------
StInit ==
  /\ st_disc \in StDiscs /\ st_table \in StTables
  /\ st_phase = "table" /\ st_at = 1
  /\ st_ents = << >> /\ st_raw = << >> /\ st_out = {}

StKept(row) == row.lba # 0 /\ row.tail = 0 /\ row.size <= StMaxFile

\* Slots count from 2.
StReadRow ==
  /\ st_phase = "table" /\ st_at <= Len(st_table)
  /\ st_at' = st_at + 1
  /\ st_ents' = IF StKept(st_table[st_at])
                THEN Append(st_ents, [n |-> st_at + 1, lba |-> st_table[st_at].lba,
                                      size |-> st_table[st_at].size])
                ELSE st_ents
  /\ UNCHANGED <<st_disc, st_table, st_phase, st_raw, st_out>>

StTableRead ==
  /\ st_phase = "table" /\ st_at > Len(st_table)
  /\ st_phase' = "files" /\ st_at' = 1
  /\ UNCHANGED <<st_disc, st_table, st_ents, st_raw, st_out>>

StUpTo(raw, n) == SubSeq(raw, 1, IF n <= Len(raw) THEN n ELSE Len(raw))

StSectors(bytes) == (bytes + StSector - 1) \div StSector

\* The whole sectors that the disc has, from lba on: those of the file, and a
\* stretch of what follows it.
StRead(e) ==
  LET want == IF StSectors(e.size) >= StAhead THEN StSectors(e.size) ELSE StAhead
      have == {s \in 0..want : (e.lba + s) * StSector <= Len(st_disc)}
      n    == IF have = {} THEN 0 ELSE Cardinality(have) - 1
  IN  SubSeq(st_disc, e.lba * StSector + 1, (e.lba + n) * StSector)

StWritten(e, raw) ==
  LET file == StUpTo(raw, e.size)
      from == StScan(file)
      used == StDecodeUsed(StUpTo(raw, StWindow))
      bin  == [n |-> e.n, kind |-> "bin", bytes |-> file]
  IN  CASE used.ok     -> {bin, [n |-> e.n, kind |-> "dec", bytes |-> used.out]}
        [] ~used.ok /\ from # << >> ->
             {bin, [n |-> e.n, kind |-> "s.dec", bytes |-> StDecode(StTail(file, from[1])).out]}
        [] OTHER -> {bin}

\* An empty file behind the end of the disc passes the test for a truncated
\* one, and its header is read from nothing.
StStage ==
  /\ st_phase = "files" /\ st_at <= Len(st_ents)
  /\ LET e   == st_ents[st_at]
         raw == StRead(e)
     IN  /\ st_raw' = raw
         /\ \/ /\ Len(raw) < StSectors(e.size) * StSector
               /\ st_at' = st_at + 1
               /\ UNCHANGED <<st_phase, st_out>>
            \/ /\ Len(raw) >= StSectors(e.size) * StSector /\ raw # << >>
               /\ st_at' = st_at + 1
               /\ st_out' = st_out \cup StWritten(e, raw)
               /\ UNCHANGED st_phase
            \/ /\ e.size = 0 /\ raw = << >>
               /\ st_phase' = "panic" /\ st_out' = st_out \cup {[n |-> e.n, kind |-> "bin", bytes |-> << >>]}
               /\ UNCHANGED st_at
  /\ UNCHANGED <<st_disc, st_table, st_ents>>

StDone ==
  /\ st_phase = "files" /\ st_at > Len(st_ents)
  /\ st_phase' = "done"
  /\ UNCHANGED <<st_disc, st_table, st_at, st_ents, st_raw, st_out>>

StNext == StReadRow \/ StTableRead \/ StStage \/ StDone

StSpec == StInit /\ [][StNext]_st_vars

-----------------------------------------------------------------------------
(* Properties.                                                             *)

StTypeOK ==
  /\ st_phase \in {"table", "files", "done", "panic"}
  /\ st_at \in Nat
  /\ st_ents \in Seq([n : Nat, lba : Nat, size : 0..StMaxFile])
  /\ st_raw \in Seq(0..255)
  /\ st_out \subseteq [n : Nat, kind : {"bin", "dec", "s.dec"}, bytes : Seq(0..255)]
=============================================================================
