----------------------------- MODULE BuildScan ------------------------------
(***************************************************************************)
(* The recompiler's driver (main, source/src/main.rs): it folds captured   *)
(* modules into the executable's image and then scans the image for        *)
(* addresses that may be function entries, which seed the walk of          *)
(* Discovery.  What no scan finds and no walk reaches is never translated. *)
(*                                                                         *)
(* An image is a sequence of words.  A word is an instruction that builds  *)
(* an address ("lui", "addiu", "ori" with the registers rs and rt), a      *)
(* pointer or the two halves of an unaligned one ("word", "left",          *)
(* "right"), or something else ("other"; zeros are "zero").  A capture is  *)
(* what fills its window, whether its file is long enough and has enough   *)
(* words that are not zero, and what it has at the coordinator's entry.    *)
(*                                                                         *)
(* Left out: the fixed seeds of the boot module and the movie player,      *)
(* which are not compared with the image, the statistics and the reports.  *)
(***************************************************************************)
EXTENDS Integers, SequencesExt

CONSTANTS
  BuWord,        \* bytes of a word (4)
  BuHalf,        \* what one step of an upper half is worth (0x10000)
  BuSpace,       \* addresses (2^32)
  BuBase,        \* t_addr
  BuNear,        \* words between a lui and its partner, at most (8)
  BuZero, BuSp,  \* the registers that are not followed
  BuRegs,
  BuOverlay, BuStage2,  \* the windows, in words from the base
  BuInputs       \* the files: [exe, over, fault, stage2, notes, decomp], of
                 \* an image, captures and functions from addresses to names

BuInstructions ==
  [op : {"lui"}, rt : BuRegs, imm : Nat]
    \cup [op : {"addiu", "ori"}, rt : BuRegs, rs : BuRegs, imm : Int]
    \cup [op : {"word", "left", "right"}, to : Nat] \cup [op : {"other", "zero"}]

BuBig(capture) == capture.there /\ capture.long /\ capture.full

\* A capture that is long enough fills its window.
BuFills(capture, window) ==
  BuBig(capture) => /\ capture.words \in Seq(BuInstructions)
                    /\ Len(capture.words) = window.end - window.from

ASSUME BuAssumption ==
  /\ {BuWord, BuHalf, BuSpace, BuBase} \subseteq Nat \ {0} /\ BuNear \in Nat
  /\ {BuZero, BuSp} \subseteq BuRegs
  /\ {BuOverlay.from, BuOverlay.end, BuStage2.from, BuStage2.end} \subseteq Nat
  /\ BuOverlay.from <= BuOverlay.end /\ BuOverlay.end <= BuStage2.from /\ BuStage2.from <= BuStage2.end
  /\ \A in \in BuInputs : /\ in.exe \in Seq(BuInstructions)
                          /\ BuFills(in.over, BuOverlay) /\ BuFills(in.fault, BuOverlay)
                          /\ BuFills(in.stage2, BuStage2)

VARIABLES
  bu_in,      \* the files
  bu_phase,
  bu_image,   \* blob_vec
  bu_i,       \* the word the scan is at
  bu_lui,     \* lui_val: what a register was last given, and where
  bu_seeds,   \* ptr_entries
  bu_syms     \* syms

bu_vars == <<bu_in, bu_phase, bu_image, bu_i, bu_lui, bu_seeds, bu_syms>>

-----------------------------------------------------------------------------
(* Folding.                                                                *)

\* Zeros at the coordinator's entry are taken in the first capture, because
\* the module may be installed later; the second must have its prologue.
BuBaseFits == BuBig(bu_in.over) /\ bu_in.over.coord # "text"
BuFaultFits == BuBig(bu_in.fault) /\ bu_in.fault.coord = "code"

BuBlank == [op |-> "zero"]

\* The image grows with zeros up to the window's end; the window is replaced.
BuFold(image, window, words) ==
  [i \in 1..(IF Len(image) < window.end THEN window.end ELSE Len(image)) |->
     IF i \in (window.from + 1)..window.end THEN words[i - window.from]
     ELSE IF i > Len(image) THEN BuBlank ELSE image[i]]

BuFoldOverlay ==
  /\ bu_phase = "overlay"
  /\ bu_image' = LET base == BuFold(bu_image, BuOverlay, bu_in.over.words)
                 IN  IF ~BuBaseFits THEN bu_image
                     ELSE IF BuFaultFits THEN BuFold(base, BuOverlay, bu_in.fault.words)
                     ELSE base
  /\ bu_phase' = "stage2"
  /\ UNCHANGED <<bu_in, bu_i, bu_lui, bu_seeds, bu_syms>>

BuFoldStage2 ==
  /\ bu_phase = "stage2"
  /\ bu_image' = IF BuBig(bu_in.stage2) THEN BuFold(bu_image, BuStage2, bu_in.stage2.words) ELSE bu_image
  /\ bu_phase' = "words"
  /\ UNCHANGED <<bu_in, bu_i, bu_lui, bu_seeds, bu_syms>>

-----------------------------------------------------------------------------
(* Scanning.                                                               *)

BuEnd == BuBase + Len(bu_image) * BuWord

BuInside(v) == v >= BuBase /\ v < BuEnd /\ v % BuWord = 0

\* 2b: the aligned words.
BuScanWords ==
  /\ bu_phase = "words"
  /\ bu_seeds' = {w.to : w \in {v \in ToSet(bu_image) : v.op = "word" /\ BuInside(v.to)}}
  /\ bu_phase' = "built" /\ bu_i' = 1 /\ bu_lui' = << >>
  /\ UNCHANGED <<bu_in, bu_image, bu_syms>>

\* v | y, for a y of 16 bits: what y has and v has not is added.
BuOr(v, y) ==
  v + SumSet({w \in {2^i : i \in 0..15} : (y \div w) % 2 = 1 /\ (v \div w) % 2 = 0})

BuSum(v, w) == IF w.op = "addiu" THEN (v + w.imm) % BuSpace ELSE BuOr(v, w.imm % BuHalf)

\* What is remembered of register r, from word i on.
BuNoted(lui, r, v, i) ==
  [q \in DOMAIN lui \cup {r} |-> IF q = r THEN [v |-> v, at |-> i] ELSE lui[q]]

\* Mutant of BuGiven: only what a lui gives is followed.
BuGivenByLui(r, v) ==
  IF bu_image[bu_i].op = "lui" THEN BuNoted(bu_lui, r, v, bu_i) ELSE bu_lui

BuGiven(r, v) == BuNoted(bu_lui, r, v, bu_i)

BuPartner(w) ==
  /\ w.op \in {"addiu", "ori"} /\ w.rt \notin {BuZero, BuSp}
  /\ w.rs \in DOMAIN bu_lui /\ bu_i - bu_lui[w.rs].at <= BuNear

BuPrologue(w) == w.op = "addiu" /\ w.rs = BuSp /\ w.rt = BuSp /\ w.imm < 0

\* 2e: what lui and its partners build, and prologues.  A register that
\* something else overwrites keeps its entry.
BuScanBuilt ==
  /\ bu_phase = "built" /\ bu_i <= Len(bu_image)
  /\ LET w == bu_image[bu_i]
         v == BuSum(bu_lui[w.rs].v, w)
     IN  /\ bu_lui' = IF w.op = "lui" THEN BuGiven(w.rt, (w.imm * BuHalf) % BuSpace)
                      ELSE IF BuPartner(w) THEN BuGiven(w.rt, v) ELSE bu_lui
         /\ bu_seeds' = bu_seeds
              \cup (IF BuPartner(w) /\ BuInside(v) THEN {v} ELSE {})
              \cup (IF BuPrologue(w) THEN {BuBase + (bu_i - 1) * BuWord} ELSE {})
  /\ bu_i' = bu_i + 1
  /\ UNCHANGED <<bu_in, bu_phase, bu_image, bu_syms>>

BuBuiltScanned ==
  /\ bu_phase = "built" /\ bu_i > Len(bu_image)
  /\ bu_phase' = "bytes"
  /\ UNCHANGED <<bu_in, bu_image, bu_i, bu_lui, bu_seeds, bu_syms>>

\* 2f: pointers at any byte.
BuScanBytes ==
  /\ bu_phase = "bytes"
  /\ bu_seeds' = bu_seeds \cup
       {bu_image[i].to : i \in {j \in 1..(Len(bu_image) - 1) :
          /\ bu_image[j].op = "left" /\ bu_image[j + 1] = [op |-> "right", to |-> bu_image[j].to]
          /\ BuInside(bu_image[j].to)}}
  /\ bu_phase' = "notes"
  /\ UNCHANGED <<bu_in, bu_image, bu_i, bu_lui, bu_syms>>

\* Annotated functions are seeds; names of the decompilation win.
BuReadNames ==
  /\ bu_phase = "notes"
  /\ bu_seeds' = bu_seeds \cup {v \in DOMAIN bu_in.notes : BuInside(v)}
  /\ bu_syms' = LET in == {v \in DOMAIN bu_in.decomp \cup DOMAIN bu_in.notes : v >= BuBase /\ v < BuEnd}
                IN  [v \in in |-> IF v \in DOMAIN bu_in.decomp THEN bu_in.decomp[v]
                                  ELSE bu_in.notes[v]]
  /\ bu_phase' = "done"
  /\ UNCHANGED <<bu_in, bu_image, bu_i, bu_lui>>

BuInit ==
  /\ bu_in \in BuInputs
  /\ bu_phase = "overlay" /\ bu_image = bu_in.exe
  /\ bu_i = 1 /\ bu_lui = << >> /\ bu_seeds = {} /\ bu_syms = << >>

BuNext ==
  \/ BuFoldOverlay \/ BuFoldStage2 \/ BuScanWords \/ BuScanBuilt
  \/ BuBuiltScanned \/ BuScanBytes \/ BuReadNames

BuSpec == BuInit /\ [][BuNext]_bu_vars

-----------------------------------------------------------------------------
(* Properties.                                                             *)

BuTypeOK ==
  /\ bu_phase \in {"overlay", "stage2", "words", "built", "bytes", "notes", "done"}
  /\ bu_i \in Nat \ {0} /\ DOMAIN bu_lui \subseteq BuRegs
  /\ bu_seeds \subseteq {v \in BuBase..(BuEnd - 1) : v % BuWord = 0}
  /\ DOMAIN bu_syms \subseteq BuBase..(BuEnd - 1)

\* The registers after the first k words, run in a line: what a lui and its
\* partners, each near enough to the last, put there, and << >> if unknown.
BuUnknown == [r \in BuRegs |-> << >>]

BuKnows(last, w, k) ==
  /\ w.rs \notin {BuZero, BuSp} /\ w.rt \notin {BuZero, BuSp}
  /\ last[w.rs] # << >> /\ k - last[w.rs][2] <= BuNear

BuAfter(last, w, k) ==
  IF w.op = "lui" THEN [last EXCEPT ![w.rt] = <<(w.imm * BuHalf) % BuSpace, k>>]
  ELSE IF w.op \in {"addiu", "ori"}
  THEN [last EXCEPT ![w.rt] = IF BuKnows(last, w, k) THEN <<BuSum(last[w.rs][1], w), k>> ELSE << >>]
  ELSE last

BuHeld ==
  LET held[k \in 0..Len(bu_image)] ==
        IF k = 0 THEN BuUnknown ELSE BuAfter(held[k - 1], bu_image[k], k)
  IN  held

\* What the image names: addresses its code builds, its words, and pointers
\* that lie across two of them.
BuBuilt ==
  LET held == BuHeld
  IN  {held[k][bu_image[k].rt][1] :
         k \in {i \in 1..Len(bu_image) : /\ bu_image[i].op \in {"addiu", "ori"}
                                        /\ held[i][bu_image[i].rt] # << >>}}
BuNamed == {w.to : w \in {v \in ToSet(bu_image) : v.op = "word"}}
BuSplit ==
  {bu_image[i].to : i \in {j \in 1..(Len(bu_image) - 1) :
     bu_image[j].op = "left" /\ bu_image[j + 1] = [op |-> "right", to |-> bu_image[j].to]}}

\* An entry is a seed when the scans are done, wherever in the image it is
\* named and whatever was folded in: by a pointer, aligned or not, by an
\* address the code builds, or by an annotation (main.rs:589-702).
BuEntriesAreSeeds ==
  bu_phase = "done" =>
    \A v \in BuBuilt \cup BuNamed \cup BuSplit \cup DOMAIN bu_in.notes :
      v % BuWord = 0 /\ v >= BuBase /\ v < BuBase + Len(bu_image) * BuWord => v \in bu_seeds
=====
