----------------------------- MODULE MdecProofs -----------------------------
(***************************************************************************)
(* Proofs about the movie decoder of Mdec, for any sizes of buffers,       *)
(* tables and transfers and any stream the guest sends: no word of a       *)
(* command is miscounted, no word of a coded stream is lost, outside of a  *)
(* table load every table is whole, and a finished decode leaves in the    *)
(* output queue what the format promises for its stream.                   *)
(*                                                                         *)
(* The first three need each other.  A word of a stream fits the buffer    *)
(* because the words received are at most those declared, and a table is   *)
(* whole at the end of its load because the words received are then        *)
(* exactly those.  A table being loaded is new up to the word received     *)
(* last and old from there on, so the invariant says of every table which  *)
(* words are new.                                                          *)
(*                                                                         *)
(* The last sets the decoder beside a reader that goes through the same    *)
(* stream one halfword at a time.  After every turn of the decode loop the *)
(* reader is between two blocks where the decoder stands, and has met as   *)
(* many blocks as the macroblocks decoded have; so when the decoder finds  *)
(* no further macroblock, the reader has met fewer blocks than one takes.  *)
(***************************************************************************)
EXTENDS Mdec, Recursion, SequenceTheorems, TLAPS

MdNames == MdecTables \cup {MdecDefault}

\* The fields a decode computes by recursion may hold anything.
MdIsRecord(m) ==
  m \in [current_cmd : 0..3, output_depth : {m.output_depth},
         remaining_words : Nat, param_words : Nat, declared : Nat,
         data_in_enable : {m.data_in_enable}, data_out_enable : {m.data_out_enable},
         busy : BOOLEAN, current_block : {m.current_block},
         iq_y : [1..MdecTableWords -> MdNames],
         iq_uv : [1..MdecTableWords -> MdNames],
         scale_table : [1..(2 * MdecTableWords) -> MdNames],
         loading : MdNames, in_buf : Seq(MdecHalfs),
         out_count : {m.out_count}, out_read_pos : {m.out_read_pos}]

\* What is left of the active command.
MdCounts(m) ==
  m.busy => /\ m.current_cmd # 0
            /\ m.remaining_words > 0
            /\ m.param_words + m.remaining_words = m.declared
            /\ m.current_cmd = 1 => m.declared <= MdecMaxWords
            /\ m.current_cmd = 2 => m.declared \in {MdecTableWords, 2 * MdecTableWords}
            /\ m.current_cmd = 3 => m.declared = 2 * MdecTableWords

MdKeeps(m) == m.current_cmd = 1 => Len(m.in_buf) = 2 * m.param_words

\* Table t of n words, which come at place off of their load: while it loads,
\* the words received are the new ones, and the others are all alike.
MdTable(t, n, off, loads, received, new) ==
  \A i, j \in 1..n :
    /\ (loads /\ off + i <= received) => t[i] = new
    /\ (~(loads /\ off + i <= received) /\ ~(loads /\ off + j <= received)) => t[i] = t[j]

MdTables(m) ==
  /\ MdTable(m.iq_y, MdecTableWords, 0, m.busy /\ m.current_cmd = 2, m.param_words, m.loading)
  /\ MdTable(m.iq_uv, MdecTableWords, MdecTableWords, m.busy /\ m.current_cmd = 2,
             m.param_words, m.loading)
  /\ MdTable(m.scale_table, 2 * MdecTableWords, 0, m.busy /\ m.current_cmd = 3,
             m.param_words, m.loading)

MdGood(m) == MdIsRecord(m) /\ MdCounts(m) /\ MdKeeps(m) /\ MdTables(m)

IInv == MdGood(g_mdec)

-----------------------------------------------------------------------------
(* One table.                                                              *)

\* The word received next is stored where the load has got to.
LEMMA TableStores ==
  ASSUME NEW n \in Nat, NEW off \in Nat, NEW p \in Nat, NEW new,
         NEW t, NEW u, DOMAIN t = 1..n,
         MdTable(t, n, off, TRUE, p, new),
         u = IF p >= off /\ p < off + n THEN [t EXCEPT ![p + 1 - off] = new] ELSE t
  PROVE  MdTable(u, n, off, TRUE, p + 1, new)
<1> SUFFICES ASSUME NEW i \in 1..n, NEW j \in 1..n
             PROVE  /\ off + i <= p + 1 => u[i] = new
                    /\ (~(off + i <= p + 1) /\ ~(off + j <= p + 1)) => u[i] = u[j]
  BY DEF MdTable
<1>1. \A k \in 1..n : u[k] = IF off + k = p + 1 THEN new ELSE t[k]
  <2> SUFFICES ASSUME NEW k \in 1..n
               PROVE  u[k] = IF off + k = p + 1 THEN new ELSE t[k]
    OBVIOUS
  <2>1. CASE p >= off /\ p < off + n
    <3>1. u = [t EXCEPT ![p + 1 - off] = new]
      BY <2>1
    <3>2. k = p + 1 - off <=> off + k = p + 1
      OBVIOUS
    <3> QED BY <3>1, <3>2
  <2>2. CASE ~(p >= off /\ p < off + n)
    BY <2>2
  <2> QED BY <2>1, <2>2
<1>2. /\ off + i <= p => t[i] = new
      /\ (~(off + i <= p) /\ ~(off + j <= p)) => t[i] = t[j]
  BY DEF MdTable
<1> QED BY <1>1, <1>2

\* A load may end where the table is all new or all old.
LEMMA TableDone ==
  ASSUME NEW n \in Nat, NEW off \in Nat, NEW p \in Nat, NEW new, NEW t,
         NEW loads \in BOOLEAN, MdTable(t, n, off, loads, p, new),
         loads => (p <= off \/ p >= off + n),
         NEW q, NEW other
  PROVE  MdTable(t, n, off, FALSE, q, other)
<1> SUFFICES ASSUME NEW i \in 1..n, NEW j \in 1..n
             PROVE  t[i] = t[j]
  BY DEF MdTable
<1>1. /\ (loads /\ off + i <= p) => t[i] = new
      /\ (loads /\ off + j <= p) => t[j] = new
      /\ (~(loads /\ off + i <= p) /\ ~(loads /\ off + j <= p)) => t[i] = t[j]
  BY DEF MdTable
<1> QED BY <1>1

\* A load begins with no word new.
LEMMA TableStarts ==
  ASSUME NEW n \in Nat, NEW off \in Nat, NEW new, NEW t, NEW loads \in BOOLEAN,
         NEW q, NEW other, MdTable(t, n, off, FALSE, q, other)
  PROVE  MdTable(t, n, off, loads, 0, new)
<1> SUFFICES ASSUME NEW i \in 1..n, NEW j \in 1..n
             PROVE  /\ ~(off + i <= 0)
                    /\ t[i] = t[j]
  BY DEF MdTable
<1> QED BY DEF MdTable

-----------------------------------------------------------------------------
(* A parameter word.                                                       *)

LEMMA StoreFields ==
  ASSUME NEW m, MdIsRecord(m), NEW idx \in Nat
  PROVE  LET s == MdecStore(m, idx)
         IN  /\ MdIsRecord(s)
             /\ s.current_cmd = m.current_cmd /\ s.remaining_words = m.remaining_words
             /\ s.param_words = m.param_words /\ s.declared = m.declared
             /\ s.busy = m.busy /\ s.loading = m.loading /\ s.in_buf = m.in_buf
             /\ s.iq_y = IF m.current_cmd = 2 /\ idx >= 0 /\ idx < 0 + MdecTableWords
                         THEN [m.iq_y EXCEPT ![idx + 1 - 0] = m.loading] ELSE m.iq_y
             /\ s.iq_uv = IF /\ m.current_cmd = 2 /\ idx >= MdecTableWords
                             /\ idx < MdecTableWords + MdecTableWords
                          THEN [m.iq_uv EXCEPT ![idx + 1 - MdecTableWords] = m.loading]
                          ELSE m.iq_uv
             /\ s.scale_table =
                  IF m.current_cmd = 3 /\ idx >= 0 /\ idx < 0 + 2 * MdecTableWords
                  THEN [m.scale_table EXCEPT ![idx + 1 - 0] = m.loading]
                  ELSE m.scale_table
<1> MdecTableWords \in Nat \ {0}
  BY MdecAssumption
<1>1. CASE m.current_cmd = 2 /\ idx < MdecTableWords
  <2>1. MdecStore(m, idx) = [m EXCEPT !.iq_y[idx + 1] = m.loading]
    BY <1>1 DEF MdecStore
  <2> DEFINE t == [m.iq_y EXCEPT ![idx + 1] = m.loading]
  <2>2. t \in [1..MdecTableWords -> MdNames] /\ idx + 1 \in 1..MdecTableWords
    BY <1>1 DEF MdIsRecord
  <2>3. MdecStore(m, idx) = [m EXCEPT !.iq_y = t]
    BY <2>1
  <2> HIDE DEF t
  <2> DEFINE s == [m EXCEPT !.iq_y = t]
  <2>4. MdIsRecord(s) /\ s.iq_y = t
    BY <2>2 DEF MdIsRecord
  <2>5. /\ s.current_cmd = m.current_cmd /\ s.remaining_words = m.remaining_words
        /\ s.param_words = m.param_words /\ s.declared = m.declared
        /\ s.busy = m.busy /\ s.loading = m.loading /\ s.in_buf = m.in_buf
        /\ s.iq_uv = m.iq_uv /\ s.scale_table = m.scale_table
    BY DEF MdIsRecord
  <2>6. t = [m.iq_y EXCEPT ![idx + 1] = m.loading]
    BY DEF t
  <2> HIDE DEF s
  <2> QED BY <1>1, <2>3, <2>4, <2>5, <2>6 DEF s
<1>2. CASE m.current_cmd = 2 /\ ~(idx < MdecTableWords) /\ idx < 2 * MdecTableWords
  <2>1. MdecStore(m, idx) = [m EXCEPT !.iq_uv[idx + 1 - MdecTableWords] = m.loading]
    BY <1>2 DEF MdecStore
  <2> DEFINE t == [m.iq_uv EXCEPT ![idx + 1 - MdecTableWords] = m.loading]
  <2>2. t \in [1..MdecTableWords -> MdNames] /\ idx + 1 - MdecTableWords \in 1..MdecTableWords
    BY <1>2 DEF MdIsRecord
  <2>3. MdecStore(m, idx) = [m EXCEPT !.iq_uv = t]
    BY <2>1
  <2> HIDE DEF t
  <2> DEFINE s == [m EXCEPT !.iq_uv = t]
  <2>4. MdIsRecord(s) /\ s.iq_uv = t
    BY <2>2 DEF MdIsRecord
  <2>5. /\ s.current_cmd = m.current_cmd /\ s.remaining_words = m.remaining_words
        /\ s.param_words = m.param_words /\ s.declared = m.declared
        /\ s.busy = m.busy /\ s.loading = m.loading /\ s.in_buf = m.in_buf
        /\ s.iq_y = m.iq_y /\ s.scale_table = m.scale_table
    BY DEF MdIsRecord
  <2>6. t = [m.iq_uv EXCEPT ![idx + 1 - MdecTableWords] = m.loading]
    BY DEF t
  <2> HIDE DEF s
  <2> QED BY <1>2, <2>3, <2>4, <2>5, <2>6 DEF s
<1>3. CASE m.current_cmd = 3 /\ idx < 2 * MdecTableWords
  <2>1. MdecStore(m, idx) = [m EXCEPT !.scale_table[idx + 1] = m.loading]
    BY <1>3 DEF MdecStore
  <2> DEFINE t == [m.scale_table EXCEPT ![idx + 1] = m.loading]
  <2>2. t \in [1..(2 * MdecTableWords) -> MdNames] /\ idx + 1 \in 1..(2 * MdecTableWords)
    BY <1>3 DEF MdIsRecord
  <2>3. MdecStore(m, idx) = [m EXCEPT !.scale_table = t]
    BY <2>1
  <2> HIDE DEF t
  <2> DEFINE s == [m EXCEPT !.scale_table = t]
  <2>4. MdIsRecord(s) /\ s.scale_table = t
    BY <2>2 DEF MdIsRecord
  <2>5. /\ s.current_cmd = m.current_cmd /\ s.remaining_words = m.remaining_words
        /\ s.param_words = m.param_words /\ s.declared = m.declared
        /\ s.busy = m.busy /\ s.loading = m.loading /\ s.in_buf = m.in_buf
        /\ s.iq_y = m.iq_y /\ s.iq_uv = m.iq_uv
    BY DEF MdIsRecord
  <2>6. t = [m.scale_table EXCEPT ![idx + 1] = m.loading]
    BY DEF t
  <2> HIDE DEF s
  <2> QED BY <1>3, <2>3, <2>4, <2>5, <2>6 DEF s
<1>4. CASE /\ ~(m.current_cmd = 2 /\ idx < 2 * MdecTableWords)
           /\ ~(m.current_cmd = 3 /\ idx < 2 * MdecTableWords)
  <2>1. MdecStore(m, idx) = m
    BY <1>4 DEF MdecStore
  <2> QED BY <1>4, <2>1
<1> QED BY <1>1, <1>2, <1>3, <1>4

LEMMA StoreTables ==
  ASSUME NEW m, MdIsRecord(m), m.busy, NEW idx \in Nat,
         MdTable(m.iq_y, MdecTableWords, 0, m.busy /\ m.current_cmd = 2, idx, m.loading),
         MdTable(m.iq_uv, MdecTableWords, MdecTableWords, m.busy /\ m.current_cmd = 2, idx,
                 m.loading),
         MdTable(m.scale_table, 2 * MdecTableWords, 0, m.busy /\ m.current_cmd = 3, idx,
                 m.loading),
         m.param_words = idx + 1
  PROVE  MdTables(MdecStore(m, idx))
<1> DEFINE s == MdecStore(m, idx)
<1> MdecTableWords \in Nat /\ 2 * MdecTableWords \in Nat
  BY MdecAssumption
<1>1. /\ s.current_cmd = m.current_cmd /\ s.busy = m.busy
      /\ s.loading = m.loading /\ s.param_words = idx + 1
  BY StoreFields
<1>2. MdTable(s.iq_y, MdecTableWords, 0, m.busy /\ m.current_cmd = 2, idx + 1, m.loading)
  <2>1. CASE m.current_cmd = 2
    <3>1. s.iq_y = IF idx >= 0 /\ idx < 0 + MdecTableWords
                   THEN [m.iq_y EXCEPT ![idx + 1 - 0] = m.loading] ELSE m.iq_y
      BY <2>1, StoreFields
    <3>2. DOMAIN m.iq_y = 1..MdecTableWords
      BY DEF MdIsRecord
    <3>3. MdTable(m.iq_y, MdecTableWords, 0, TRUE, idx, m.loading)
      BY <2>1 DEF MdTable
    <3> HIDE DEF s
    <3>4. MdTable(s.iq_y, MdecTableWords, 0, TRUE, idx + 1, m.loading)
      BY <3>1, <3>2, <3>3, TableStores, 0 \in Nat
    <3> QED BY <2>1, <3>4 DEF MdTable
  <2>2. CASE m.current_cmd # 2
    <3>1. s.iq_y = m.iq_y
      BY <2>2, StoreFields
    <3> QED BY <2>2, <3>1 DEF MdTable
  <2> QED BY <2>1, <2>2
<1>3. MdTable(s.iq_uv, MdecTableWords, MdecTableWords, m.busy /\ m.current_cmd = 2, idx + 1,
              m.loading)
  <2>1. CASE m.current_cmd = 2
    <3>1. s.iq_uv = IF idx >= MdecTableWords /\ idx < MdecTableWords + MdecTableWords
                    THEN [m.iq_uv EXCEPT ![idx + 1 - MdecTableWords] = m.loading]
                    ELSE m.iq_uv
      BY <2>1, StoreFields
    <3>2. DOMAIN m.iq_uv = 1..MdecTableWords
      BY DEF MdIsRecord
    <3>3. MdTable(m.iq_uv, MdecTableWords, MdecTableWords, TRUE, idx, m.loading)
      BY <2>1 DEF MdTable
    <3> HIDE DEF s
    <3>4. MdTable(s.iq_uv, MdecTableWords, MdecTableWords, TRUE, idx + 1, m.loading)
      BY <3>1, <3>2, <3>3, TableStores
    <3> QED BY <2>1, <3>4 DEF MdTable
  <2>2. CASE m.current_cmd # 2
    <3>1. s.iq_uv = m.iq_uv
      BY <2>2, StoreFields
    <3> QED BY <2>2, <3>1 DEF MdTable
  <2> QED BY <2>1, <2>2
<1>4. MdTable(s.scale_table, 2 * MdecTableWords, 0, m.busy /\ m.current_cmd = 3, idx + 1,
              m.loading)
  <2>1. CASE m.current_cmd = 3
    <3>1. s.scale_table = IF idx >= 0 /\ idx < 0 + 2 * MdecTableWords
                          THEN [m.scale_table EXCEPT ![idx + 1 - 0] = m.loading]
                          ELSE m.scale_table
      BY <2>1, StoreFields
    <3>2. DOMAIN m.scale_table = 1..(2 * MdecTableWords)
      BY DEF MdIsRecord
    <3>3. MdTable(m.scale_table, 2 * MdecTableWords, 0, TRUE, idx, m.loading)
      BY <2>1 DEF MdTable
    <3> HIDE DEF s
    <3>4. MdTable(s.scale_table, 2 * MdecTableWords, 0, TRUE, idx + 1, m.loading)
      BY <3>1, <3>2, <3>3, TableStores, 0 \in Nat
    <3> QED BY <2>1, <3>4 DEF MdTable
  <2>2. CASE m.current_cmd # 3
    <3>1. s.scale_table = m.scale_table
      BY <2>2, StoreFields
    <3> QED BY <2>2, <3>1 DEF MdTable
  <2> QED BY <2>1, <2>2
<1> HIDE DEF s
<1>5. MdTables(s)
  BY <1>1, <1>2, <1>3, <1>4 DEF MdTables
<1> QED BY <1>5 DEF s

\* The word of a stream that a command declared fits the buffer.
LEMMA BufferKeeps ==
  ASSUME NEW m, MdIsRecord(m), MdTables(m), NEW lo \in MdecHalfs, NEW hi \in MdecHalfs,
         m.param_words > 0,
         m.current_cmd = 1 => /\ Len(m.in_buf) = 2 * (m.param_words - 1)
                              /\ m.param_words <= MdecMaxWords
  PROVE  LET s == MdecBuffer(m, lo, hi)
         IN  /\ MdIsRecord(s) /\ MdTables(s) /\ MdKeeps(s)
             /\ s.current_cmd = m.current_cmd /\ s.remaining_words = m.remaining_words
             /\ s.param_words = m.param_words /\ s.declared = m.declared
             /\ s.busy = m.busy
<1>1. CASE m.current_cmd = 1
  <2> DEFINE b == m.in_buf \o <<lo, hi>>
             s == [m EXCEPT !.in_buf = b]
  <2>1. m.in_buf \in Seq(MdecHalfs) /\ m.param_words \in Nat /\ Len(m.in_buf) \in Nat
    BY DEF MdIsRecord
  <2>2. Len(m.in_buf) + 1 < MdecInHalfs
    BY <1>1, <2>1, MdecAssumption
  <2>3. MdecBuffer(m, lo, hi) = s
    BY <1>1, <2>2 DEF MdecBuffer
  <2>4. b \in Seq(MdecHalfs) /\ Len(b) = Len(m.in_buf) + 2
    <3>1. <<lo, hi>> \in Seq(MdecHalfs) /\ Len(<<lo, hi>>) = 2
      OBVIOUS
    <3> QED BY <2>1, <3>1, ConcatProperties
  <2> HIDE DEF b
  <2>5. MdIsRecord(s) /\ s.in_buf = b
    BY <2>4 DEF MdIsRecord
  <2>6. /\ s.current_cmd = m.current_cmd /\ s.remaining_words = m.remaining_words
        /\ s.param_words = m.param_words /\ s.declared = m.declared
        /\ s.busy = m.busy /\ s.iq_y = m.iq_y /\ s.iq_uv = m.iq_uv
        /\ s.scale_table = m.scale_table /\ s.loading = m.loading
    BY DEF MdIsRecord
  <2> HIDE DEF s
  <2>7. MdTables(s)
    BY <2>6 DEF MdTables
  <2>8. MdKeeps(s)
    BY <1>1, <2>1, <2>4, <2>5, <2>6 DEF MdKeeps
  <2> QED BY <2>3, <2>5, <2>6, <2>7, <2>8
<1>2. CASE m.current_cmd # 1
  <2>1. MdecBuffer(m, lo, hi) = m
    BY <1>2 DEF MdecBuffer
  <2> QED BY <1>2, <2>1 DEF MdKeeps
<1> QED BY <1>1, <1>2

\* A table is whole when its command ends: the words received are all of
\* its load, or none of its own.
LEMMA TablesEnd ==
  ASSUME NEW m, MdIsRecord(m), MdTables(m), m.busy,
         m.current_cmd = 2 => m.param_words \in {MdecTableWords, 2 * MdecTableWords},
         m.current_cmd = 3 => m.param_words = 2 * MdecTableWords,
         NEW q, NEW other
  PROVE  /\ MdTable(m.iq_y, MdecTableWords, 0, FALSE, q, other)
         /\ MdTable(m.iq_uv, MdecTableWords, MdecTableWords, FALSE, q, other)
         /\ MdTable(m.scale_table, 2 * MdecTableWords, 0, FALSE, q, other)
<1> DEFINE p == m.param_words
<1>1. MdecTableWords \in Nat /\ 2 * MdecTableWords \in Nat /\ p \in Nat
  BY MdecAssumption DEF MdIsRecord
<1>2. /\ MdTable(m.iq_y, MdecTableWords, 0, m.current_cmd = 2, p, m.loading)
      /\ MdTable(m.iq_uv, MdecTableWords, MdecTableWords, m.current_cmd = 2, p, m.loading)
      /\ MdTable(m.scale_table, 2 * MdecTableWords, 0, m.current_cmd = 3, p, m.loading)
  BY DEF MdTables, MdTable
<1>3. /\ (m.current_cmd = 2) => (p <= 0 \/ p >= 0 + MdecTableWords)
      /\ (m.current_cmd = 2) => (p <= MdecTableWords \/ p >= MdecTableWords + MdecTableWords)
      /\ (m.current_cmd = 3) => (p <= 0 \/ p >= 0 + 2 * MdecTableWords)
  BY <1>1
<1>4. (m.current_cmd = 2) \in BOOLEAN /\ (m.current_cmd = 3) \in BOOLEAN /\ 0 \in Nat
  OBVIOUS
<1> HIDE DEF p
<1>5. MdTable(m.iq_y, MdecTableWords, 0, FALSE, q, other)
  BY <1>1, <1>2, <1>3, <1>4, TableDone
<1>6. MdTable(m.iq_uv, MdecTableWords, MdecTableWords, FALSE, q, other)
  BY <1>1, <1>2, <1>3, <1>4, TableDone
<1>7. MdTable(m.scale_table, 2 * MdecTableWords, 0, FALSE, q, other)
  BY <1>1, <1>2, <1>3, <1>4, TableDone
<1> QED BY <1>5, <1>6, <1>7

LEMMA CountKeeps ==
  ASSUME NEW m, MdIsRecord(m), MdTables(m), MdKeeps(m), m.busy, m.current_cmd # 0,
         m.remaining_words > 0,
         m.param_words + m.remaining_words = m.declared + 1,
         m.current_cmd = 1 => m.declared <= MdecMaxWords,
         m.current_cmd = 2 => m.declared \in {MdecTableWords, 2 * MdecTableWords},
         m.current_cmd = 3 => m.declared = 2 * MdecTableWords
  PROVE  MdGood(MdecCount(m))
<1>1. /\ m.remaining_words \in Nat /\ m.param_words \in Nat /\ m.declared \in Nat
  BY DEF MdIsRecord
<1>2. CASE m.remaining_words - 1 > 0
  <2> DEFINE left == m.remaining_words - 1
             s == [m EXCEPT !.remaining_words = left]
  <2>1. MdecCount(m) = s
    BY <1>1, <1>2 DEF MdecCount
  <2>2. left \in Nat /\ left > 0 /\ left + 1 = m.remaining_words
    BY <1>1, <1>2
  <2> HIDE DEF left
  <2>3. MdIsRecord(s) /\ s.remaining_words = left
    BY <2>2 DEF MdIsRecord
  <2>4. /\ s.current_cmd = m.current_cmd /\ s.param_words = m.param_words
        /\ s.declared = m.declared /\ s.in_buf = m.in_buf
        /\ s.busy = m.busy /\ s.iq_y = m.iq_y /\ s.iq_uv = m.iq_uv
        /\ s.scale_table = m.scale_table /\ s.loading = m.loading
    BY DEF MdIsRecord
  <2> HIDE DEF s
  <2>5. MdTables(s) /\ MdKeeps(s)
    BY <2>4 DEF MdTables, MdKeeps
  <2>6. MdCounts(s)
    BY <1>1, <2>2, <2>3, <2>4 DEF MdCounts
  <2> QED BY <2>1, <2>3, <2>5, <2>6 DEF MdGood
<1>3. CASE ~(m.remaining_words - 1 > 0)
  <2>1. m.param_words = m.declared
    BY <1>1, <1>3
  <2>2. /\ MdTable(m.iq_y, MdecTableWords, 0, FALSE, m.param_words, m.loading)
        /\ MdTable(m.iq_uv, MdecTableWords, MdecTableWords, FALSE, m.param_words, m.loading)
        /\ MdTable(m.scale_table, 2 * MdecTableWords, 0, FALSE, m.param_words, m.loading)
    BY <2>1, TablesEnd
  <2> DEFINE done == [m EXCEPT !.remaining_words = MdecMaxWords, !.busy = FALSE]
             result == MdecDecode(m.in_buf, m.output_depth, m.current_block)
             ended == [done EXCEPT !.out_count = result.out, !.current_block = result.block]
  <2>3. MdecCount(m) \in {done, ended}
    BY <1>1, <1>3 DEF MdecCount
  <2> HIDE DEF result
  <2>4. ASSUME NEW s \in {done, ended}
        PROVE  MdGood(s)
    <3>1. MdIsRecord(done) /\ MdIsRecord(ended)
      BY MdecAssumption DEF MdIsRecord
    <3>2. /\ s.current_cmd = m.current_cmd /\ s.param_words = m.param_words
          /\ s.in_buf = m.in_buf /\ s.busy = FALSE
          /\ s.iq_y = m.iq_y /\ s.iq_uv = m.iq_uv
          /\ s.scale_table = m.scale_table /\ s.loading = m.loading
      BY DEF MdIsRecord
    <3> HIDE DEF done, ended
    <3>3. MdIsRecord(s)
      BY <3>1
    <3>4. MdTables(s)
      BY <2>2, <3>2 DEF MdTables, MdTable
    <3>5. MdKeeps(s) /\ MdCounts(s)
      BY <3>2 DEF MdKeeps, MdCounts
    <3> QED BY <3>3, <3>4, <3>5 DEF MdGood
  <2> QED BY <2>3, <2>4
<1> QED BY <1>2, <1>3

LEMMA ParameterGood ==
  ASSUME IInv, MdecParameter
  PROVE  IInv'
<1> DEFINE m == g_mdec
           received == m.param_words + 1
           one == [m EXCEPT !.param_words = received]
           st == MdecStore(one, m.param_words)
<1>1. PICK lo \in MdecHalfs, hi \in MdecHalfs : g_mdec' = MdecCount(MdecBuffer(st, lo, hi))
  BY MdecAssumption DEF MdecParameter
<1>2. MdIsRecord(m) /\ MdCounts(m) /\ MdKeeps(m) /\ MdTables(m) /\ m.busy
  BY DEF IInv, MdGood, MdecParameter
<1>3. m.param_words \in Nat /\ m.remaining_words \in Nat /\ m.declared \in Nat
  BY <1>2 DEF MdIsRecord
<1>4. MdIsRecord(one) /\ one.param_words = m.param_words + 1
  <2>1. received \in Nat
    BY <1>3
  <2> HIDE DEF received
  <2>2. MdIsRecord(one) /\ one.param_words = received
    BY <1>2, <2>1 DEF MdIsRecord
  <2> QED BY <2>2 DEF received
<1>5. /\ one.current_cmd = m.current_cmd /\ one.remaining_words = m.remaining_words
      /\ one.declared = m.declared /\ one.in_buf = m.in_buf
      /\ one.busy = m.busy /\ one.iq_y = m.iq_y /\ one.iq_uv = m.iq_uv
      /\ one.scale_table = m.scale_table /\ one.loading = m.loading
  BY <1>2 DEF MdIsRecord
<1> HIDE DEF one
<1>6. MdTables(st)
  BY <1>2, <1>3, <1>4, <1>5, StoreTables DEF MdTables
<1>7. /\ MdIsRecord(st)
      /\ st.current_cmd = m.current_cmd /\ st.remaining_words = m.remaining_words
      /\ st.declared = m.declared /\ st.param_words = m.param_words + 1
      /\ st.busy /\ st.in_buf = m.in_buf
  BY <1>2, <1>3, <1>4, <1>5, StoreFields
<1>8. /\ m.current_cmd # 0 /\ m.remaining_words > 0
      /\ m.param_words + m.remaining_words = m.declared
      /\ m.current_cmd = 1 => m.declared <= MdecMaxWords
      /\ m.current_cmd = 2 => m.declared \in {MdecTableWords, 2 * MdecTableWords}
      /\ m.current_cmd = 3 => m.declared = 2 * MdecTableWords
      /\ m.current_cmd = 1 => Len(m.in_buf) = 2 * m.param_words
  BY <1>2 DEF MdCounts, MdKeeps
<1> HIDE DEF st, m
<1>9. /\ st.param_words > 0
      /\ st.current_cmd = 1 => /\ Len(st.in_buf) = 2 * (st.param_words - 1)
                               /\ st.param_words <= MdecMaxWords
  BY <1>3, <1>7, <1>8, MdecAssumption
<1> DEFINE b == MdecBuffer(st, lo, hi)
<1>10. /\ MdIsRecord(b) /\ MdTables(b) /\ MdKeeps(b)
       /\ b.current_cmd = m.current_cmd /\ b.remaining_words = m.remaining_words
       /\ b.param_words = m.param_words + 1 /\ b.declared = m.declared
       /\ b.busy
  BY <1>6, <1>7, <1>9, BufferKeeps
<1> HIDE DEF b
<1>11. b.param_words + b.remaining_words = b.declared + 1
  BY <1>3, <1>8, <1>10
<1>12. MdGood(MdecCount(b))
  BY <1>8, <1>10, <1>11, CountKeeps
<1> QED BY <1>1, <1>12 DEF b, IInv

-----------------------------------------------------------------------------
(* The other accesses.                                                     *)

\* A step that touches neither the tables nor the words of a command.
LEMMA RestKeeps ==
  ASSUME NEW m, NEW s, MdGood(m), MdIsRecord(s),
         s.current_cmd = m.current_cmd, s.remaining_words = m.remaining_words,
         s.param_words = m.param_words, s.declared = m.declared, s.busy = m.busy,
         s.in_buf = m.in_buf, s.iq_y = m.iq_y, s.iq_uv = m.iq_uv,
         s.scale_table = m.scale_table, s.loading = m.loading
  PROVE  MdGood(s)
BY DEF MdGood, MdCounts, MdKeeps, MdTables

\* A command finds every table whole, and has received nothing.
LEMMA CommandStarts ==
  ASSUME NEW m, NEW s, MdGood(m), ~m.busy, MdIsRecord(s), MdCounts(s),
         s.param_words = 0, s.in_buf = << >>,
         s.iq_y = m.iq_y, s.iq_uv = m.iq_uv, s.scale_table = m.scale_table
  PROVE  MdGood(s)
<1>1. MdecTableWords \in Nat /\ 2 * MdecTableWords \in Nat /\ 0 \in Nat
  BY MdecAssumption
<1>2. /\ MdTable(m.iq_y, MdecTableWords, 0, FALSE, m.param_words, m.loading)
      /\ MdTable(m.iq_uv, MdecTableWords, MdecTableWords, FALSE, m.param_words, m.loading)
      /\ MdTable(m.scale_table, 2 * MdecTableWords, 0, FALSE, m.param_words, m.loading)
  BY DEF MdGood, MdTables, MdTable
<1> DEFINE loads2 == s.busy /\ s.current_cmd = 2
           loads3 == s.busy /\ s.current_cmd = 3
<1>3. loads2 \in BOOLEAN /\ loads3 \in BOOLEAN
  OBVIOUS
<1> HIDE DEF loads2, loads3
<1>4. MdTable(s.iq_y, MdecTableWords, 0, loads2, 0, s.loading)
  BY <1>1, <1>2, <1>3, TableStarts
<1>5. MdTable(s.iq_uv, MdecTableWords, MdecTableWords, loads2, 0, s.loading)
  BY <1>1, <1>2, <1>3, TableStarts
<1>6. MdTable(s.scale_table, 2 * MdecTableWords, 0, loads3, 0, s.loading)
  BY <1>1, <1>2, <1>3, TableStarts
<1>7. MdTables(s)
  BY <1>4, <1>5, <1>6 DEF MdTables, loads2, loads3
<1>8. MdKeeps(s)
  BY DEF MdKeeps
<1> QED BY <1>7, <1>8 DEF MdGood

LEMMA FreshFields ==
  ASSUME NEW m, MdIsRecord(m), m = g_mdec, NEW cmd \in 0..3, NEW depth
  PROVE  LET s == MdecFresh(cmd, depth)
         IN  /\ MdIsRecord(s)
             /\ s.current_cmd = cmd /\ s.output_depth = depth
             /\ s.param_words = 0 /\ s.in_buf = << >>
             /\ s.iq_y = m.iq_y /\ s.iq_uv = m.iq_uv /\ s.scale_table = m.scale_table
<1> DEFINE s == [m EXCEPT !.current_cmd = cmd, !.output_depth = depth,
                      !.param_words = 0, !.in_buf = << >>]
<1>1. MdecFresh(cmd, depth) = s
  BY DEF MdecFresh
<1>2. << >> \in Seq(MdecHalfs) /\ 0 \in Nat
  OBVIOUS
<1>3. MdIsRecord(s)
  BY <1>2 DEF MdIsRecord
<1>4. /\ s.current_cmd = cmd /\ s.output_depth = depth
      /\ s.param_words = 0 /\ s.in_buf = << >>
      /\ s.iq_y = m.iq_y /\ s.iq_uv = m.iq_uv /\ s.scale_table = m.scale_table
  BY DEF MdIsRecord
<1> HIDE DEF s
<1> QED BY <1>1, <1>3, <1>4

LEMMA CommandGood ==
  ASSUME IInv, MdecCommand
  PROVE  IInv'
<1> DEFINE m == g_mdec
<1>1. MdGood(m) /\ MdIsRecord(m) /\ ~m.busy
  BY DEF IInv, MdGood, MdecCommand
<1>2. /\ MdecTableWords \in Nat \ {0} /\ MdecMaxWords \in Nat
      /\ MdecDeclares \subseteq 0..MdecMaxWords /\ MdecDeclares \subseteq Nat
  BY MdecAssumption
<1>3. PICK depth : \/ \E words \in MdecDeclares : MdecDecodeCommand(depth, words)
                   \/ \E table \in MdecTables, colour \in BOOLEAN :
                        MdecTableCommand(depth, table, colour)
                   \/ \E table \in MdecTables : MdecScaleCommand(depth, table)
                   \/ MdecNoCommand(depth)
  BY DEF MdecCommand
<1>4. ASSUME NEW words \in MdecDeclares, MdecDecodeCommand(depth, words)
      PROVE  IInv'
  <2> DEFINE f == MdecFresh(1, depth)
             going == words # 0
             s == [f EXCEPT !.out_count = 0, !.out_read_pos = 0,
                            !.remaining_words = words, !.declared = words,
                            !.busy = going]
  <2>1. g_mdec' = s
    BY <1>4 DEF MdecDecodeCommand
  <2>2. /\ MdIsRecord(f)
        /\ f.current_cmd = 1 /\ f.param_words = 0 /\ f.in_buf = << >>
        /\ f.iq_y = m.iq_y /\ f.iq_uv = m.iq_uv /\ f.scale_table = m.scale_table
    BY <1>1, FreshFields
  <2>3. words \in Nat /\ words <= MdecMaxWords
    BY <1>2
  <2>4. going \in BOOLEAN /\ (going <=> words # 0)
    OBVIOUS
  <2> HIDE DEF f, going
  <2>5. MdIsRecord(s)
    BY <2>2, <2>3, <2>4 DEF MdIsRecord
  <2>6. /\ s.current_cmd = 1 /\ s.param_words = 0 /\ s.in_buf = << >>
        /\ s.iq_y = m.iq_y /\ s.iq_uv = m.iq_uv /\ s.scale_table = m.scale_table
        /\ s.remaining_words = words /\ s.declared = words /\ s.busy = going
    BY <2>2 DEF MdIsRecord
  <2> HIDE DEF s
  <2>7. MdCounts(s)
    BY <2>3, <2>4, <2>6 DEF MdCounts
  <2>8. MdGood(s)
    BY <1>1, <2>5, <2>6, <2>7, CommandStarts
  <2> QED BY <2>1, <2>8 DEF IInv
<1>5. ASSUME NEW table \in MdecTables, NEW cmd \in 2..3, NEW words \in Nat,
             words > 0,
             cmd = 2 => words \in {MdecTableWords, 2 * MdecTableWords},
             cmd = 3 => words = 2 * MdecTableWords,
             g_mdec' = [MdecFresh(cmd, depth) EXCEPT
                          !.remaining_words = words, !.declared = words,
                          !.busy = TRUE, !.loading = table]
      PROVE  IInv'
  <2> DEFINE f == MdecFresh(cmd, depth)
             s == [f EXCEPT !.remaining_words = words, !.declared = words,
                            !.busy = TRUE, !.loading = table]
  <2>1. g_mdec' = s
    BY <1>5
  <2>2. /\ MdIsRecord(f)
        /\ f.current_cmd = cmd /\ f.param_words = 0 /\ f.in_buf = << >>
        /\ f.iq_y = m.iq_y /\ f.iq_uv = m.iq_uv /\ f.scale_table = m.scale_table
    <3>1. cmd \in 0..3
      OBVIOUS
    <3> QED BY <1>1, <3>1, FreshFields
  <2> HIDE DEF f
  <2>3. MdIsRecord(s)
    BY <2>2 DEF MdIsRecord, MdNames
  <2>4. /\ s.current_cmd = cmd /\ s.param_words = 0 /\ s.in_buf = << >>
        /\ s.iq_y = m.iq_y /\ s.iq_uv = m.iq_uv /\ s.scale_table = m.scale_table
        /\ s.remaining_words = words /\ s.declared = words
    BY <2>2 DEF MdIsRecord
  <2> HIDE DEF s
  <2>5. MdCounts(s)
    BY <1>5, <2>4 DEF MdCounts
  <2>6. MdGood(s)
    BY <1>1, <2>3, <2>4, <2>5, CommandStarts
  <2> QED BY <2>1, <2>6 DEF IInv
<1>6. ASSUME NEW table \in MdecTables, NEW colour \in BOOLEAN,
             MdecTableCommand(depth, table, colour)
      PROVE  IInv'
  <2> DEFINE words == IF colour THEN 2 * MdecTableWords ELSE MdecTableWords
  <2>1. words \in Nat /\ words > 0 /\ words \in {MdecTableWords, 2 * MdecTableWords}
    BY <1>2
  <2>2. g_mdec' = [MdecFresh(2, depth) EXCEPT
                     !.remaining_words = words, !.declared = words,
                     !.busy = TRUE, !.loading = table]
    BY <1>6 DEF MdecTableCommand
  <2>3. 2 \in 2..3 /\ 2 # 3
    OBVIOUS
  <2> HIDE DEF words
  <2> QED BY <1>5, <2>1, <2>2, <2>3
<1>7. ASSUME NEW table \in MdecTables, MdecScaleCommand(depth, table)
      PROVE  IInv'
  <2> DEFINE words == 2 * MdecTableWords
  <2>1. words \in Nat /\ words > 0 /\ words = 2 * MdecTableWords
    BY <1>2
  <2>2. g_mdec' = [MdecFresh(3, depth) EXCEPT
                     !.remaining_words = words, !.declared = words,
                     !.busy = TRUE, !.loading = table]
    BY <1>7 DEF MdecScaleCommand
  <2>3. 3 \in 2..3 /\ 3 # 2
    OBVIOUS
  <2> HIDE DEF words
  <2> QED BY <1>5, <2>1, <2>2, <2>3
<1>8. ASSUME MdecNoCommand(depth)
      PROVE  IInv'
  <2> DEFINE f == MdecFresh(0, depth)
             s == [f EXCEPT !.remaining_words = MdecMaxWords, !.busy = FALSE]
  <2>1. g_mdec' = s
    BY <1>8 DEF MdecNoCommand
  <2>2. /\ MdIsRecord(f)
        /\ f.current_cmd = 0 /\ f.param_words = 0 /\ f.in_buf = << >>
        /\ f.iq_y = m.iq_y /\ f.iq_uv = m.iq_uv /\ f.scale_table = m.scale_table
    BY <1>1, FreshFields
  <2> HIDE DEF f
  <2>3. MdIsRecord(s)
    BY <1>2, <2>2 DEF MdIsRecord
  <2>4. /\ s.param_words = 0 /\ s.in_buf = << >> /\ s.busy = FALSE
        /\ s.iq_y = m.iq_y /\ s.iq_uv = m.iq_uv /\ s.scale_table = m.scale_table
    BY <2>2 DEF MdIsRecord
  <2> HIDE DEF s
  <2>5. MdGood(s)
    BY <1>1, <2>3, <2>4, CommandStarts DEF MdCounts
  <2> QED BY <2>1, <2>5 DEF IInv
<1> QED BY <1>3, <1>4, <1>6, <1>7, <1>8

LEMMA ResetGood == MdGood(MdecResetState)
<1> DEFINE s == MdecResetState
<1>1. MdecTableWords \in Nat /\ MdecMaxWords \in Nat
  BY MdecAssumption
<1> DEFINE w == MdecWhole(MdecDefault)
<1>2. w \in Seq({MdecDefault}) /\ Len(w) = MdecTableWords
      /\ w \in [1..MdecTableWords -> {MdecDefault}]
  BY <1>1 DEF MdecWhole
<1>3. w \o w \in [1..(2 * MdecTableWords) -> {MdecDefault}]
  <2>1. w \o w \in Seq({MdecDefault}) /\ Len(w \o w) = 2 * MdecTableWords
    BY <1>1, <1>2, ConcatProperties
  <2> HIDE DEF w
  <2> QED BY <2>1, LenProperties
<1> HIDE DEF w
<1>4. /\ s.iq_y = w /\ s.iq_uv = w /\ s.scale_table = w \o w
      /\ s.current_cmd = 0 /\ s.busy = FALSE
  BY DEF MdecResetState, w
<1> DEFINE ww == w \o w
<1>5. MdIsRecord(s)
  <2>1. w \in [1..MdecTableWords -> MdNames] /\ ww \in [1..(2 * MdecTableWords) -> MdNames]
    BY <1>2, <1>3 DEF MdNames
  <2>2. << >> \in Seq(MdecHalfs)
    OBVIOUS
  <2>3. s = [current_cmd |-> 0, output_depth |-> 3,
             remaining_words |-> MdecMaxWords, param_words |-> 0, declared |-> 0,
             data_in_enable |-> FALSE, data_out_enable |-> FALSE,
             busy |-> FALSE, current_block |-> 0,
             iq_y |-> w, iq_uv |-> w, scale_table |-> ww,
             loading |-> MdecDefault,
             in_buf |-> << >>, out_count |-> 0, out_read_pos |-> 0]
    BY DEF MdecResetState, w
  <2> HIDE DEF s, ww
  <2> QED BY <1>1, <2>1, <2>2, <2>3 DEF MdIsRecord, MdNames
<1> HIDE DEF s
<1>6. MdTables(s)
  BY <1>2, <1>3, <1>4 DEF MdTables, MdTable
<1> QED BY <1>4, <1>5, <1>6 DEF MdGood, MdCounts, MdKeeps, s

LEMMA ControlGood ==
  ASSUME IInv, MdecControl
  PROVE  IInv'
<1>1. CASE g_mdec' = MdecResetState
  BY <1>1, ResetGood DEF IInv
<1>2. ASSUME NEW in \in BOOLEAN, NEW out \in BOOLEAN,
             g_mdec' = [g_mdec EXCEPT !.data_in_enable = in, !.data_out_enable = out]
      PROVE  IInv'
  <2> DEFINE m == g_mdec
             s == [m EXCEPT !.data_in_enable = in, !.data_out_enable = out]
  <2>1. MdGood(m) /\ MdIsRecord(m)
    BY DEF IInv, MdGood
  <2>2. MdIsRecord(s)
    BY <2>1 DEF MdIsRecord
  <2>3. /\ s.current_cmd = m.current_cmd /\ s.remaining_words = m.remaining_words
        /\ s.param_words = m.param_words /\ s.declared = m.declared
        /\ s.busy = m.busy /\ s.in_buf = m.in_buf /\ s.iq_y = m.iq_y
        /\ s.iq_uv = m.iq_uv /\ s.scale_table = m.scale_table /\ s.loading = m.loading
    BY <2>1 DEF MdIsRecord
  <2>4. g_mdec' = s
    BY <1>2
  <2> HIDE DEF s
  <2> QED BY <2>1, <2>2, <2>3, <2>4, RestKeeps DEF IInv
<1> QED BY <1>1, <1>2 DEF MdecControl

LEMMA ReadGood ==
  ASSUME IInv, MdecRead
  PROVE  IInv'
<1> DEFINE m == g_mdec
<1>1. PICK pos : g_mdec' = [g_mdec EXCEPT !.out_read_pos = pos]
  BY DEF MdecRead
<1> DEFINE s == [m EXCEPT !.out_read_pos = pos]
<1>2. MdGood(m) /\ MdIsRecord(m)
  BY DEF IInv, MdGood
<1>3. MdIsRecord(s)
  BY <1>2 DEF MdIsRecord
<1>4. /\ s.current_cmd = m.current_cmd /\ s.remaining_words = m.remaining_words
      /\ s.param_words = m.param_words /\ s.declared = m.declared
      /\ s.busy = m.busy /\ s.in_buf = m.in_buf /\ s.iq_y = m.iq_y
      /\ s.iq_uv = m.iq_uv /\ s.scale_table = m.scale_table /\ s.loading = m.loading
  BY <1>2 DEF MdIsRecord
<1>5. g_mdec' = s
  BY <1>1
<1> HIDE DEF s
<1> QED BY <1>2, <1>3, <1>4, <1>5, RestKeeps DEF IInv

-----------------------------------------------------------------------------
LEMMA StepGood ==
  ASSUME IInv, [MdecNext]_mdec_vars
  PROVE  IInv'
<1>1. CASE MdecCommand
  BY <1>1, CommandGood
<1>2. CASE MdecParameter
  BY <1>2, ParameterGood
<1>3. CASE MdecControl
  BY <1>3, ControlGood
<1>4. CASE MdecRead
  BY <1>4, ReadGood
<1>5. CASE UNCHANGED g_mdec
  BY <1>5 DEF IInv
<1> QED BY <1>1, <1>2, <1>3, <1>4, <1>5
        DEF MdecNext, MdecWriteWord, MdecDma0Start, MdecDma0Word, MdecWord, mdec_vars

\* The invariant holds in every state the guest can put the decoder in.
THEOREM DecoderKeepsWords == MdecSpec => []IInv
<1>1. MdecInit => IInv
  BY ResetGood DEF MdecInit, IInv
<1>2. IInv /\ [MdecNext]_mdec_vars => IInv'
  BY StepGood
<1> QED BY <1>1, <1>2, PTL DEF MdecSpec

\* A command word is parsed exactly when the last command has all its words,
\* for every count a command may declare (hle_mdec_port_write).
THEOREM CommandsAreFramed == MdecSpec => []MdecFraming
<1>1. IInv => MdecFraming
  BY DEF IInv, MdGood, MdCounts, MdecFraming
<1> QED BY <1>1, DecoderKeepsWords, PTL

\* The branch of hle_mdec_port_write that drops a word of a full buffer is never
\* taken, whatever the size of the register's count field.
THEOREM StreamsAreKept == MdecSpec => []MdecKeepsEveryWord
<1>1. IInv => MdecKeepsEveryWord
  BY DEF IInv, MdGood, MdKeeps, MdecKeepsEveryWord
<1> QED BY <1>1, DecoderKeepsWords, PTL

\* Outside a load no quantisation table and no scale table mixes words of
\* two loads, for tables of any size.
THEOREM TablesStayWhole == MdecSpec => []MdecTablesWhole
<1>1. IInv => MdecTablesWhole
  BY DEF IInv, MdGood, MdTables, MdTable, MdecTablesWhole
<1> QED BY <1>1, DecoderKeepsWords, PTL

-----------------------------------------------------------------------------
(* The reader of the format, and the blocks the decoder finds.             *)

MdStreams == Seq(MdecHalfs)
MdReaders == [coef : Nat \cup {-1}, blocks : Nat]

\* What the reader knows after each halfword.
MdReading(in, g) ==
  /\ g \in [0..Len(in) -> MdReaders]
  /\ g[0] = [coef |-> -1, blocks |-> 0]
  /\ \A n \in 1..Len(in) : g[n] = MdecReads(g[n - 1], in[n])

\* After p halfwords the reader is outside of the blocks, and has met n.
MdBetween(in, g, p, n) ==
  /\ p \in 0..Len(in)
  /\ g[p].blocks = n
  /\ p < Len(in) => g[p].coef = -1

LEMMA RunIsNat ==
  ASSUME NEW half \in MdecHalfs  PROVE MdecRun(half) \in Nat
  BY MdecAssumption DEF MdecRun

LEMMA ReadsTyped ==
  ASSUME NEW s \in MdReaders, NEW half \in MdecHalfs
  PROVE  MdecReads(s, half) \in MdReaders
<1>1. MdecRun(half) \in Nat
  BY RunIsNat
<1>2. s.coef \in Nat \cup {-1} /\ s.blocks \in Nat
  BY DEF MdReaders
<1>3. CASE s.coef = -1 /\ half = MdecPad
  BY <1>3 DEF MdecReads
<1>4. CASE s.coef = -1 /\ half # MdecPad
  <2>1. MdecReads(s, half) = [coef |-> 0, blocks |-> s.blocks + 1]
    BY <1>4 DEF MdecReads
  <2> QED  BY <1>2, <2>1 DEF MdReaders
<1>5. CASE s.coef # -1
  <2> DEFINE coef == s.coef + MdecRun(half) + 1
             next == IF coef > MdecLastCoef THEN -1 ELSE coef
  <2>1. next \in Nat \cup {-1}
    BY <1>1, <1>2, <1>5
  <2>2. MdecReads(s, half) = [coef |-> next, blocks |-> s.blocks]
    BY <1>5 DEF MdecReads
  <2> HIDE DEF next
  <2> QED  BY <1>2, <2>1, <2>2 DEF MdReaders
<1> QED  BY <1>3, <1>4, <1>5

LEMMA BlocksAreRead ==
  ASSUME NEW in \in MdStreams
  PROVE  \E g : MdReading(in, g) /\ MdecStreamBlocks(in) = g[Len(in)].blocks
<1> DEFINE L == Len(in)
           Zero == [coef |-> -1, blocks |-> 0]
           Walks(f) == f = [n \in 0..L |-> IF n = 0 THEN Zero ELSE MdecReads(f[n - 1], in[n])]
           F == [n \in 1..L |-> [s \in MdReaders |-> MdecReads(s, in[n])]]
           read == CHOOSE f : Walks(f)
<1>1. L \in Nat /\ \A n \in 1..L : in[n] \in MdecHalfs
  BY DEF MdStreams
<1>2. MdecStreamBlocks(in) = read[L].blocks
  BY DEF MdecStreamBlocks
<1>3. Zero \in MdReaders
  BY DEF MdReaders
<1> HIDE DEF L, Zero
<1>4. F \in [1..L -> [MdReaders -> MdReaders]]
  BY <1>1, ReadsTyped
<1>5. PICK g \in [0..L -> MdReaders] : g[0] = Zero /\ \A n \in 1..L : g[n] = F[n][g[n - 1]]
  <2> HIDE DEF F
  <2>1. FromHere(Zero, F, MdReaders, L)
    BY <1>1, <1>3, <1>4, RecursionReaches
  <2> QED  BY <2>1 DEF FromHere
<1>6. \A n \in 1..L : g[n] = MdecReads(g[n - 1], in[n])
  <2> TAKE n \in 1..L
  <2>1. n - 1 \in 0..L
    BY <1>1
  <2>2. g[n - 1] \in MdReaders /\ g[n] = F[n][g[n - 1]]
    BY <1>5, <2>1
  <2>3. F[n] = [s \in MdReaders |-> MdecReads(s, in[n])]
    OBVIOUS
  <2> QED  BY <2>2, <2>3
<1>7. Walks(read)
  <2>1. Walks(g)
    BY <1>5, <1>6
  <2> HIDE DEF Walks
  <2> QED  BY <2>1, Zenon
<1> HIDE DEF read
<1>8. \A n \in 0..L : read[n] = IF n = 0 THEN Zero ELSE MdecReads(read[n - 1], in[n])
  BY <1>7
<1>9. \A n \in 1..L : n \in 0..L /\ n # 0
  BY <1>1
<1>10. read[L] = g[L]
  <2>1. \A n \in 1..L : read[n - 1] = g[n - 1] => read[n] = g[n]
    BY <1>6, <1>8, <1>9
  <2>2. read[0] = g[0] /\ L \in 0..L
    BY <1>1, <1>5, <1>8
  <2>3. Alike(read, g, L)
    BY <2>1, <2>2 DEF Alike
  <2> QED  BY <1>1, <2>2, <2>3, SameSteps
<1>11. MdReading(in, g)
  BY <1>5, <1>6 DEF MdReading, L, Zero
<1> QED  BY <1>2, <1>10, <1>11 DEF L

-----------------------------------------------------------------------------
\* The end of a block, by its coefficients.
MdEnds(in, first, f) == {i \in first..Len(in) : f[i] > MdecLastCoef}
MdFirstEnd(in, first, f) ==
  IF MdEnds(in, first, f) = {} THEN Len(in)
  ELSE CHOOSE i \in MdEnds(in, first, f) : \A j \in MdEnds(in, first, f) : i <= j

\* The coefficient each halfword of a block brings the decoder to.
MdCoefs(in, first, f) ==
  /\ f[first] = 0
  /\ \A i \in (first + 1)..Len(in) : f[i] \in Nat /\ f[i] = f[i - 1] + MdecRun(in[i]) + 1

LEMMA LeastOf ==
  ASSUME NEW E, E \subseteq Nat, E # {}
  PROVE  /\ (CHOOSE i \in E : \A j \in E : i <= j) \in E
         /\ \A j \in E : (CHOOSE i \in E : \A k \in E : i <= k) <= j
<1>1. \E i \in E : \A j \in E : i <= j
  BY LeastNumber
<1> QED  BY <1>1

LEMMA EndIsIn ==
  ASSUME NEW in \in MdStreams, NEW first \in 1..Len(in), NEW f
  PROVE  /\ MdFirstEnd(in, first, f) \in first..Len(in)
         /\ MdEnds(in, first, f) # {} =>
              /\ MdFirstEnd(in, first, f) \in MdEnds(in, first, f)
              /\ \A j \in MdEnds(in, first, f) : MdFirstEnd(in, first, f) <= j
<1> DEFINE E == MdEnds(in, first, f)
<1>1. Len(in) \in Nat /\ E \subseteq first..Len(in) /\ E \subseteq Nat
  BY DEF MdEnds, MdStreams
<1> HIDE DEF E
<1>2. CASE E = {}
  BY <1>1, <1>2 DEF MdFirstEnd, E
<1>3. CASE E # {}
  <2> DEFINE e == CHOOSE i \in E : \A j \in E : i <= j
  <2>1. e \in E /\ \A j \in E : e <= j
    BY <1>1, <1>3, LeastOf
  <2>2. MdFirstEnd(in, first, f) = e
    BY <1>3 DEF MdFirstEnd, E
  <2> HIDE DEF e
  <2> QED  BY <1>1, <2>1, <2>2 DEF E
<1> QED  BY <1>2, <1>3

LEMMA CoefsAre ==
  ASSUME NEW in \in MdStreams, NEW first \in 1..Len(in)
  PROVE  \E f : MdCoefs(in, first, f) /\ MdecBlockEnd(in, first) = MdFirstEnd(in, first, f)
<1> DEFINE L == Len(in)
           K == L - first
           Walks(f) == f = [i \in first..L |->
                             IF i = first THEN 0 ELSE f[i - 1] + MdecRun(in[i]) + 1]
           F == [n \in 1..K |-> [x \in Nat |-> x + MdecRun(in[first + n]) + 1]]
           coef == CHOOSE f : Walks(f)
<1>1. L \in Nat /\ K \in Nat /\ \A n \in 1..L : MdecRun(in[n]) \in Nat
  BY RunIsNat DEF MdStreams
<1>2. MdecBlockEnd(in, first) = MdFirstEnd(in, first, coef)
  BY DEF MdecBlockEnd, MdFirstEnd, MdEnds
<1>3. first + K = L
  BY <1>1
<1> HIDE DEF L, K
<1>4. F \in [1..K -> [Nat -> Nat]]
  <2>1. \A n \in 1..K : first + n \in 1..L
    BY <1>1, <1>3
  <2>2. ASSUME NEW n \in 1..K, NEW x \in Nat  PROVE x + MdecRun(in[first + n]) + 1 \in Nat
    <3>1. first + n \in 1..L
      BY <2>1
    <3>2. MdecRun(in[first + n]) \in Nat
      BY <1>1, <3>1
    <3> QED  BY <3>2
  <2>3. \A n \in 1..K : [x \in Nat |-> x + MdecRun(in[first + n]) + 1] \in [Nat -> Nat]
    BY <2>2
  <2> QED  BY <2>3
<1>5. PICK g \in [0..K -> Nat] : g[0] = 0 /\ \A n \in 1..K : g[n] = F[n][g[n - 1]]
  <2> HIDE DEF F
  <2>1. FromHere(0, F, Nat, K)
    BY <1>1, <1>4, RecursionReaches
  <2> QED  BY <2>1 DEF FromHere
<1>6. \A n \in 1..K : g[n - 1] \in Nat /\ g[n] = g[n - 1] + MdecRun(in[first + n]) + 1
  <2> TAKE n \in 1..K
  <2>1. n - 1 \in 0..K
    BY <1>1
  <2>2. g[n - 1] \in Nat /\ g[n] = F[n][g[n - 1]]
    BY <1>5, <2>1
  <2>3. F[n] = [x \in Nat |-> x + MdecRun(in[first + n]) + 1]
    OBVIOUS
  <2> QED  BY <2>2, <2>3
<1> HIDE DEF F
<1> DEFINE h == [i \in first..L |-> g[i - first]]
<1>7. ASSUME NEW i \in first..L
      PROVE  h[i] = IF i = first THEN 0 ELSE h[i - 1] + MdecRun(in[i]) + 1
  <2>1. CASE i = first
    BY <1>5, <2>1
  <2>2. CASE i # first
    <3>1. i - first \in 1..K /\ i - 1 \in first..L /\ (i - 1) - first = (i - first) - 1
          /\ first + (i - first) = i
      BY <1>1, <1>3, <2>2
    <3>2. h[i] = g[i - first] /\ h[i - 1] = g[(i - first) - 1]
      BY <3>1
    <3>3. g[i - first] = g[(i - first) - 1] + MdecRun(in[first + (i - first)]) + 1
      BY <1>6, <3>1
    <3> HIDE DEF h
    <3> QED  BY <2>2, <3>1, <3>2, <3>3
  <2> QED  BY <2>1, <2>2
<1>8. Walks(coef)
  <2>1. Walks(h)
    <3> DEFINE w == [i \in first..L |-> IF i = first THEN 0 ELSE h[i - 1] + MdecRun(in[i]) + 1]
    <3>1. \A i \in first..L : h[i] = w[i]
      <4> HIDE DEF h
      <4> QED  BY <1>7
    <3>2. DOMAIN h = first..L /\ DOMAIN w = first..L /\ h = [i \in first..L |-> h[i]]
          /\ w = [i \in first..L |-> w[i]]
      OBVIOUS
    <3> HIDE DEF h, w
    <3>3. h = w
      BY <3>1, <3>2
    <3> QED  BY <3>3 DEF w
  <2> HIDE DEF Walks, h
  <2> QED  BY <2>1, Zenon
<1> HIDE DEF coef, h
<1>9. \A i \in first..L : coef[i] = IF i = first THEN 0 ELSE coef[i - 1] + MdecRun(in[i]) + 1
  BY <1>8
<1> HIDE DEF Walks
<1> DEFINE T == {n \in 0..K : coef[first + n] \in Nat}
<1>10. K \in Nat /\ Inductive(T, K)
  <2>1. 0 \in T
    BY <1>1, <1>3, <1>9
  <2>2. ASSUME NEW n \in 1..K, n - 1 \in T  PROVE n \in T
    <3>1. first + n \in first..L /\ first + n # first /\ first + n \in 1..L
          /\ (first + n) - 1 = first + (n - 1) /\ n \in 0..K
      BY <1>1, <1>3
    <3>2. coef[(first + n) - 1] \in Nat
      BY <2>2, <3>1
    <3>3. coef[first + n] = coef[(first + n) - 1] + MdecRun(in[first + n]) + 1
      BY <1>9, <3>1
    <3>4. MdecRun(in[first + n]) \in Nat
      BY <1>1, <3>1
    <3> QED  BY <3>1, <3>2, <3>3, <3>4
  <2> QED  BY <1>1, <2>1, <2>2 DEF Inductive
<1>11. ASSUME NEW i \in (first + 1)..L
       PROVE  coef[i] \in Nat /\ coef[i] = coef[i - 1] + MdecRun(in[i]) + 1
  <2>1. i - first \in 0..K /\ first + (i - first) = i /\ i \in first..L /\ i # first
    BY <1>1, <1>3
  <2>2. i - first \in T
    <3> HIDE DEF T
    <3> QED  BY <1>10, <2>1, StepsReach
  <2>3. coef[i] \in Nat
    BY <2>1, <2>2
  <2> QED  BY <1>9, <2>1, <2>3
<1>12. MdCoefs(in, first, coef)
  <2>1. coef[first] = 0
    BY <1>1, <1>3, <1>9
  <2> QED  BY <1>11, <2>1 DEF MdCoefs, L
<1> QED  BY <1>2, <1>12

\* The reader goes through a block as the decoder does, and leaves it where the
\* decoder ends it.
LEMMA BlockIsRead ==
  ASSUME NEW in \in MdStreams, NEW g, MdReading(in, g), NEW first \in 1..Len(in),
         g[first].coef = 0
  PROVE  /\ MdecBlockEnd(in, first) \in first..Len(in)
         /\ MdBetween(in, g, MdecBlockEnd(in, first), g[first].blocks)
<1> DEFINE L == Len(in)
           b == g[first].blocks
<1>1. PICK f : MdCoefs(in, first, f) /\ MdecBlockEnd(in, first) = MdFirstEnd(in, first, f)
  BY CoefsAre
<1> DEFINE e == MdFirstEnd(in, first, f)
           E == MdEnds(in, first, f)
<1>2. e \in first..L /\ (E # {} => e \in E /\ \A j \in E : e <= j)
  BY EndIsIn
<1>3. L \in Nat /\ MdecLastCoef \in Nat
  BY MdecAssumption DEF MdStreams
<1>4. \A i \in first..L : i \in E <=> f[i] > MdecLastCoef
  BY DEF MdEnds
<1>5. \A i \in first..L : f[i] \in Nat
  BY <1>1 DEF MdCoefs
<1>6. \A i \in first..L : i < e => ~(f[i] > MdecLastCoef)
  <2> TAKE i \in first..L
  <2> HAVE i < e
  <2>1. i \in E => FALSE
    BY <1>2, <1>3
  <2> QED  BY <1>4, <2>1
<1> HIDE DEF e, E, L
\* Inside of the block.
<1> DEFINE T == {k \in 0..(e - first) : first + k < e =>
                    g[first + k] = [coef |-> f[first + k], blocks |-> b]}
<1>7. ASSUME NEW i \in (first + 1)..L, g[i - 1] = [coef |-> f[i - 1], blocks |-> b]
      PROVE  g[i] = [coef |-> IF f[i] > MdecLastCoef THEN -1 ELSE f[i], blocks |-> b]
  <2>1. i \in 1..L /\ i - 1 \in first..L
    BY <1>3
  <2>2. g[i] = MdecReads(g[i - 1], in[i])
    BY <2>1 DEF MdReading, L
  <2>3. f[i - 1] \in Nat /\ f[i] = f[i - 1] + MdecRun(in[i]) + 1
    BY <1>1, <1>5, <2>1 DEF MdCoefs, L
  <2>4. g[i - 1].coef = f[i - 1] /\ g[i - 1].blocks = b
    BY <1>7
  <2>5. f[i - 1] # -1
    BY <2>3
  <2> HIDE DEF b
  <2> QED  BY <2>2, <2>3, <2>4, <2>5 DEF MdecReads
<1>8. Inductive(T, e - first)
  <2>1. 0 \in T
    <3>1. first \in 0..L /\ f[first] = 0 /\ first + 0 = first /\ 0 \in 0..(e - first)
      BY <1>1, <1>2, <1>3 DEF MdCoefs, L
    <3>2. g[first] \in MdReaders
      BY <3>1 DEF MdReading, L
    <3>3. g[first] = [coef |-> 0, blocks |-> b]
      BY <3>2 DEF MdReaders
    <3> QED  BY <3>1, <3>3
  <2>2. ASSUME NEW k \in 1..(e - first), k - 1 \in T  PROVE k \in T
    <3>1. SUFFICES ASSUME first + k < e
                   PROVE  g[first + k] = [coef |-> f[first + k], blocks |-> b]
      BY <1>2, <1>3
    <3>2. first + k \in (first + 1)..L /\ (first + k) - 1 = first + (k - 1)
          /\ first + (k - 1) < e /\ first + k \in first..L
      BY <1>2, <1>3, <3>1
    <3>3. g[(first + k) - 1] = [coef |-> f[(first + k) - 1], blocks |-> b]
      BY <2>2, <3>2
    <3>4. g[first + k] = [coef |-> IF f[first + k] > MdecLastCoef THEN -1 ELSE f[first + k],
                          blocks |-> b]
      BY <1>7, <3>2, <3>3
    <3> QED  BY <1>6, <3>1, <3>2, <3>4
  <2> QED  BY <2>1, <2>2 DEF Inductive
<1>9. \A i \in first..L : i < e => g[i] = [coef |-> f[i], blocks |-> b]
  <2> TAKE i \in first..L
  <2> HAVE i < e
  <2>1. e - first \in Nat /\ i - first \in 0..(e - first) /\ first + (i - first) = i
    BY <1>2, <1>3
  <2>2. i - first \in T
    <3> HIDE DEF T
    <3> QED  BY <1>8, <2>1, StepsReach
  <2> QED  BY <2>1, <2>2
<1> HIDE DEF T
\* At its end.
<1>10. e # first => g[e] = [coef |-> IF f[e] > MdecLastCoef THEN -1 ELSE f[e], blocks |-> b]
  <2> HAVE e # first
  <2>1. e \in (first + 1)..L /\ e - 1 \in first..L /\ e - 1 < e
    BY <1>2, <1>3
  <2> QED  BY <1>7, <1>9, <2>1
<1>11. g[e].blocks = b
  BY <1>10
<1>12. e < L => g[e].coef = -1
  <2> HAVE e < L
  <2>1. E # {}
    <3> SUFFICES ASSUME E = {}  PROVE e = L
      BY <1>2, <1>3
    <3> QED  BY DEF e, E, L, MdFirstEnd
  <2>2. e \in E /\ f[e] > MdecLastCoef
    BY <1>2, <1>4, <2>1
  <2>3. e # first
    BY <1>1, <1>3, <2>2 DEF MdCoefs
  <2> QED  BY <1>10, <2>2, <2>3
<1>13. e \in 0..L
  BY <1>2, <1>3
<1> HIDE DEF b
<1> QED  BY <1>1, <1>2, <1>11, <1>12, <1>13 DEF MdBetween, L, e, b

\* MdecBlock and the reader: the next block, or none.
LEMMA BlockPlace ==
  ASSUME NEW in \in MdStreams, NEW p \in 0..Len(in)
  PROVE  MdecBlock(in, p) \in (p + 1)..Len(in) \cup {-1}
<1> DEFINE Starts == {i \in (p + 1)..Len(in) : in[i] # MdecPad}
           first == CHOOSE i \in Starts : \A j \in Starts : i <= j
<1>1. Len(in) \in Nat
  BY DEF MdStreams
<1>2. CASE Starts = {}
  BY <1>2 DEF MdecBlock
<1>3. CASE Starts # {}
  <2>1. Starts \subseteq Nat
    BY <1>1
  <2>2. first \in Starts
    <3> HIDE DEF Starts
    <3> QED  BY <1>3, <2>1, LeastOf
  <2>3. first \in (p + 1)..Len(in) /\ first \in 1..Len(in)
    BY <2>2
  <2>4. MdecBlock(in, p) = MdecBlockEnd(in, first)
    BY <1>3 DEF MdecBlock
  <2> HIDE DEF first, Starts
  <2>5. MdecBlockEnd(in, first) \in first..Len(in)
    BY <2>3, CoefsAre, EndIsIn
  <2> QED  BY <1>1, <2>3, <2>4, <2>5
<1> QED  BY <1>2, <1>3

LEMMA BlockFollows ==
  ASSUME NEW in \in MdStreams, NEW g, MdReading(in, g), NEW p, NEW n \in Nat,
         MdBetween(in, g, p, n)
  PROVE  \/ MdecBlock(in, p) = -1 /\ g[Len(in)].blocks = n
         \/ MdecBlock(in, p) \in (p + 1)..Len(in) /\ MdBetween(in, g, MdecBlock(in, p), n + 1)
<1> DEFINE L == Len(in)
           Starts == {i \in (p + 1)..L : in[i] # MdecPad}
           first == CHOOSE i \in Starts : \A j \in Starts : i <= j
           Padded(q) == \A j \in (p + 1)..q : in[j] = MdecPad
           Out == [coef |-> -1, blocks |-> n]
<1>1. L \in Nat /\ p \in 0..L /\ g[p].blocks = n /\ (p < L => g[p].coef = -1)
  BY DEF MdBetween, MdStreams
<1>2. CASE p = L
  <2>1. Starts = {}
    BY <1>1, <1>2
  <2>2. MdecBlock(in, p) = -1
    BY <2>1 DEF MdecBlock
  <2> QED  BY <1>1, <1>2, <2>2
<1>3. CASE p < L
  <2> HIDE DEF L
  \* Padding leaves the reader where it is.
  <2> DEFINE T == {k \in 0..(L - p) : Padded(p + k) => g[p + k] = Out}
  <2>1. Inductive(T, L - p)
    <3>1. 0 \in T
      <4>1. g[p] \in MdReaders /\ p + 0 = p /\ 0 \in 0..(L - p)
        BY <1>1 DEF MdReading, L
      <4> QED  BY <1>1, <1>3, <4>1 DEF MdReaders
    <3>2. ASSUME NEW k \in 1..(L - p), k - 1 \in T  PROVE k \in T
      <4>1. SUFFICES ASSUME Padded(p + k)  PROVE g[p + k] = Out
        BY <1>1
      <4>2. p + k \in 1..L /\ (p + k) - 1 = p + (k - 1) /\ p + k \in (p + 1)..(p + k)
        BY <1>1
      <4>3. Padded(p + (k - 1)) /\ in[p + k] = MdecPad
        BY <1>1, <4>1, <4>2
      <4>4. g[(p + k) - 1] = Out
        BY <3>2, <4>2, <4>3
      <4>5. g[p + k] = MdecReads(g[(p + k) - 1], in[p + k])
        BY <4>2 DEF MdReading, L
      <4> QED  BY <4>3, <4>4, <4>5 DEF MdecReads
    <3> QED  BY <3>1, <3>2 DEF Inductive
  <2>2. ASSUME NEW q \in p..L, Padded(q)  PROVE g[q] = Out
    <3>1. L - p \in Nat /\ q - p \in 0..(L - p) /\ p + (q - p) = q
      BY <1>1
    <3>2. q - p \in T
      <4> HIDE DEF T
      <4> QED  BY <2>1, <3>1, StepsReach
    <3> QED  BY <2>2, <3>1, <3>2
  <2> HIDE DEF T
  <2>3. CASE Starts = {}
    <3>1. MdecBlock(in, p) = -1
      BY <2>3 DEF MdecBlock, L
    <3>2. Padded(L)
      BY <2>3
    <3>3. g[L] = Out
      <4> HIDE DEF Padded, Out
      <4> QED  BY <1>1, <2>2, <3>2
    <3> QED  BY <3>1, <3>3 DEF L
  <2>4. CASE Starts # {}
    <3>1. Starts \subseteq Nat /\ Starts \subseteq (p + 1)..L
      BY <1>1
    <3>2. first \in Starts /\ \A j \in Starts : first <= j
      <4> HIDE DEF Starts
      <4> QED  BY <2>4, <3>1, LeastOf
    <3>3. MdecBlock(in, p) = MdecBlockEnd(in, first)
      BY <2>4 DEF MdecBlock, L
    <3> HIDE DEF first
    <3>4. first \in (p + 1)..L /\ in[first] # MdecPad /\ first \in 1..L /\ first - 1 \in p..L
      BY <1>1, <3>2
    <3>5. Padded(first - 1)
      <4> SUFFICES ASSUME NEW j \in (p + 1)..(first - 1), in[j] # MdecPad  PROVE FALSE
        OBVIOUS
      <4>1. j \in Starts /\ ~(first <= j)
        BY <1>1, <3>4
      <4> QED  BY <3>2, <4>1
    <3>6. g[first - 1] = Out
      <4> HIDE DEF Padded, Out
      <4> QED  BY <2>2, <3>4, <3>5
    <3>7. g[first] = MdecReads(g[first - 1], in[first])
      BY <3>4 DEF MdReading, L
    <3>8. g[first] = [coef |-> 0, blocks |-> n + 1]
      BY <3>4, <3>6, <3>7 DEF MdecReads
    <3>9. /\ MdecBlockEnd(in, first) \in first..L
          /\ MdBetween(in, g, MdecBlockEnd(in, first), g[first].blocks)
      BY <3>4, <3>8, BlockIsRead DEF L
    <3>10. MdecBlockEnd(in, first) \in (p + 1)..L /\ g[first].blocks = n + 1
      BY <1>1, <3>4, <3>8, <3>9
    <3> QED  BY <3>3, <3>9, <3>10 DEF L
  <2> QED  BY <2>3, <2>4
<1> QED  BY <1>1, <1>2, <1>3

-----------------------------------------------------------------------------
(* A macroblock, and the whole input.                                      *)

MdBlocks(depth) == Len(MdecOrder(depth))

LEMMA OrderHasBlocks ==
  ASSUME NEW depth \in DOMAIN MdecWordsOut
  PROVE  MdBlocks(depth) \in Nat \ {0}
<1>1. MdecLuma \in Nat
  BY MdecAssumption
<1>2. CASE depth <= 1
  BY <1>2 DEF MdBlocks, MdecOrder
<1>3. CASE ~(depth <= 1)
  <2> DEFINE luma == [i \in 1..MdecLuma |-> i - 1]
  <2>1. luma \in Seq(Int) /\ Len(luma) = MdecLuma
    BY <1>1
  <2>2. <<4, 5>> \in Seq(Int) /\ Len(<<4, 5>>) = 2
    OBVIOUS
  <2>3. MdecOrder(depth) = <<4, 5>> \o luma
    BY <1>3 DEF MdecOrder
  <2> HIDE DEF luma
  <2>4. Len(<<4, 5>> \o luma) = 2 + MdecLuma
    BY <2>1, <2>2
  <2> QED  BY <1>1, <2>3, <2>4 DEF MdBlocks
<1> QED  BY <1>2, <1>3

\* From a place between blocks, with n before it: the macroblock is whole, or
\* the input has fewer blocks than it takes.
MdTakes(in, g, p, n, k, q) ==
  \/ q = -1 /\ g[Len(in)].blocks \in n..(n + k - 1)
  \/ q \in (p + k)..Len(in) /\ MdBetween(in, g, q, n + k)

MdPlaces(in) == 0..Len(in) \cup {-1}
MdThen(in, q) == IF q = -1 THEN -1 ELSE MdecBlock(in, q)

\* The blocks of a macroblock, one after the other.
LEMMA MacroblockTurns ==
  ASSUME NEW in \in MdStreams, NEW p \in 0..Len(in), NEW depth \in DOMAIN MdecWordsOut
  PROVE  \E h \in [0..MdBlocks(depth) -> MdPlaces(in)] :
           /\ h[0] = p
           /\ \A i \in 1..MdBlocks(depth) : h[i] = MdThen(in, h[i - 1])
           /\ MdecMacroblock(in, p, depth).pos = h[MdBlocks(depth)]
<1> DEFINE L == Len(in)
           N == MdBlocks(depth)
           S == MdPlaces(in)
           Walks(f) == f = [i \in 0..N |-> IF i = 0 THEN p
                                           ELSE IF f[i - 1] = -1 THEN -1
                                           ELSE MdecBlock(in, f[i - 1])]
           F == [i \in 1..N |-> [q \in S |-> MdThen(in, q)]]
           after == CHOOSE f : Walks(f)
<1>1. L \in Nat /\ N \in Nat \ {0} /\ p \in S
  BY OrderHasBlocks DEF MdStreams, MdPlaces
<1>2. MdecMacroblock(in, p, depth).pos = after[N]
  BY DEF MdecMacroblock, MdBlocks
<1> HIDE DEF N
<1>3. \A q \in S : MdThen(in, q) \in S
  <2> TAKE q \in S
  <2>1. CASE q = -1
    BY <2>1 DEF MdThen
  <2>2. CASE q # -1
    <3>1. q \in 0..Len(in)
      BY <2>2 DEF MdPlaces
    <3>2. MdecBlock(in, q) \in (q + 1)..Len(in) \cup {-1}
      BY <3>1, BlockPlace
    <3> QED  BY <1>1, <2>2, <3>1, <3>2 DEF MdThen, MdPlaces
  <2> QED  BY <2>1, <2>2
<1> HIDE DEF S
<1>4. PICK h \in [0..N -> S] : h[0] = p /\ \A i \in 1..N : h[i] = F[i][h[i - 1]]
  <2>1. F \in [1..N -> [S -> S]]
    BY <1>3
  <2> HIDE DEF F
  <2>2. FromHere(p, F, S, N)
    BY <1>1, <2>1, RecursionReaches
  <2> QED  BY <2>2 DEF FromHere
<1>5. \A i \in 1..N : h[i] = MdThen(in, h[i - 1])
  <2> TAKE i \in 1..N
  <2>1. i - 1 \in 0..N
    BY <1>1
  <2>2. h[i - 1] \in S /\ h[i] = F[i][h[i - 1]]
    BY <1>4, <2>1
  <2>3. F[i] = [q \in S |-> MdThen(in, q)]
    OBVIOUS
  <2> HIDE DEF F
  <2> QED  BY <2>2, <2>3
<1> HIDE DEF F
<1>6. Walks(after)
  <2>1. Walks(h)
    BY <1>4, <1>5 DEF MdThen
  <2> HIDE DEF Walks
  <2> QED  BY <2>1, Zenon
<1> HIDE DEF after
<1>7. \A i \in 0..N : after[i] = IF i = 0 THEN p ELSE MdThen(in, after[i - 1])
  BY <1>6 DEF MdThen
<1> HIDE DEF Walks
<1>8. after[N] = h[N]
  <2>1. N \in 0..N /\ 0 \in 0..N /\ \A i \in 1..N : i \in 0..N /\ i # 0
    BY <1>1
  <2>2. after[0] = h[0]
    BY <1>4, <1>7, <2>1
  <2>3. \A i \in 1..N : after[i - 1] = h[i - 1] => after[i] = h[i]
    BY <1>5, <1>7, <2>1
  <2>4. Alike(after, h, N)
    BY <2>2, <2>3 DEF Alike
  <2> QED  BY <1>1, <2>1, <2>4, SameSteps
<1> QED  BY <1>2, <1>4, <1>5, <1>8 DEF N, S

LEMMA MacroblockFollows ==
  ASSUME NEW in \in MdStreams, NEW g, MdReading(in, g), NEW p \in 0..Len(in), NEW n \in Nat,
         MdBetween(in, g, p, n), NEW depth \in DOMAIN MdecWordsOut
  PROVE  MdTakes(in, g, p, n, MdBlocks(depth), MdecMacroblock(in, p, depth).pos)
<1> DEFINE L == Len(in)
           N == MdBlocks(depth)
<1>1. L \in Nat /\ N \in Nat \ {0}
  BY OrderHasBlocks DEF MdStreams
<1>2. PICK h \in [0..N -> MdPlaces(in)] :
        /\ h[0] = p
        /\ \A i \in 1..N : h[i] = MdThen(in, h[i - 1])
        /\ MdecMacroblock(in, p, depth).pos = h[N]
  BY MacroblockTurns
<1> HIDE DEF N
<1> DEFINE T == {i \in 0..N : IF i = 0 THEN h[i] = p
                              ELSE MdTakes(in, g, p, n, i, h[i])}
<1>3. Inductive(T, N)
  <2>1. 0 \in T
    BY <1>1, <1>2
  <2>2. ASSUME NEW i \in 1..N, i - 1 \in T  PROVE i \in T
    <3> DEFINE q == h[i - 1]
               r == h[i]
    <3>1. i \in 0..N /\ i # 0 /\ r = MdThen(in, q) /\ i \in Nat /\ i - 1 \in Nat
      BY <1>1, <1>2
    <3> SUFFICES MdTakes(in, g, p, n, i, r)
      BY <3>1
    <3>2. CASE q = -1
      <4>1. i - 1 # 0
        BY <1>1, <1>2, <3>2
      <4>2. MdTakes(in, g, p, n, i - 1, q)
        BY <2>2, <4>1
      <4>3. g[Len(in)].blocks \in n..(n + (i - 1) - 1)
        BY <3>1, <3>2, <4>2 DEF MdTakes
      <4>4. g[Len(in)].blocks \in n..(n + i - 1)
        BY <3>1, <4>3
      <4> QED  BY <3>1, <3>2, <4>4 DEF MdTakes, MdThen
    <3>3. CASE q # -1
      <4>1. q \in (p + (i - 1))..L /\ MdBetween(in, g, q, n + (i - 1))
        <5>1. CASE i - 1 = 0
          <6>1. q = p /\ n + (i - 1) = n /\ p + (i - 1) = p
            BY <2>2, <3>1, <5>1
          <6> QED  BY <1>1, <6>1
        <5>2. CASE i - 1 # 0
          BY <2>2, <3>3, <5>2 DEF MdTakes
        <5> QED  BY <5>1, <5>2
      <4>2. r = MdecBlock(in, q)
        BY <3>1, <3>3 DEF MdThen
      <4> HIDE DEF q, r
      <4>3. n + (i - 1) \in Nat /\ (n + (i - 1)) + 1 = n + i
        BY <3>1
      <4>4. \/ r = -1 /\ g[Len(in)].blocks = n + (i - 1)
            \/ r \in (q + 1)..Len(in) /\ MdBetween(in, g, r, (n + (i - 1)) + 1)
        BY <4>1, <4>2, <4>3, BlockFollows
      <4>5. CASE r = -1 /\ g[Len(in)].blocks = n + (i - 1)
        <5>1. n + (i - 1) \in n..(n + i - 1)
          BY <3>1
        <5> QED  BY <4>5, <5>1 DEF MdTakes
      <4>6. CASE r \in (q + 1)..Len(in) /\ MdBetween(in, g, r, (n + (i - 1)) + 1)
        <5>1. r \in (p + i)..Len(in) /\ MdBetween(in, g, r, n + i)
          BY <1>1, <3>1, <4>1, <4>3, <4>6
        <5> QED  BY <5>1 DEF MdTakes
      <4> QED  BY <4>4, <4>5, <4>6
    <3> QED  BY <3>2, <3>3
  <2> QED  BY <2>1, <2>2 DEF Inductive
<1>4. N \in T /\ N # 0
  <2> HIDE DEF T
  <2>1. N \in 0..N
    BY <1>1
  <2> QED  BY <1>1, <1>3, <2>1, StepsReach
<1> QED  BY <1>2, <1>4 DEF N

\* After c whole macroblocks, at most as many words as the queue holds.
MdWords(c, depth) ==
  LET words == c * MdecWordsOut[depth]
  IN IF words > MdecOutWords THEN MdecOutWords ELSE words

LEMMA WordsAdd ==
  ASSUME NEW c \in Nat, NEW depth \in DOMAIN MdecWordsOut
  PROVE  MdWords(c + 1, depth) =
           IF MdWords(c, depth) + MdecWordsOut[depth] > MdecOutWords
           THEN MdecOutWords ELSE MdWords(c, depth) + MdecWordsOut[depth]
<1> DEFINE W == MdecWordsOut[depth]
           w == c * W
<1>1. W \in Nat /\ MdecOutWords \in Nat
  BY MdecAssumption
<1> HIDE DEF W
<1>2. w \in Nat /\ (c + 1) * W = w + W
  BY <1>1
<1> HIDE DEF w
<1> QED  BY <1>1, <1>2 DEF MdWords, w, W

\* What a turn of the decode leaves: c macroblocks decoded, and the reader is
\* where the decoder is, or the input has no more whole macroblocks.
MdAfter(in, g, depth, i, s) ==
  \E c \in Nat :
    /\ s.out = MdWords(c, depth)
    /\ \/ /\ s.pos = -1
          /\ g[Len(in)].blocks \in (c * MdBlocks(depth))..(c * MdBlocks(depth) + MdBlocks(depth) - 1)
       \/ /\ s.pos \in 0..Len(in)
          /\ MdBetween(in, g, s.pos, c * MdBlocks(depth))
          /\ s.pos >= i \/ s.pos = Len(in)

MdTurn(in, depth, s) ==
  LET mb == MdecMacroblock(in, s.pos, depth)
  IN IF s.pos = -1 \/ s.pos >= Len(in) THEN s
     ELSE IF mb.pos = -1
          THEN [s EXCEPT !.pos = -1, !.block = mb.block]
          ELSE [pos |-> mb.pos, block |-> mb.block,
                out |-> IF s.out + MdecWordsOut[depth] > MdecOutWords
                        THEN MdecOutWords
                        ELSE s.out + MdecWordsOut[depth]]

MdTurns(in, B) == [pos : MdPlaces(in), out : Nat, block : B]

LEMMA TurnFollows ==
  ASSUME NEW in \in MdStreams, NEW g, MdReading(in, g), NEW depth \in DOMAIN MdecWordsOut,
         NEW i \in Nat \ {0}, NEW B, NEW s \in MdTurns(in, B),
         MdAfter(in, g, depth, i - 1, s)
  PROVE  MdAfter(in, g, depth, i, MdTurn(in, depth, s))
<1> DEFINE L == Len(in)
           N == MdBlocks(depth)
           r == MdTurn(in, depth, s)
           mb == MdecMacroblock(in, s.pos, depth)
<1>1. PICK c \in Nat :
        /\ s.out = MdWords(c, depth)
        /\ \/ s.pos = -1 /\ g[L].blocks \in (c * N)..(c * N + N - 1)
           \/ s.pos \in 0..L /\ MdBetween(in, g, s.pos, c * N) /\ (s.pos >= i - 1 \/ s.pos = L)
  BY DEF MdAfter
<1>2. L \in Nat /\ N \in Nat \ {0}
  BY OrderHasBlocks DEF MdStreams
<1>3. CASE s.pos = -1
  <2>1. r = s
    BY <1>3 DEF MdTurn
  <2>2. ~(s.pos \in 0..L)
    BY <1>2, <1>3
  <2> HIDE DEF r, L, N
  <2> QED  BY <1>1, <1>3, <2>1, <2>2 DEF MdAfter, L, N, r
<1>4. CASE s.pos \in 0..L /\ s.pos >= L
  <2>1. r = s
    BY <1>4 DEF MdTurn
  <2>2. s.pos = L /\ s.pos # -1
    BY <1>2, <1>4
  <2> HIDE DEF r, N
  <2> QED  BY <1>1, <1>4, <2>1, <2>2 DEF MdAfter, N, r
<1>5. CASE s.pos \in 0..L /\ ~(s.pos >= L)
  <2>1. s.pos # -1 /\ s.pos # L /\ MdBetween(in, g, s.pos, c * N) /\ s.pos >= i - 1
        /\ s.pos \in Nat
    BY <1>1, <1>2, <1>5
  <2> DEFINE n == c * N
  <2>2. n \in Nat /\ (c + 1) * N = n + N /\ c + 1 \in Nat
    BY <1>2
  <2>3. MdTakes(in, g, s.pos, n, N, mb.pos)
    <3> HIDE DEF n, mb
    <3> QED  BY <1>5, <2>1, <2>2, MacroblockFollows DEF n, mb
  <2>4. CASE mb.pos = -1 /\ g[L].blocks \in n..(n + N - 1)
    <3>1. r = [s EXCEPT !.pos = -1, !.block = mb.block]
      BY <1>5, <2>1, <2>4 DEF MdTurn
    <3>2. r.pos = -1 /\ r.out = s.out
      BY <3>1 DEF MdTurns
    <3> HIDE DEF r, N
    <3> QED  BY <1>1, <2>4, <3>2 DEF MdAfter, N, r
  <2>5. CASE mb.pos \in (s.pos + N)..L /\ MdBetween(in, g, mb.pos, n + N)
    <3>1. mb.pos # -1 /\ mb.pos \in 0..L /\ mb.pos >= i
      <4> DEFINE q == mb.pos
                 p == s.pos
      <4>1. p \in Nat /\ p >= i - 1 /\ q \in (p + N)..L
        BY <2>1, <2>5
      <4> HIDE DEF q, p, N, L
      <4>2. q # -1 /\ q \in 0..L /\ q >= i
        BY <1>2, <4>1
      <4> QED  BY <4>2 DEF q
    <3>2. /\ r.pos = mb.pos
          /\ r.out = IF s.out + MdecWordsOut[depth] > MdecOutWords THEN MdecOutWords
                     ELSE s.out + MdecWordsOut[depth]
      BY <1>5, <2>1, <3>1 DEF MdTurn
    <3>3. r.out = MdWords(c + 1, depth)
      BY <1>1, <3>2, WordsAdd
    <3> HIDE DEF r, mb, N, n
    <3>4. MdBetween(in, g, r.pos, (c + 1) * N) /\ r.pos \in 0..L /\ r.pos >= i
      BY <2>2, <2>5, <3>1, <3>2
    <3> QED  BY <2>2, <3>3, <3>4 DEF MdAfter, N, r
  <2> QED  BY <2>3, <2>4, <2>5 DEF MdTakes
<1>6. s.pos \in 0..L \/ s.pos = -1
  BY DEF MdTurns, MdPlaces
<1> QED  BY <1>3, <1>4, <1>5, <1>6

\* The decoder puts out what the format promises.
LEMMA DecodeFollows ==
  ASSUME NEW in \in MdStreams, NEW depth \in DOMAIN MdecWordsOut, NEW block0
  PROVE  MdecDecode(in, depth, block0).out = MdecStreamWords(in, depth)
<1> DEFINE L == Len(in)
           N == MdBlocks(depth)
           B == {MdecMacroblock(in, p, depth).block : p \in 0..L} \cup {block0}
           S == MdTurns(in, B)
           A == [pos |-> 0, out |-> 0, block |-> block0]
           Walks(f) == f = [i \in 0..L |-> IF i = 0 THEN A ELSE MdTurn(in, depth, f[i - 1])]
           F == [i \in 1..L |-> [s \in S |-> MdTurn(in, depth, s)]]
           turn == CHOOSE f : Walks(f)
<1>1. L \in Nat /\ N \in Nat \ {0} /\ MdecWordsOut[depth] \in Nat /\ MdecOutWords \in Nat
  BY OrderHasBlocks, MdecAssumption DEF MdStreams
<1>2. MdecDecode(in, depth, block0) = turn[L]
  BY DEF MdecDecode, MdTurn
<1>3. A \in S
  BY <1>1 DEF MdTurns, MdPlaces
<1>4. \A s \in S : MdTurn(in, depth, s) \in S
  <2> TAKE s \in S
  <2> DEFINE mb == MdecMacroblock(in, s.pos, depth)
  <2>1. CASE s.pos = -1 \/ s.pos >= L
    BY <2>1 DEF MdTurn
  <2>2. CASE ~(s.pos = -1 \/ s.pos >= L)
    <3>1. s.pos \in 0..L /\ s.out \in Nat
      BY <2>2 DEF MdTurns, MdPlaces
    <3>2. mb.block \in B
      BY <3>1
    <3>3. mb.pos \in MdPlaces(in)
      <4>1. PICK h \in [0..N -> MdPlaces(in)] : mb.pos = h[N]
        BY <3>1, MacroblockTurns
      <4> QED  BY <1>1, <4>1
    <3>4. CASE mb.pos = -1
      <4>1. MdTurn(in, depth, s) = [s EXCEPT !.pos = -1, !.block = mb.block]
        BY <2>2, <3>4 DEF MdTurn
      <4> HIDE DEF mb, B
      <4> QED  BY <3>2, <4>1 DEF MdTurns, MdPlaces
    <3>5. CASE mb.pos # -1
      <4> DEFINE o == IF s.out + MdecWordsOut[depth] > MdecOutWords THEN MdecOutWords
                      ELSE s.out + MdecWordsOut[depth]
      <4>1. MdTurn(in, depth, s) = [pos |-> mb.pos, block |-> mb.block, out |-> o]
        BY <2>2, <3>5 DEF MdTurn
      <4>2. o \in Nat
        BY <1>1, <3>1
      <4> HIDE DEF mb, B, o
      <4> QED  BY <3>2, <3>3, <4>1, <4>2 DEF MdTurns
    <3> QED  BY <3>4, <3>5
  <2> QED  BY <2>1, <2>2
<1> HIDE DEF S, A
<1>5. PICK h \in [0..L -> S] : h[0] = A /\ \A i \in 1..L : h[i] = F[i][h[i - 1]]
  <2>1. F \in [1..L -> [S -> S]]
    BY <1>4
  <2> HIDE DEF F
  <2>2. FromHere(A, F, S, L)
    BY <1>1, <1>3, <2>1, RecursionReaches
  <2> QED  BY <2>2 DEF FromHere
<1>6. \A i \in 1..L : h[i - 1] \in S /\ h[i] = MdTurn(in, depth, h[i - 1])
  <2> TAKE i \in 1..L
  <2>1. i - 1 \in 0..L
    BY <1>1
  <2>2. h[i - 1] \in S /\ h[i] = F[i][h[i - 1]]
    BY <1>5, <2>1
  <2>3. F[i] = [s \in S |-> MdTurn(in, depth, s)]
    OBVIOUS
  <2> HIDE DEF F
  <2> QED  BY <2>2, <2>3
<1> HIDE DEF F
<1>7. Walks(turn)
  <2>1. Walks(h)
    BY <1>5, <1>6
  <2> HIDE DEF Walks
  <2> QED  BY <2>1, Zenon
<1> HIDE DEF turn
<1>8. \A i \in 0..L : turn[i] = IF i = 0 THEN A ELSE MdTurn(in, depth, turn[i - 1])
  BY <1>7
<1> HIDE DEF Walks
<1>9. turn[L] = h[L]
  <2>1. L \in 0..L /\ 0 \in 0..L /\ \A i \in 1..L : i \in 0..L /\ i # 0
    BY <1>1
  <2>2. turn[0] = h[0]
    BY <1>5, <1>8, <2>1
  <2>3. \A i \in 1..L : turn[i - 1] = h[i - 1] => turn[i] = h[i]
    BY <1>6, <1>8, <2>1
  <2>4. Alike(turn, h, L)
    BY <2>2, <2>3 DEF Alike
  <2> QED  BY <1>1, <2>1, <2>4, SameSteps
<1>10. PICK g : MdReading(in, g) /\ MdecStreamBlocks(in) = g[L].blocks
  BY BlocksAreRead
<1> DEFINE T == {i \in 0..L : MdAfter(in, g, depth, i, h[i])}
<1>11. Inductive(T, L)
  <2>1. 0 \in T
    <3>1. h[0].pos = 0 /\ h[0].out = 0
      BY <1>5 DEF A
    <3>2. 0 \in Nat /\ 0 * N = 0 /\ 0 * MdecWordsOut[depth] = 0 /\ ~(0 > MdecOutWords)
      BY <1>1
    <3>3. MdBetween(in, g, 0, 0)
      BY <1>1, <1>10 DEF MdReading, MdBetween
    <3>4. MdWords(0, depth) = 0
      BY <3>2 DEF MdWords
    <3>5. MdAfter(in, g, depth, 0, h[0])
      <4> HIDE DEF N
      <4>1. h[0].pos \in 0..L /\ h[0].pos >= 0 /\ MdBetween(in, g, h[0].pos, 0 * N)
        BY <1>1, <3>1, <3>2, <3>3
      <4> QED  BY <3>1, <3>2, <3>4, <4>1 DEF MdAfter, N
    <3> QED  BY <1>1, <3>5
  <2>2. ASSUME NEW i \in 1..L, i - 1 \in T  PROVE i \in T
    <3>1. i \in Nat \ {0} /\ i \in 0..L /\ h[i - 1] \in MdTurns(in, B)
      BY <1>1, <1>6 DEF S
    <3> HIDE DEF B
    <3>2. MdAfter(in, g, depth, i, MdTurn(in, depth, h[i - 1]))
      BY <1>10, <2>2, <3>1, TurnFollows
    <3> QED  BY <1>6, <3>1, <3>2
  <2> QED  BY <2>1, <2>2 DEF Inductive
<1>12. MdAfter(in, g, depth, L, h[L])
  <2>1. L \in 0..L
    BY <1>1
  <2>2. L \in T
    <3> HIDE DEF T
    <3> QED  BY <1>1, <1>11, <2>1, StepsReach
  <2> QED  BY <2>2
<1> DEFINE Total == g[L].blocks
<1>13. PICK c \in Nat :
         /\ h[L].out = MdWords(c, depth)
         /\ Total \in (c * N)..(c * N + N - 1)
  <2>1. PICK c \in Nat :
          /\ h[L].out = MdWords(c, depth)
          /\ \/ h[L].pos = -1 /\ Total \in (c * N)..(c * N + N - 1)
             \/ h[L].pos \in 0..L /\ MdBetween(in, g, h[L].pos, c * N)
                /\ (h[L].pos >= L \/ h[L].pos = L)
    BY <1>12 DEF MdAfter
  <2>2. CASE h[L].pos \in 0..L /\ MdBetween(in, g, h[L].pos, c * N)
             /\ (h[L].pos >= L \/ h[L].pos = L)
    <3>1. h[L].pos = L
      BY <1>1, <2>2
    <3>2. Total = c * N
      BY <2>2, <3>1 DEF MdBetween
    <3>3. c * N \in Nat
      BY <1>1
    <3> QED  BY <1>1, <2>1, <3>2, <3>3
  <2> QED  BY <2>1, <2>2
<1>14. c = Total \div N
  <2>1. Total \in Nat /\ c * N <= Total /\ Total < c * N + N
    <3>1. c * N \in Nat
      BY <1>1
    <3> HIDE DEF Total
    <3> QED  BY <1>1, <1>13, <3>1
  <2> HIDE DEF Total, N
  <2> QED  BY <1>1, <2>1, QuotientIs
<1>15. MdecStreamWords(in, depth) = MdWords(c, depth)
  BY <1>10, <1>14 DEF MdecStreamWords, MdWords, MdBlocks
<1> QED  BY <1>2, <1>9, <1>13, <1>15

LEMMA NothingIsNoWords ==
  ASSUME NEW depth \in DOMAIN MdecWordsOut
  PROVE  MdecStreamWords(<< >>, depth) = 0
<1> DEFINE N == MdBlocks(depth)
<1>1. N \in Nat \ {0} /\ MdecWordsOut[depth] \in Nat /\ MdecOutWords \in Nat
  BY OrderHasBlocks, MdecAssumption
<1>2. << >> \in MdStreams /\ Len(<< >>) = 0
  BY DEF MdStreams
<1>3. PICK g : MdReading(<< >>, g) /\ MdecStreamBlocks(<< >>) = g[0].blocks
  BY <1>2, BlocksAreRead
<1>4. g[0].blocks = 0
  BY <1>3 DEF MdReading
<1> HIDE DEF N
<1>5. 0 * N = 0 /\ 0 * N <= 0 /\ 0 < 0 * N + N
  BY <1>1
<1>6. 0 = 0 \div N
  BY <1>1, <1>5, QuotientIs
<1>7. 0 * MdecWordsOut[depth] = 0 /\ ~(0 > MdecOutWords)
  BY <1>1
<1> QED  BY <1>3, <1>4, <1>6, <1>7 DEF MdecStreamWords, MdBlocks, N

-----------------------------------------------------------------------------
(* What a decode leaves in the output queue.                               *)

MdOut(m) ==
  /\ m.output_depth \in DOMAIN MdecWordsOut
  /\ (m.current_cmd = 1 /\ ~m.busy) => m.out_count = MdecStreamWords(m.in_buf, m.output_depth)

LEMMA CommandOut ==
  ASSUME IInv, MdOut(g_mdec), MdecCommand
  PROVE  MdOut(g_mdec')
<1> DEFINE m == g_mdec
<1>1. MdIsRecord(m)
  BY DEF IInv, MdGood
<1>2. PICK depth \in DOMAIN MdecWordsOut :
        \/ \E words \in MdecDeclares : MdecDecodeCommand(depth, words)
        \/ \E table \in MdecTables, colour \in BOOLEAN :
             MdecTableCommand(depth, table, colour)
        \/ \E table \in MdecTables : MdecScaleCommand(depth, table)
        \/ MdecNoCommand(depth)
  BY DEF MdecCommand
<1>3. ASSUME NEW words, MdecDecodeCommand(depth, words)
      PROVE  MdOut(g_mdec')
  <2> DEFINE s == g_mdec'
             active == words # 0
             f == MdecFresh(1, depth)
  <2>1. MdIsRecord(f) /\ f.current_cmd = 1 /\ f.in_buf = << >> /\ f.output_depth = depth
    BY <1>1, FreshFields
  <2>2. s = [f EXCEPT !.out_count = 0, !.out_read_pos = 0, !.remaining_words = words,
                      !.declared = words, !.busy = active]
    BY <1>3 DEF MdecDecodeCommand
  <2> HIDE DEF f, active
  <2>3. s.in_buf = << >> /\ s.output_depth = depth /\ s.out_count = 0
    BY <2>1, <2>2 DEF MdIsRecord
  <2> HIDE DEF s
  <2> QED  BY <2>3, NothingIsNoWords DEF MdOut, s
<1>4. ASSUME NEW cmd \in {0, 2, 3}, g_mdec'.current_cmd = cmd, g_mdec'.output_depth = depth
      PROVE  MdOut(g_mdec')
  BY <1>4 DEF MdOut
<1>5. ASSUME NEW cmd \in 0..3
      PROVE  LET f == MdecFresh(cmd, depth)
             IN  MdIsRecord(f) /\ f.current_cmd = cmd /\ f.output_depth = depth
  BY <1>1, FreshFields
<1>6. ASSUME NEW table, NEW colour, MdecTableCommand(depth, table, colour)
      PROVE  MdOut(g_mdec')
  <2> DEFINE f == MdecFresh(2, depth)
             words == IF colour THEN 2 * MdecTableWords ELSE MdecTableWords
  <2>1. MdIsRecord(f) /\ f.current_cmd = 2 /\ f.output_depth = depth
    BY <1>5
  <2>2. g_mdec' = [f EXCEPT !.remaining_words = words, !.declared = words,
                            !.busy = TRUE, !.loading = table]
    BY <1>6 DEF MdecTableCommand
  <2> HIDE DEF f, words
  <2>3. g_mdec'.current_cmd = 2 /\ g_mdec'.output_depth = depth
    BY <2>1, <2>2 DEF MdIsRecord
  <2> QED  BY <1>4, <2>3
<1>7. ASSUME NEW table, MdecScaleCommand(depth, table)
      PROVE  MdOut(g_mdec')
  <2> DEFINE f == MdecFresh(3, depth)
             words == 2 * MdecTableWords
  <2>1. MdIsRecord(f) /\ f.current_cmd = 3 /\ f.output_depth = depth
    BY <1>5
  <2>2. g_mdec' = [f EXCEPT !.remaining_words = words, !.declared = words,
                            !.busy = TRUE, !.loading = table]
    BY <1>7 DEF MdecScaleCommand
  <2> HIDE DEF f, words
  <2>3. g_mdec'.current_cmd = 3 /\ g_mdec'.output_depth = depth
    BY <2>1, <2>2 DEF MdIsRecord
  <2> QED  BY <1>4, <2>3
<1>8. ASSUME MdecNoCommand(depth)
      PROVE  MdOut(g_mdec')
  <2> DEFINE f == MdecFresh(0, depth)
  <2>1. MdIsRecord(f) /\ f.current_cmd = 0 /\ f.output_depth = depth
    BY <1>5
  <2>2. g_mdec' = [f EXCEPT !.remaining_words = MdecMaxWords, !.busy = FALSE]
    BY <1>8 DEF MdecNoCommand
  <2> HIDE DEF f
  <2>3. g_mdec'.current_cmd = 0 /\ g_mdec'.output_depth = depth
    BY <2>1, <2>2 DEF MdIsRecord
  <2> QED  BY <1>4, <2>3
<1> QED  BY <1>2, <1>3, <1>6, <1>7, <1>8

\* A word is stored and buffered without a change of the depth.
LEMMA DepthStays ==
  ASSUME NEW m, MdIsRecord(m), NEW idx, NEW lo, NEW hi
  PROVE  /\ MdecStore(m, idx).output_depth = m.output_depth
         /\ MdecBuffer(m, lo, hi).output_depth = m.output_depth
BY DEF MdecStore, MdecBuffer, MdIsRecord

LEMMA CountOut ==
  ASSUME NEW m, MdIsRecord(m), m.busy, m.output_depth \in DOMAIN MdecWordsOut
  PROVE  MdOut(MdecCount(m))
<1> DEFINE left == IF m.remaining_words > 0 THEN m.remaining_words - 1 ELSE 0
           done == [m EXCEPT !.remaining_words = MdecMaxWords, !.busy = FALSE]
           result == MdecDecode(m.in_buf, m.output_depth, m.current_block)
           out == result.out
           block == result.block
           ended == [done EXCEPT !.out_count = out, !.current_block = block]
           s == MdecCount(m)
<1>1. CASE left > 0
  <2>1. s = [m EXCEPT !.remaining_words = left]
    BY <1>1 DEF MdecCount
  <2> HIDE DEF left, s
  <2>2. s.busy = m.busy /\ s.output_depth = m.output_depth
    BY <2>1 DEF MdIsRecord
  <2> QED  BY <2>2 DEF MdOut, s
<1>2. CASE ~(left > 0) /\ m.current_cmd = 1
  <2>1. s = ended
    BY <1>2 DEF MdecCount
  <2>2. m.in_buf \in MdStreams
    BY DEF MdIsRecord, MdStreams
  <2>3. out = MdecStreamWords(m.in_buf, m.output_depth)
    BY <2>2, DecodeFollows
  <2> HIDE DEF out, block, s
  <2>4. s.out_count = out /\ s.output_depth = m.output_depth /\ s.in_buf = m.in_buf
    BY <2>1 DEF MdIsRecord
  <2> QED  BY <2>3, <2>4 DEF MdOut, s
<1>3. CASE ~(left > 0) /\ m.current_cmd # 1
  <2>1. s = done
    BY <1>3 DEF MdecCount
  <2> HIDE DEF s
  <2>2. s.current_cmd = m.current_cmd /\ s.output_depth = m.output_depth
    BY <2>1 DEF MdIsRecord
  <2> QED  BY <1>3, <2>2 DEF MdOut, s
<1> QED  BY <1>1, <1>2, <1>3

LEMMA ParameterOut ==
  ASSUME IInv, MdOut(g_mdec), MdecParameter
  PROVE  MdOut(g_mdec')
<1> DEFINE m == g_mdec
           received == m.param_words + 1
           one == [m EXCEPT !.param_words = received]
           st == MdecStore(one, m.param_words)
<1>1. PICK lo \in MdecHalfs, hi \in MdecHalfs : g_mdec' = MdecCount(MdecBuffer(st, lo, hi))
  BY MdecAssumption DEF MdecParameter
<1>2. MdIsRecord(m) /\ m.busy /\ m.output_depth \in DOMAIN MdecWordsOut
  BY DEF IInv, MdGood, MdOut, MdecParameter
<1>3. m.param_words \in Nat /\ received \in Nat
  BY <1>2 DEF MdIsRecord
<1> HIDE DEF received
<1>4. MdIsRecord(one) /\ one.busy = m.busy /\ one.output_depth = m.output_depth
  BY <1>2, <1>3 DEF MdIsRecord
<1> HIDE DEF one, m
<1>5. MdIsRecord(st) /\ st.busy = m.busy /\ st.output_depth = m.output_depth
  BY <1>3, <1>4, StoreFields, DepthStays
<1> HIDE DEF st
<1> DEFINE b == MdecBuffer(st, lo, hi)
<1>6. MdIsRecord(b) /\ b.busy = st.busy /\ b.output_depth = st.output_depth
  <2> DEFINE buf == st.in_buf \o <<lo, hi>>
  <2>1. buf \in Seq(MdecHalfs)
    BY <1>5, ConcatProperties DEF MdIsRecord
  <2> HIDE DEF buf
  <2>2. b \in {st, [st EXCEPT !.in_buf = buf]}
    BY DEF MdecBuffer, buf
  <2> HIDE DEF b
  <2> QED  BY <1>5, <2>1, <2>2 DEF MdIsRecord
<1> HIDE DEF b
<1>7. MdOut(MdecCount(b))
  BY <1>2, <1>5, <1>6, CountOut
<1> QED  BY <1>1, <1>7 DEF b

LEMMA StepOut ==
  ASSUME IInv, MdOut(g_mdec), [MdecNext]_mdec_vars
  PROVE  MdOut(g_mdec')
<1>1. CASE MdecCommand
  BY <1>1, CommandOut
<1>2. CASE MdecParameter
  BY <1>2, ParameterOut
<1>3. CASE MdecControl
  <2>1. CASE g_mdec' = MdecResetState
    <3>1. MdecResetState.current_cmd = 0 /\ MdecResetState.output_depth = 3
      BY DEF MdecResetState
    <3> QED  BY <2>1, <3>1, MdecAssumption DEF MdOut
  <2>2. CASE \E in, out \in BOOLEAN :
               g_mdec' = [g_mdec EXCEPT !.data_in_enable = in, !.data_out_enable = out]
    <3>1. /\ g_mdec'.current_cmd = g_mdec.current_cmd /\ g_mdec'.busy = g_mdec.busy
          /\ g_mdec'.output_depth = g_mdec.output_depth
          /\ g_mdec'.out_count = g_mdec.out_count /\ g_mdec'.in_buf = g_mdec.in_buf
      BY <2>2 DEF IInv, MdGood, MdIsRecord
    <3> QED  BY <3>1 DEF MdOut
  <2>3. \/ g_mdec' = MdecResetState
        \/ \E in, out \in BOOLEAN :
             g_mdec' = [g_mdec EXCEPT !.data_in_enable = in, !.data_out_enable = out]
    BY <1>3 DEF MdecControl
  <2> QED  BY <2>1, <2>2, <2>3, Zenon
<1>4. CASE MdecRead
  <2>1. PICK pos : g_mdec' = [g_mdec EXCEPT !.out_read_pos = pos]
    BY <1>4 DEF MdecRead
  <2>2. /\ g_mdec'.current_cmd = g_mdec.current_cmd /\ g_mdec'.busy = g_mdec.busy
        /\ g_mdec'.output_depth = g_mdec.output_depth
        /\ g_mdec'.out_count = g_mdec.out_count /\ g_mdec'.in_buf = g_mdec.in_buf
    BY <2>1 DEF IInv, MdGood, MdIsRecord
  <2> QED  BY <2>2 DEF MdOut
<1>5. CASE UNCHANGED g_mdec
  BY <1>5
<1> QED  BY <1>1, <1>2, <1>3, <1>4, <1>5
         DEF MdecNext, MdecWriteWord, MdecDma0Start, MdecDma0Word, MdecWord, mdec_vars

\* What mdec_process_decode leaves in the output queue is what a reader of the
\* format, one halfword after the other, counts in the coded stream: the words
\* of its whole macroblocks, for every stream, whatever its padding and its
\* blocks that run over.
THEOREM OutputsAreTheStream == MdecSpec => []MdecOutputIsStream
<1>1. MdecInit => IInv /\ MdOut(g_mdec)
  <2>1. MdecResetState.current_cmd = 0 /\ MdecResetState.output_depth = 3
    BY DEF MdecResetState
  <2> QED  BY <2>1, ResetGood, MdecAssumption DEF MdecInit, IInv, MdOut
<1>2. (IInv /\ MdOut(g_mdec)) /\ [MdecNext]_mdec_vars => (IInv /\ MdOut(g_mdec))'
  BY StepGood, StepOut
<1>3. MdOut(g_mdec) => MdecOutputIsStream
  BY DEF MdOut, MdecOutputIsStream
<1> QED  BY <1>1, <1>2, <1>3, PTL DEF MdecSpec
=============================================================================
