-------------------------- MODULE SioMemcardProofs --------------------------
(***************************************************************************)
(* SioMemcard implements CardStore, for every card size, every sector      *)
(* length and whatever bytes the host sends; an open exchange shows its    *)
(* ACK bit; the files of the card stay apart, whatever holes the directory *)
(* has; and no register, reply or byte of the card leaves its width.       *)
(***************************************************************************)
EXTENDS SioMemcard, Recursion, FiniteSetTheorems, TLAPS

-----------------------------------------------------------------------------
(* The inductive invariant: while a write is under way, what the host has  *)
(* sent of it is exactly what the address registers and the write buffer   *)
(* hold.  The buffer and the address survive port resets, so the agreement *)
(* has to be re-established by every write, byte by byte.                  *)

Typed ==
  /\ state \in States
  /\ msb \in Byte /\ lsb \in Byte
  /\ cur \in Nat
  /\ index \in Nat
  /\ tmp \in Sector
  /\ match \in BOOLEAN
  /\ ack \in BOOLEAN
  /\ offer \in Seq(Byte)

Addressed ==
  /\ Len(offer) >= 2
  /\ offer[1] = msb /\ offer[2] = lsb
  /\ cur = msb * 256 + lsb

Agrees(n) == \A i \in 1..n : offer[i + 2] = tmp[i]

AtLsb == state = "WRITE_LSB" => Len(offer) = 1 /\ offer[1] = msb

AtData ==
  state = "WRITE_DATA" =>
    Addressed /\ index < SectorLen /\ Len(offer) = index + 2 /\ Agrees(index)

AtChecksum ==
  state = "WRITE_CHECKSUM" =>
    Addressed /\ Len(offer) = SectorLen + 2 /\ Agrees(SectorLen)

AtEnd ==
  state \in {"WRITE_ACK2", "WRITE_END"} =>
    /\ Addressed /\ Len(offer) = SectorLen + 3 /\ Agrees(SectorLen)
    /\ match = (offer[SectorLen + 3] = Checksum(cur, tmp))

IInv == Typed /\ BusyShowsAck /\ AtLsb /\ AtData /\ AtChecksum /\ AtEnd

Tracked == {"WRITE_LSB", "WRITE_DATA", "WRITE_CHECKSUM", "WRITE_ACK2", "WRITE_END"}

\* What IInv reads.
reads == <<state, address, buffer, ack, offer>>

-----------------------------------------------------------------------------
(* Facts about the constants.                                              *)

LEMMA Lengths == SectorLen \in Nat /\ SectorLen >= 2
BY ImageAssumption DEF ImageAssumption

\* A byte the host may send is a byte, and one CardStore knows of.
LEMMA SentBytes ==
  ASSUME NEW s \in States, NEW b \in Wire[s]
  PROVE  b \in Byte /\ b \in Sendable
BY SioAssumption DEF SioAssumption, Sendable

\* The scripted replies: the only tracked state they lead to is WRITE_END.
LEMMA ScriptSteps ==
  ASSUME NEW s \in DOMAIN Script
  PROVE  /\ Script[s][2] \in States
         /\ s \notin Tracked => Script[s][2] \notin Tracked
         /\ s \in Tracked => s = "WRITE_ACK2" /\ Script[s][2] = "WRITE_END"
         /\ s # "IDLE"
BY DEF Script, States, Tracked

LEMMA Appended ==
  ASSUME NEW S, NEW s \in Seq(S), NEW e \in S
  PROVE  /\ Append(s, e) \in Seq(S) /\ Len(Append(s, e)) = Len(s) + 1
         /\ Append(s, e)[Len(s) + 1] = e
         /\ \A i \in 1..Len(s) : Append(s, e)[i] = s[i]
OBVIOUS

LEMMA NothingOffered == << >> \in Seq(Byte)
OBVIOUS

LEMMA FreshValues ==
  "IDLE" \in States /\ 0 \in Byte /\ 0 \in Nat /\ Zeros \in Sector /\ FALSE \in BOOLEAN
BY Lengths DEF States, Byte, Zeros, Sector

LEMMA CommandSteps ==
  ASSUME NEW b \in DOMAIN Commands
  PROVE  Commands[b] \in {"READ_ID1", "WRITE_ID1", "GETID_ID1"}
BY DEF Commands

LEMMA Literals ==
  /\ {"IDLE", "WAIT_CMD", "PAD_POLL", "PAD_BYTE1", "PAD_SW_HI", "READ_ID1",
      "WRITE_ID1", "GETID_ID1", "READ_LSB", "READ_ACK2", "READ_CONFIRM_LSB",
      "READ_DATA", "READ_CHECKSUM", "READ_END"} \subseteq States \ Tracked
  /\ Tracked \subseteq States
BY DEF States, Script, Tracked

-----------------------------------------------------------------------------
(* Steps of the protocol.                                                  *)

\* Outside the tracked states only typing and the ACK bit matter.
LEMMA Untracked ==
  ASSUME Typed', BusyShowsAck', state' \notin Tracked
  PROVE  IInv'
BY DEF IInv, AtLsb, AtData, AtChecksum, AtEnd, Tracked

\* A byte that leaves address, buffer and offer alone and leads nowhere new.
LEMMA QuietByte ==
  ASSUME IInv, UNCHANGED <<address, buffer, store>>,
         state' \in States \ Tracked, ack' \in BOOLEAN, state' # "IDLE" => ack'
  PROVE  IInv'
<1>1. Typed'
  BY DEF IInv, Typed, address, buffer, store
<1> QED
  BY <1>1, Untracked DEF BusyShowsAck

LEMMA QuietBytes ==
  ASSUME IInv, NEW b \in Byte,
         \/ Select(b) \/ Command(b) \/ ReadConfirmMsb \/ ReadChecksum \/ ReadEnd
         \/ GetIdEnd \/ PadPoll(b) \/ PadLow \/ PadHigh
  PROVE  IInv'
<1> USE Literals DEF IInv, Typed, BusyShowsAck, Reply
<1>1. CASE Select(b)
  BY <1>1, QuietByte DEF Select
<1>2. CASE Command(b)
  <2>1. /\ state' \in {"READ_ID1", "WRITE_ID1", "GETID_ID1", "IDLE"}
        /\ ack' = ack /\ state # "IDLE" /\ UNCHANGED <<address, buffer, store>>
    BY <1>2, CommandSteps DEF Command
  <2> QED
    BY <2>1, QuietByte
<1>3. CASE ReadConfirmMsb
  BY <1>3, QuietByte DEF ReadConfirmMsb
<1>4. CASE ReadChecksum
  BY <1>4, QuietByte DEF ReadChecksum
<1>5. CASE ReadEnd
  BY <1>5, QuietByte DEF ReadEnd
<1>6. CASE GetIdEnd
  BY <1>6, QuietByte DEF GetIdEnd
<1>7. CASE PadPoll(b)
  BY <1>7, QuietByte DEF PadPoll
<1>8. CASE PadLow
  BY <1>8, QuietByte DEF PadLow
<1>9. CASE PadHigh
  BY <1>9, QuietByte DEF PadHigh
<1> QED
  BY <1>1, <1>2, <1>3, <1>4, <1>5, <1>6, <1>7, <1>8, <1>9

LEMMA ScriptedByte ==
  ASSUME IInv, Scripted
  PROVE  IInv'
<1>1. /\ state \in DOMAIN Script /\ state' = Script[state][2] /\ ack' = ack
      /\ UNCHANGED <<address, buffer, store>>
  BY DEF Scripted, Reply
<1>2. ack' /\ state' \in States
  BY <1>1, ScriptSteps DEF IInv, Typed, BusyShowsAck
<1>3. CASE state \notin Tracked
  BY <1>1, <1>2, <1>3, ScriptSteps, QuietByte DEF IInv, Typed
<1>4. CASE state \in Tracked
  <2>1. state = "WRITE_ACK2" /\ state' = "WRITE_END"
    BY <1>1, <1>4, ScriptSteps
  <2> QED
    BY <1>1, <1>2, <2>1 DEF IInv, Typed, BusyShowsAck, AtLsb, AtData, AtChecksum,
      AtEnd, Addressed, Agrees, address, buffer, store
<1> QED
  BY <1>3, <1>4

LEMMA ReadBytes ==
  ASSUME IInv, NEW b \in Byte,
         ReadMsb(b) \/ ReadLsb(b) \/ ReadConfirmLsb \/ ReadData
  PROVE  IInv'
<1>1. state' \in States \ Tracked
  BY Literals DEF ReadMsb, ReadLsb, ReadConfirmLsb, ReadData, Reply
<1>2. BusyShowsAck' /\ ack' \in BOOLEAN
  BY DEF IInv, Typed, BusyShowsAck, ReadMsb, ReadLsb, ReadConfirmLsb, ReadData, Reply
<1>3. Typed'
  <2>1. CASE ReadMsb(b)
    BY <1>1, <1>2, <2>1 DEF IInv, Typed, ReadMsb, buffer, store
  <2>2. CASE ReadLsb(b)
    BY <1>1, <1>2, <2>2 DEF IInv, Typed, Byte, ReadLsb, buffer, store
  <2>3. CASE ReadConfirmLsb
    BY <1>1, <1>2, <2>3 DEF IInv, Typed, ReadConfirmLsb, address, store
  <2>4. CASE ReadData
    BY <1>1, <1>2, <2>4 DEF IInv, Typed, ReadData, address, store
  <2> QED
    BY <2>1, <2>2, <2>3, <2>4
<1> QED
  BY <1>1, <1>2, <1>3, Untracked

\* The write: every byte re-establishes what the next state needs.
LEMMA WriteMsbByte ==
  ASSUME IInv, NEW b \in Byte, WriteMsb(b)
  PROVE  IInv'
<1>1. /\ state' = "WRITE_LSB" /\ msb' = b /\ offer' = <<b>> /\ ack' = ack
      /\ state # "IDLE" /\ UNCHANGED <<lsb, cur, buffer>>
  BY DEF WriteMsb, Reply
<1>2. Typed' /\ BusyShowsAck'
  BY <1>1, Literals DEF IInv, Typed, BusyShowsAck, Tracked, buffer
<1>3. Len(offer') = 1 /\ offer'[1] = msb'
  BY <1>1
<1> QED
  BY <1>1, <1>2, <1>3 DEF IInv, AtLsb, AtData, AtChecksum, AtEnd

LEMMA WriteLsbByte ==
  ASSUME IInv, NEW b \in Byte, WriteLsb(b)
  PROVE  IInv'
<1>1. /\ state = "WRITE_LSB" /\ state' = "WRITE_DATA" /\ lsb' = b
      /\ cur' = msb * 256 + b /\ index' = 0 /\ offer' = Append(offer, b)
      /\ ack' = ack /\ UNCHANGED <<msb, tmp, match>>
  BY DEF WriteLsb, Reply
<1>2. Typed' /\ BusyShowsAck'
  BY <1>1, Literals DEF IInv, Typed, BusyShowsAck, Tracked, Byte
<1>3. Len(offer) = 1 /\ offer[1] = msb /\ offer \in Seq(Byte)
  BY <1>1 DEF IInv, AtLsb, Typed
<1>4. Len(offer') = 2 /\ offer'[1] = msb /\ offer'[2] = b
  <2>1. /\ Len(Append(offer, b)) = Len(offer) + 1 /\ Append(offer, b)[Len(offer) + 1] = b
        /\ \A i \in 1..Len(offer) : Append(offer, b)[i] = offer[i]
    BY <1>3
  <2>2. Append(offer, b)[1] = offer[1]
    BY <1>3, <2>1
  <2>3. Len(offer) + 1 = 2
    BY <1>3
  <2> QED
    BY <1>1, <1>3, <2>1, <2>2, <2>3
<1>5. AtData'
  BY <1>1, <1>4, Lengths DEF AtData, Addressed, Agrees
<1>6. AtLsb' /\ AtChecksum' /\ AtEnd'
  BY <1>1 DEF AtLsb, AtChecksum, AtEnd
<1> QED
  BY <1>2, <1>5, <1>6 DEF IInv

LEMMA WriteDataByte ==
  ASSUME IInv, NEW b \in Byte, WriteData(b)
  PROVE  IInv'
<1>1. /\ Addressed /\ index < SectorLen /\ Len(offer) = index + 2 /\ Agrees(index)
      /\ index \in Nat /\ tmp \in Sector /\ offer \in Seq(Byte) /\ ack
  BY DEF WriteData, IInv, AtData, Typed, BusyShowsAck
<1>2. /\ tmp' = [tmp EXCEPT ![index + 1] = b] /\ index' = index + 1
      /\ offer' = Append(offer, b) /\ ack' = ack /\ UNCHANGED <<address, match>>
      /\ state' = IF index + 1 >= SectorLen THEN "WRITE_CHECKSUM" ELSE "WRITE_DATA"
  BY <1>1 DEF WriteData, Reply
<1>3. index' \in Nat /\ index' <= SectorLen /\ (index' >= SectorLen => index' = SectorLen)
  BY <1>1, <1>2, Lengths
<1>4. tmp' \in Sector
  BY <1>1, <1>2 DEF Sector
<1>5. Typed' /\ BusyShowsAck'
  BY <1>1, <1>2, <1>3, <1>4, Literals DEF IInv, Typed, BusyShowsAck, Tracked, address
<1>6. /\ Len(offer') = index' + 2
      /\ \A i \in 1..(index + 2) : offer'[i] = offer[i]
      /\ offer'[index + 3] = b
  BY <1>1, <1>2
<1>7. Addressed'
  BY <1>1, <1>2, <1>6 DEF Addressed, address
<1>8. Agrees(index)'
  <2> SUFFICES ASSUME NEW i \in 1..index'
               PROVE  offer'[i + 2] = tmp'[i]
    BY DEF Agrees
  <2>1. CASE i = index + 1
    BY <1>1, <1>2, <1>6, <2>1, Lengths DEF Sector
  <2>2. CASE i \in 1..index
    BY <1>1, <1>2, <1>6, <2>2, Lengths DEF Sector, Agrees
  <2> QED
    BY <1>1, <1>2, <2>1, <2>2
<1>9. AtData' /\ AtChecksum'
  <2>1. CASE index + 1 >= SectorLen
    <3>1. state' = "WRITE_CHECKSUM" /\ index' = SectorLen
      BY <1>2, <1>3, <2>1
    <3>2. QED
      BY <1>6, <1>7, <1>8, <3>1 DEF AtData, AtChecksum, Agrees
  <2>2. CASE ~(index + 1 >= SectorLen)
    <3>1. state' = "WRITE_DATA" /\ index' < SectorLen
      BY <1>1, <1>2, <2>2, Lengths
    <3>2. QED
      BY <1>6, <1>7, <1>8, <3>1 DEF AtData, AtChecksum
  <2>3. QED
    BY <2>1, <2>2
<1>10. AtLsb' /\ AtEnd'
  BY <1>2 DEF AtLsb, AtEnd
<1> QED
  BY <1>5, <1>9, <1>10 DEF IInv

LEMMA WriteChecksumByte ==
  ASSUME IInv, NEW b \in Byte, WriteChecksum(b)
  PROVE  IInv'
<1>1. /\ Addressed /\ Len(offer) = SectorLen + 2 /\ Agrees(SectorLen)
      /\ offer \in Seq(Byte) /\ ack
  BY DEF WriteChecksum, IInv, AtChecksum, Typed, BusyShowsAck
<1>2. /\ match' = (b = Checksum(cur, tmp)) /\ offer' = Append(offer, b)
      /\ state' = "WRITE_ACK2" /\ ack' = ack /\ UNCHANGED <<address, index, tmp>>
  BY DEF WriteChecksum, Reply
<1>3. Typed' /\ BusyShowsAck'
  BY <1>1, <1>2, Literals DEF IInv, Typed, BusyShowsAck, Tracked, address
<1>4. /\ Len(offer') = SectorLen + 3
      /\ \A i \in 1..(SectorLen + 2) : offer'[i] = offer[i]
      /\ offer'[SectorLen + 3] = b
  BY <1>1, <1>2, Lengths
<1>5. Addressed' /\ Agrees(SectorLen)'
  BY <1>1, <1>2, <1>4, Lengths DEF Addressed, Agrees, address
<1>6. match' = (offer'[SectorLen + 3] = Checksum(cur', tmp'))
  BY <1>2, <1>4 DEF address
<1>7. AtEnd'
  BY <1>4, <1>5, <1>6 DEF AtEnd
<1>8. AtLsb' /\ AtData' /\ AtChecksum'
  BY <1>2 DEF AtLsb, AtData, AtChecksum
<1> QED
  BY <1>3, <1>7, <1>8 DEF IInv

LEMMA WriteEndByte ==
  ASSUME IInv, WriteEnd
  PROVE  IInv'
<1>1. /\ state' = "IDLE" /\ ack' = FALSE /\ offer' = << >>
      /\ UNCHANGED <<address, buffer>>
  BY DEF WriteEnd, Reply
<1>2. Typed' /\ BusyShowsAck' /\ state' \notin Tracked
  BY <1>1, NothingOffered, Literals DEF IInv, Typed, BusyShowsAck, Tracked, address, buffer
<1> QED
  BY <1>2, Untracked

\* A byte from the host preserves the invariant.
LEMMA SendKeeps ==
  ASSUME IInv, Send
  PROVE  IInv'
<1> PICK b \in Wire[state] : SendByte(b)
  BY DEF Send
<1> b \in Byte
  BY SentBytes DEF IInv, Typed
<1> QED
  BY QuietBytes, ScriptedByte, ReadBytes, WriteMsbByte, WriteLsbByte, WriteDataByte,
    WriteChecksumByte, WriteEndByte DEF SendByte

-----------------------------------------------------------------------------
(* The other steps, and the invariant.                                     *)

LEMMA InitEstablishes ==
  ASSUME Init
  PROVE  IInv
<1>1. Typed
  BY NothingOffered, FreshValues DEF Init, Typed
<1> QED
  BY <1>1 DEF Init, IInv, BusyShowsAck, AtLsb, AtData, AtChecksum, AtEnd

\* A step that changes nothing the invariant reads.
LEMMA ReadsUnchanged ==
  ASSUME IInv, UNCHANGED reads
  PROVE  IInv'
BY DEF IInv, reads, Typed, BusyShowsAck, AtLsb, AtData, AtChecksum, AtEnd, Addressed,
  Agrees, address, buffer

LEMMA ControlKeeps ==
  ASSUME IInv, NEW e \in BOOLEAN, NEW a \in BOOLEAN, NEW r \in BOOLEAN,
         WriteControl(e, a, r)
  PROVE  IInv'
<1>1. CASE ~r
  BY <1>1, ReadsUnchanged DEF WriteControl, reads
<1>2. CASE r
  <2>1. /\ state' = "IDLE" /\ ack' = FALSE /\ offer' = << >>
        /\ UNCHANGED <<address, buffer>>
    BY <1>2 DEF WriteControl
  <2>2. Typed' /\ BusyShowsAck' /\ state' \notin Tracked
    BY <2>1, NothingOffered, Literals DEF IInv, Typed, BusyShowsAck, Tracked, address, buffer
  <2> QED
    BY <2>2, Untracked
<1> QED
  BY <1>1, <1>2

LEMMA ResetKeeps ==
  ASSUME Reset
  PROVE  IInv'
<1>1. Typed'
  BY NothingOffered, FreshValues DEF Reset, Typed
<1>2. BusyShowsAck' /\ state' \notin Tracked
  BY DEF Reset, BusyShowsAck, Tracked
<1> QED
  BY <1>1, <1>2, Untracked

LEMMA NextKeeps ==
  ASSUME IInv, [Next]_vars
  PROVE  IInv'
<1>1. CASE Send
  BY <1>1, SendKeeps
<1>2. CASE Pop \/ SetButtons \/ PutFile \/ Load \/ Format
  BY <1>2, ReadsUnchanged DEF Pop, SetButtons, PutFile, WriteFile, Load, Format,
    Outside, reads, store
<1>3. ASSUME NEW e \in BOOLEAN, NEW a \in BOOLEAN, NEW r \in BOOLEAN,
             WriteControl(e, a, r)
      PROVE  IInv'
  BY <1>3, ControlKeeps
<1>4. CASE Reset
  BY <1>4, ResetKeeps
<1>5. CASE UNCHANGED vars
  BY <1>5, ReadsUnchanged DEF vars, reads, store
<1> QED
  BY <1>1, <1>2, <1>3, <1>4, <1>5 DEF Next, Port, Api

THEOREM OffersAgree == Spec => []IInv
<1>1. Init => IInv
  BY InitEstablishes
<1>2. IInv /\ [Next]_vars => IInv'
  BY NextKeeps
<1> QED
  BY <1>1, <1>2, PTL DEF Spec

-----------------------------------------------------------------------------
(* While an exchange is open, joy_stat shows the ACK bit.                  *)
THEOREM OpenExchangesAreAcknowledged == Spec => []BusyShowsAck
<1>1. IInv => BusyShowsAck
  BY DEF IInv
<1> QED
  BY <1>1, OffersAgree, PTL

-----------------------------------------------------------------------------
(* Refinement.                                                             *)

LEMMA InitRefines ==
  ASSUME Init
  PROVE  Store!Init
BY DEF Init, Store!Init

\* When the write ends with match set, what was offered is what is stored.
LEMMA OfferIsBuffer ==
  ASSUME IInv, state = "WRITE_END"
  PROVE  /\ Store!OfferedSector = cur
         /\ Store!OfferedData = tmp
         /\ match => Store!Sound
<1>1. /\ Addressed /\ Len(offer) = SectorLen + 3 /\ Agrees(SectorLen)
      /\ match = (offer[SectorLen + 3] = Checksum(cur, tmp))
      /\ tmp \in Sector /\ offer \in Seq(Byte)
  BY DEF IInv, AtEnd, Typed
<1>2. Store!OfferedSector = cur
  BY <1>1 DEF Store!OfferedSector, Addressed
<1>3. Store!OfferedData = tmp
  <2>1. SubSeq(offer, 3, SectorLen + 2) = [i \in 1..SectorLen |-> offer[i + 2]]
    BY <1>1, Lengths
  <2>2. \A i \in 1..SectorLen : offer[i + 2] = tmp[i]
    BY <1>1 DEF Agrees
  <2>3. tmp = [i \in 1..SectorLen |-> tmp[i]]
    BY <1>1 DEF Sector
  <2> QED
    BY <2>1, <2>2, <2>3 DEF Store!OfferedData
<1>4. match => Store!Sound
  BY <1>1, <1>2, <1>3 DEF Store!Sound
<1> QED
  BY <1>2, <1>3, <1>4

LEMMA WriteEndRefines ==
  ASSUME IInv, WriteEnd
  PROVE  Store!Next
<1>1. state = "WRITE_END" /\ offer' = << >>
  BY DEF WriteEnd
<1>2. CASE match /\ cur \in Numbers
  <2>1. /\ card' = [card EXCEPT ![cur] = tmp]
        /\ disk' \in Saves(card', disk, Cuts)
    BY <1>2 DEF WriteEnd
  <2> QED
    BY <1>1, <1>2, <2>1, OfferIsBuffer DEF Store!Next, Store!Commit
<1>3. CASE ~(match /\ cur \in Numbers)
  BY <1>1, <1>3 DEF WriteEnd, Store!Next, Store!Talk
<1> QED
  BY <1>2, <1>3

LEMMA SendRefines ==
  ASSUME IInv, Send
  PROVE  [Store!Next]_<<card, disk, offer>>
<1> PICK b \in Wire[state] : SendByte(b)
  BY DEF Send
<1> b \in Sendable
  BY SentBytes DEF IInv, Typed
<1>1. CASE WriteEnd
  BY <1>1, WriteEndRefines
<1>2. CASE WriteMsb(b) \/ WriteLsb(b) \/ WriteData(b) \/ WriteChecksum(b)
  <2>1. offer' \in {<<b>>, Append(offer, b)} /\ UNCHANGED <<card, disk>>
    BY <1>2 DEF WriteMsb, WriteLsb, WriteData, WriteChecksum
  <2> QED
    BY <2>1 DEF Store!Next, Store!Talk
<1>3. CASE \/ Select(b) \/ Command(b) \/ Scripted
           \/ ReadMsb(b) \/ ReadLsb(b) \/ ReadConfirmMsb \/ ReadConfirmLsb
           \/ ReadData \/ ReadChecksum \/ ReadEnd
           \/ GetIdEnd \/ PadPoll(b) \/ PadLow \/ PadHigh
  BY <1>3 DEF Select, Command, Scripted, ReadMsb, ReadLsb, ReadConfirmMsb,
    ReadConfirmLsb, ReadData, ReadChecksum, ReadEnd, GetIdEnd, PadPoll, PadLow,
    PadHigh, store
<1> QED
  BY <1>1, <1>2, <1>3 DEF SendByte

LEMMA ApiRefines ==
  ASSUME Api
  PROVE  [Store!Next]_<<card, disk, offer>>
<1>1. CASE SetButtons
  BY <1>1 DEF SetButtons, store
<1>2. CASE PutFile
  <2> PICK count \in 1..Blocks, tail \in Tails, fill \in Fills :
             WriteFile(count, tail, fill)
    BY <1>2 DEF PutFile
  <2>1. /\ card' \in Files(card) /\ disk' \in Saves(card', disk, Cuts)
        /\ UNCHANGED offer
    BY DEF WriteFile, Files, Outside
  <2> QED
    BY <2>1 DEF Store!Next, Store!PutFile
<1>3. CASE Load
  BY <1>3 DEF Load, Outside, Store!Next, Store!Load
<1>4. CASE Format
  BY <1>4 DEF Format, Outside, Store!Next, Store!Format
<1>5. CASE Reset
  BY <1>5 DEF Reset, Store!Next, Store!Format
<1> QED
  BY <1>1, <1>2, <1>3, <1>4, <1>5 DEF Api

LEMMA StepRefines ==
  ASSUME IInv, [Next]_vars
  PROVE  [Store!Next]_<<card, disk, offer>>
<1>1. CASE Send
  BY <1>1, SendRefines
<1>2. CASE Pop
  BY <1>2 DEF Pop, store
<1>3. ASSUME NEW e \in BOOLEAN, NEW a \in BOOLEAN, NEW r \in BOOLEAN,
             WriteControl(e, a, r)
      PROVE  [Store!Next]_<<card, disk, offer>>
  BY <1>3 DEF WriteControl, Store!Next, Store!Talk
<1>4. CASE Api
  BY <1>4, ApiRefines
<1>5. CASE UNCHANGED vars
  BY <1>5 DEF vars, store
<1> QED
  BY <1>1, <1>2, <1>3, <1>4, <1>5 DEF Next, Port

\* Whatever bytes the host sends and however often the port is reset, the
\* card changes as CardStore says: by whole sectors offered with a fitting
\* checksum, or by the emulator's own file operations.
THEOREM SerialPortImplementsCardStore == Spec => ImplementsCardStore
<1>1. Init => Store!Init
  BY InitRefines
<1>2. IInv /\ [Next]_vars => [Store!Next]_<<card, disk, offer>>
  BY StepRefines
<1> QED
  BY <1>1, <1>2, OffersAgree, PTL DEF Spec, ImplementsCardStore, Store!Spec, Store!storeVars

-----------------------------------------------------------------------------
(* The directory.                                                          *)

InOrder(free) == \A i, j \in 1..Len(free) : i < j => free[i] < free[j]

AllFree(image, free) == \A i \in 1..Len(free) : IsFree(image, free[i])

\* The blocks found up to block n.
Found(image, n, free) ==
  free \in Seq(1..Blocks) /\ InOrder(free) /\ AllFree(image, free)
  /\ \A i \in 1..Len(free) : free[i] <= n

LEMMA BlockCounts ==
  /\ Blocks \in Nat /\ 1 <= Blocks /\ Blocks <= 15
  /\ BlockSectors \in Nat /\ Blocks < BlockSectors
BY ImageAssumption

LEMMA MemberOf ==
  ASSUME NEW S, NEW s \in Seq(S), NEW i \in 1..Len(s)
  PROVE  s[i] \in S
OBVIOUS

LEMMA FoundOneMore ==
  ASSUME NEW image, NEW n \in 1..Blocks, NEW free, Found(image, n - 1, free)
  PROVE  Found(image, n, IF IsFree(image, n) THEN Append(free, n) ELSE free)
<1>1. free \in Seq(1..Blocks) /\ Len(free) \in Nat /\ n \in Nat
  BY BlockCounts DEF Found
<1>2. \A i \in 1..Len(free) : free[i] \in Nat /\ free[i] <= n - 1
  BY <1>1, BlockCounts DEF Found
<1>3. CASE IsFree(image, n)
  <2> DEFINE more == Append(free, n)
  <2>1. /\ more \in Seq(1..Blocks) /\ Len(more) = Len(free) + 1
        /\ more[Len(free) + 1] = n /\ \A i \in 1..Len(free) : more[i] = free[i]
    BY <1>1
  <2> HIDE DEF more
  <2>2. \A i \in 1..Len(more) : i \in 1..Len(free) \/ i = Len(free) + 1
    BY <1>1, <2>1
  <2>3. InOrder(more)
    <3> SUFFICES ASSUME NEW i \in 1..Len(more), NEW j \in 1..Len(more), i < j
                 PROVE  more[i] < more[j]
      BY DEF InOrder
    <3>1. i \in 1..Len(free)
      BY <1>1, <2>1
    <3>2. CASE j \in 1..Len(free)
      BY <2>1, <3>1, <3>2 DEF Found, InOrder
    <3>3. CASE j = Len(free) + 1
      BY <1>1, <1>2, <2>1, <3>1, <3>3
    <3> QED  BY <2>2, <3>2, <3>3
  <2>4. AllFree(image, more)
    BY <1>3, <2>1, <2>2 DEF Found, AllFree
  <2>5. \A i \in 1..Len(more) : more[i] <= n
    BY <1>1, <1>2, <2>1, <2>2
  <2> QED  BY <1>3, <2>1, <2>3, <2>4, <2>5 DEF Found, more
<1>4. CASE ~IsFree(image, n)
  <2>1. \A i \in 1..Len(free) : free[i] <= n
    BY <1>1, <1>2
  <2> QED  BY <1>4, <2>1 DEF Found
<1> QED  BY <1>3, <1>4

LEMMA FreeAreFound ==
  ASSUME NEW image
  PROVE  Found(image, Blocks, FreeBlocks(image))
<1> DEFINE Step(n, s) == IF IsFree(image, n) THEN Append(s, n) ELSE s
           Walks(f) == f = [b \in 0..Blocks |->
                             IF b = 0 THEN << >>
                             ELSE IF IsFree(image, b) THEN Append(f[b - 1], b) ELSE f[b - 1]]
           S == Seq(1..Blocks)
           F == [b \in 1..Blocks |-> [s \in S |-> Step(b, s)]]
           upTo == CHOOSE f : Walks(f)
           K == Blocks
<1>1. K \in Nat /\ FreeBlocks(image) = upTo[K]
  BY BlockCounts DEF FreeBlocks
<1>2. << >> \in S
  OBVIOUS
<1>3. F \in [1..K -> [S -> S]]
  <2>1. ASSUME NEW b \in 1..K, NEW s \in S  PROVE Step(b, s) \in S
    <3> DEFINE B == 1..Blocks
    <3>1. b \in B /\ s \in Seq(B)
      OBVIOUS
    <3> HIDE DEF B
    <3>2. Append(s, b) \in Seq(B)
      BY <3>1
    <3> QED  BY <3>1, <3>2 DEF B
  <2> HIDE DEF Step, S
  <2>2. \A b \in 1..K : [s \in S |-> Step(b, s)] \in [S -> S]
    BY <2>1
  <2> QED  BY <2>2
<1> HIDE DEF S
<1>4. PICK h \in [0..K -> S] : h[0] = << >> /\ \A b \in 1..K : h[b] = F[b][h[b - 1]]
  <2> HIDE DEF F, K
  <2>1. FromHere(<< >>, F, S, K)
    BY <1>1, <1>2, <1>3, RecursionReaches
  <2> QED  BY <2>1 DEF FromHere
<1>5. \A b \in 1..K : h[b] = Step(b, h[b - 1])
  <2> TAKE b \in 1..K
  <2>1. b - 1 \in 0..K
    BY <1>1
  <2>2. h[b - 1] \in S /\ h[b] = F[b][h[b - 1]]
    BY <1>4, <2>1
  <2>3. F[b] = [s \in S |-> Step(b, s)]
    OBVIOUS
  <2> HIDE DEF F, Step
  <2> QED  BY <2>2, <2>3
<1> HIDE DEF F
<1>6. Walks(upTo)
  <2>1. Walks(h)
    <3> DEFINE w == [b \in 0..K |->
                      IF b = 0 THEN << >>
                      ELSE IF IsFree(image, b) THEN Append(h[b - 1], b) ELSE h[b - 1]]
    <3>1. \A b \in 0..K : h[b] = w[b]
      <4> SUFFICES ASSUME NEW b \in 0..K, b # 0  PROVE h[b] = w[b]
        BY <1>4
      <4>1. b \in 1..K
        BY <1>1
      <4> QED  BY <1>5, <4>1
    <3>2. h = [b \in 0..K |-> h[b]] /\ w = [b \in 0..K |-> w[b]]
      BY <1>4
    <3> HIDE DEF w, K
    <3>3. h = w
      BY <3>1, <3>2
    <3> QED  BY <3>3 DEF w, K
  <2> HIDE DEF Walks
  <2> QED  BY <2>1, Zenon
<1> HIDE DEF upTo
<1>7. \A b \in 0..K : upTo[b] = IF b = 0 THEN << >> ELSE Step(b, upTo[b - 1])
  BY <1>6
<1> HIDE DEF Walks
<1> DEFINE T == {b \in 0..K : Found(image, b, upTo[b])}
<1>8. Inductive(T, K)
  <2>1. 0 \in T
    <3>1. upTo[0] = << >> /\ 0 \in 0..K
      BY <1>1, <1>7
    <3>2. Found(image, 0, << >>)
      BY DEF Found, InOrder, AllFree
    <3> QED  BY <3>1, <3>2
  <2>2. ASSUME NEW b \in 1..K, b - 1 \in T  PROVE b \in T
    <3>1. b \in 0..K /\ upTo[b] = Step(b, upTo[b - 1])
      BY <1>1, <1>7
    <3> QED  BY <2>2, <3>1, FoundOneMore
  <2> QED  BY <2>1, <2>2 DEF Inductive
<1>9. K \in T
  <2> HIDE DEF T, K
  <2>1. K \in 0..K
    BY <1>1
  <2> QED  BY <1>1, <1>8, <2>1, StepsReach
<1> QED  BY <1>1, <1>9

LEMMA Frames ==
  ASSUME NEW allocation, NEW link
  PROVE  Frame(allocation, link)[1] = allocation /\ Frame(allocation, link)[2] = link
BY ImageAssumption DEF Frame, Zeros

\* A block of the directory is a sector of the card, and lies in no file block.
LEMMA DirectoryBlocks ==
  ASSUME NEW b \in 1..Blocks
  PROVE  b \in Numbers /\ BlockOf(b) = 0
<1>1. BlockOf(b) = 0
  BY BlockCounts DEF BlockOf
<1>2. Blocks * BlockSectors \in Nat /\ Total = Blocks * BlockSectors + BlockSectors
  BY BlockCounts DEF Total
<1>3. b \in Numbers
  BY <1>2, BlockCounts DEF Numbers
<1> QED  BY <1>1, <1>3

-----------------------------------------------------------------------------
(* A file written.                                                         *)

\* Of the blocks of the file, the next one and the directory frame.
LEMMA FileBlocks ==
  ASSUME NEW image, NEW count, Room(image, count), NEW tail, NEW fill
  PROVE  LET free == FreeBlocks(image)
             new == WithFile(image, count, tail, fill)
             used == {free[i] : i \in 1..count}
         IN  /\ count \in Nat /\ 1 <= count /\ count <= Len(free)
             /\ used \subseteq 1..Blocks
             /\ \A i \in 1..count : /\ new[free[i]][1] = Allocation(i, count)
                                    /\ new[free[i]][2] = Link(free, i, count)
             /\ \A n \in Numbers : n \notin used /\ BlockOf(n) \notin used => new[n] = image[n]
<1> DEFINE free == FreeBlocks(image)
           new == WithFile(image, count, tail, fill)
           used == {free[i] : i \in 1..count}
           turn == [b \in used |-> CHOOSE i \in 1..count : free[i] = b]
           filled(b) == IF turn[b] = count THEN tail ELSE BlockSectors
<1>1. free \in Seq(1..Blocks) /\ InOrder(free) /\ Len(free) \in Nat
  BY FreeAreFound DEF Found
<1>2. count \in Nat /\ 1 <= count /\ count <= Len(free)
  BY <1>1 DEF Room
<1>3. new = [n \in Numbers |->
              IF n \in used
              THEN Frame(Allocation(turn[n], count), Link(free, turn[n], count))
              ELSE IF BlockOf(n) \in used /\ n % BlockSectors < filled(BlockOf(n))
              THEN fill
              ELSE image[n]]
  BY DEF WithFile
<1> HIDE DEF free, new, filled
<1>4. used \subseteq 1..Blocks
  <2> SUFFICES ASSUME NEW i \in 1..count  PROVE free[i] \in 1..Blocks
    OBVIOUS
  <2>1. i \in 1..Len(free)
    BY <1>1, <1>2
  <2> QED  BY <1>1, <2>1, MemberOf
<1>5. ASSUME NEW i \in 1..count
      PROVE  turn[free[i]] = i
  <2>1. free[i] \in used
    OBVIOUS
  <2>2. turn[free[i]] \in 1..count /\ free[turn[free[i]]] = free[i]
    BY <2>1
  <2> HIDE DEF turn
  <2> DEFINE j == turn[free[i]]
  <2>3. i \in 1..Len(free) /\ j \in 1..Len(free)
    BY <1>1, <1>2, <2>2
  <2>4. free[i] \in Nat /\ free[j] \in Nat
    <3>1. free[i] \in 1..Blocks /\ free[j] \in 1..Blocks
      BY <1>1, <2>3, MemberOf
    <3> QED  BY <3>1, BlockCounts
  <2>5. ~(i < j) /\ ~(j < i)
    BY <1>1, <2>2, <2>3, <2>4 DEF InOrder
  <2> QED  BY <2>2, <2>5
<1> HIDE DEF turn
<1>6. ASSUME NEW i \in 1..count
      PROVE  /\ new[free[i]][1] = Allocation(i, count)
             /\ new[free[i]][2] = Link(free, i, count)
  <2>1. free[i] \in used /\ free[i] \in Numbers
    BY <1>4, DirectoryBlocks
  <2>2. new[free[i]] = Frame(Allocation(i, count), Link(free, i, count))
    BY <1>3, <1>5, <2>1
  <2> QED  BY <2>2, Frames
<1>7. \A n \in Numbers : n \notin used /\ BlockOf(n) \notin used => new[n] = image[n]
  <2> HIDE DEF used
  <2> QED  BY <1>3
<1> QED  BY <1>2, <1>4, <1>6, <1>7 DEF free, new

\* The blocks a file takes are those that were free before it and are not after.
LEMMA TakenBlocks ==
  ASSUME NEW image, NEW count, Room(image, count), NEW tail, NEW fill
  PROVE  LET free == FreeBlocks(image)
             new == WithFile(image, count, tail, fill)
             used == {free[i] : i \in 1..count}
         IN  {b \in 1..Blocks : IsFree(image, b) /\ ~IsFree(new, b)} = used
<1> DEFINE free == FreeBlocks(image)
           new == WithFile(image, count, tail, fill)
           used == {free[i] : i \in 1..count}
<1>1. /\ count \in Nat /\ 1 <= count /\ count <= Len(free)
      /\ used \subseteq 1..Blocks
      /\ \A i \in 1..count : new[free[i]][1] = Allocation(i, count)
      /\ \A n \in Numbers : n \notin used /\ BlockOf(n) \notin used => new[n] = image[n]
  BY FileBlocks
<1>2. free \in Seq(1..Blocks) /\ AllFree(image, free)
  BY FreeAreFound DEF Found
<1> HIDE DEF free, new
<1>3. ASSUME NEW i \in 1..count
      PROVE  IsFree(image, free[i]) /\ ~IsFree(new, free[i])
  <2>1. i \in 1..Len(free)
    BY <1>1, <1>2
  <2>2. new[free[i]][1] \in {81, 82, 83}
    BY <1>1 DEF Allocation
  <2>3. \A x \in {81, 82, 83} : ~(x \in Free..(Free + 3))
    BY DEF Free
  <2> QED  BY <1>2, <2>1, <2>2, <2>3 DEF AllFree, IsFree
<1>4. ASSUME NEW b \in 1..Blocks, b \notin used
      PROVE  IsFree(new, b) <=> IsFree(image, b)
  <2>1. b \in Numbers /\ BlockOf(b) = 0
    BY DirectoryBlocks
  <2>2. 0 \notin used
    <3> HIDE DEF used
    <3>1. ~(0 \in 1..Blocks)
      BY BlockCounts
    <3> QED  BY <1>1, <3>1
  <2> HIDE DEF used
  <2>3. new[b] = image[b]
    BY <1>1, <1>4, <2>1, <2>2
  <2> QED  BY <2>3 DEF IsFree
<1> DEFINE taken == {b \in 1..Blocks : IsFree(image, b) /\ ~IsFree(new, b)}
<1>5. taken \subseteq used
  <2> HIDE DEF used
  <2> QED  BY <1>4
<1>6. used \subseteq taken
  BY <1>1, <1>3
<1>7. taken = used
  BY <1>5, <1>6
<1> QED  BY <1>7 DEF free, new

\* They form one chain.
LEMMA FileIsChain ==
  ASSUME NEW image, NEW count, Room(image, count), NEW tail, NEW fill
  PROVE  LET free == FreeBlocks(image)
         IN  IsChain(WithFile(image, count, tail, fill), {free[i] : i \in 1..count})
<1> DEFINE free == FreeBlocks(image)
           new == WithFile(image, count, tail, fill)
           used == {free[i] : i \in 1..count}
           next(b) == new[b][2] + 1
           inner == {b \in used : new[b][2] # None}
           first == {free[i] : i \in 1..(count - 1)}
<1>1. /\ count \in Nat /\ 1 <= count /\ count <= Len(free)
      /\ used \subseteq 1..Blocks
      /\ \A i \in 1..count : /\ new[free[i]][1] = Allocation(i, count)
                             /\ new[free[i]][2] = Link(free, i, count)
  BY FileBlocks
<1>2. free \in Seq(1..Blocks) /\ InOrder(free) /\ Len(free) \in Nat
  BY FreeAreFound DEF Found
<1>3. {b \in 1..Blocks : IsFree(image, b) /\ ~IsFree(new, b)} = used
  BY TakenBlocks
<1> HIDE DEF free, new
<1>4. \A b \in used : ~IsFree(new, b)
  <2> HIDE DEF used
  <2> QED  BY <1>3
<1>5. \A i \in 1..count : i \in 1..Len(free) /\ free[i] \in 1..15 /\ free[i] \in Nat
  <2> TAKE i \in 1..count
  <2>1. i \in 1..Len(free)
    BY <1>1, <1>2
  <2> DEFINE q == free[i]
  <2>2. q \in 1..Blocks
    BY <1>2, <2>1, MemberOf
  <2> HIDE DEF q
  <2>3. q \in Int /\ 1 <= q /\ q <= Blocks
    BY <2>2, BlockCounts
  <2>4. q \in 1..15 /\ q \in Nat
    BY <2>3, BlockCounts
  <2> QED  BY <2>1, <2>4 DEF q
<1>6. \A i, j \in 1..count : i < j => free[i] < free[j]
  BY <1>2, <1>5 DEF InOrder
<1>7. \A i, j \in 1..count : free[i] = free[j] => i = j
  BY <1>5, <1>6
<1>8. ASSUME NEW i \in 1..(count - 1)
      PROVE  /\ i \in 1..count /\ i + 1 \in 1..count
             /\ new[free[i]][2] # None /\ next(free[i]) = free[i + 1]
  <2>1. i \in 1..count /\ i + 1 \in 1..count /\ i < count
    BY <1>1
  <2>2. new[free[i]][2] = free[i + 1] - 1
    BY <1>1, <2>1 DEF Link
  <2>3. free[i + 1] \in 1..15
    BY <1>5, <2>1
  <2>4. free[i + 1] - 1 # None /\ (free[i + 1] - 1) + 1 = free[i + 1]
    BY <2>3 DEF None
  <2> QED  BY <2>1, <2>2, <2>4
<1>9. new[free[count]][2] = None
  <2>1. count \in 1..count /\ ~(count < count)
    BY <1>1
  <2> QED  BY <1>1, <2>1 DEF Link
<1>10. inner = first
  <2>1. first \subseteq inner
    BY <1>8
  <2>2. inner \subseteq first
    <3> SUFFICES ASSUME NEW i \in 1..count, new[free[i]][2] # None
                 PROVE  free[i] \in first
      OBVIOUS
    <3>1. i # count
      BY <1>9
    <3>2. i \in 1..(count - 1)
      BY <1>1, <3>1
    <3> QED  BY <3>2
  <2> QED  BY <2>1, <2>2
<1>11. \A b \in inner : next(b) \in used /\ next(b) > b
  <2> SUFFICES ASSUME NEW i \in 1..(count - 1)
               PROVE  next(free[i]) \in used /\ next(free[i]) > free[i]
    <3> HIDE DEF inner, used, next
    <3> QED  BY <1>10
  <2>1. i \in 1..count /\ i + 1 \in 1..count /\ next(free[i]) = free[i + 1] /\ i < i + 1
    BY <1>8
  <2> HIDE DEF next
  <2>2. free[i] < free[i + 1] /\ free[i] \in Nat /\ free[i + 1] \in Nat
    BY <1>5, <1>6, <2>1
  <2> QED  BY <2>1, <2>2
<1>12. \A b, c \in inner : next(b) = next(c) => b = c
  <2> SUFFICES ASSUME NEW i \in 1..(count - 1), NEW j \in 1..(count - 1),
                      next(free[i]) = next(free[j])
               PROVE  free[i] = free[j]
    <3> HIDE DEF inner, next
    <3> QED  BY <1>10
  <2>1. /\ next(free[i]) = free[i + 1] /\ next(free[j]) = free[j + 1]
        /\ i + 1 \in 1..count /\ j + 1 \in 1..count
    BY <1>8
  <2> HIDE DEF next
  <2>2. i + 1 = j + 1
    BY <1>7, <2>1
  <2>3. i = j
    BY <2>2
  <2> QED  BY <2>3
<1>13. Cardinality(inner) + 1 = Cardinality(used)
  <2>1. used = first \cup {free[count]}
    <3>1. first \subseteq used /\ free[count] \in used
      BY <1>1, <1>8
    <3>2. ASSUME NEW i \in 1..count  PROVE free[i] \in first \cup {free[count]}
      <4>1. i \in 1..(count - 1) \/ i = count
        BY <1>1
      <4> QED  BY <4>1
    <3> QED  BY <3>1, <3>2
  <2>2. free[count] \notin inner
    BY <1>9
  <2>3. IsFiniteSet(inner)
    <3>1. IsFiniteSet(1..Blocks)
      BY BlockCounts, FS_Interval
    <3>2. inner \in SUBSET (1..Blocks)
      <4> HIDE DEF used
      <4> QED  BY <1>1
    <3> QED  BY <3>1, <3>2, FS_Subset
  <2> HIDE DEF inner, used, first
  <2>4. Cardinality(inner \cup {free[count]}) = Cardinality(inner) + 1
    BY <2>2, <2>3, FS_AddElement
  <2> QED  BY <1>10, <2>1, <2>4
<1>14. {b \in used : new[b][1] = 81} = used \ {next(b) : b \in inner}
  <2>1. ASSUME NEW i \in 1..count
        PROVE  new[free[i]][1] = 81 <=> free[i] \notin {next(b) : b \in inner}
    <3>1. new[free[i]][1] = 81 <=> i = 1
      <4>1. new[free[i]][1] = Allocation(i, count)
        BY <1>1
      <4> QED  BY <4>1 DEF Allocation
    <3>2. CASE i = 1
      <4>1. ASSUME NEW j \in 1..(count - 1), next(free[j]) = free[1]  PROVE FALSE
        <5>1. next(free[j]) = free[j + 1] /\ j + 1 \in 1..count /\ 1 \in 1..count
          BY <1>1, <1>8
        <5> HIDE DEF next
        <5>2. j + 1 = 1
          BY <1>7, <4>1, <5>1
        <5> QED  BY <5>2
      <4>2. free[1] \notin {next(b) : b \in first}
        <5> HIDE DEF next
        <5> QED  BY <4>1
      <4> HIDE DEF inner, first
      <4> QED  BY <1>10, <3>1, <3>2, <4>2
    <3>3. CASE i # 1
      <4>1. i - 1 \in 1..(count - 1) /\ (i - 1) + 1 = i
        BY <1>1, <3>3
      <4>2. next(free[i - 1]) = free[i] /\ free[i - 1] \in first
        BY <1>8, <4>1
      <4> HIDE DEF next, inner, first
      <4> QED  BY <1>10, <3>1, <3>3, <4>2
    <3> QED  BY <3>2, <3>3
  <2> DEFINE after == {next(b) : b \in inner}
  <2> HIDE DEF after
  <2>2. \A b \in used : new[b][1] = 81 <=> b \notin after
    BY <2>1 DEF after
  <2> HIDE DEF used
  <2>3. {b \in used : new[b][1] = 81} = used \ after
    BY <2>2
  <2> QED  BY <2>3 DEF after
<1>15. IsChain(new, used)
  <2> HIDE DEF used
  <2> QED  BY <1>4, <1>11, <1>12, <1>13, <1>14 DEF IsChain
<1> QED  BY <1>15 DEF free, new

\* Nothing of another file changes.
LEMMA OthersStay ==
  ASSUME NEW image, NEW count, Room(image, count), NEW tail, NEW fill, NEW n \in Numbers
  PROVE  LET new == WithFile(image, count, tail, fill)
         IN  /\ n \in 1..Blocks /\ ~IsFree(image, n) => new[n] = image[n]
             /\ BlockOf(n) \in 1..Blocks /\ ~IsFree(image, BlockOf(n)) => new[n] = image[n]
<1> DEFINE free == FreeBlocks(image)
           new == WithFile(image, count, tail, fill)
           used == {free[i] : i \in 1..count}
<1>1. used \subseteq 1..Blocks
      /\ \A m \in Numbers : m \notin used /\ BlockOf(m) \notin used => new[m] = image[m]
  BY FileBlocks
<1>2. {b \in 1..Blocks : IsFree(image, b) /\ ~IsFree(new, b)} = used
  BY TakenBlocks
<1> HIDE DEF used, free, new
<1>3. 0 \notin used
  <2>1. ~(0 \in 1..Blocks)
    BY BlockCounts
  <2> QED  BY <1>1, <2>1
<1>4. ASSUME n \in 1..Blocks, ~IsFree(image, n)  PROVE new[n] = image[n]
  <2>1. n \notin used /\ BlockOf(n) = 0
    BY <1>2, <1>4, DirectoryBlocks
  <2> QED  BY <1>1, <1>3, <2>1
<1>5. ASSUME BlockOf(n) \in 1..Blocks, ~IsFree(image, BlockOf(n))  PROVE new[n] = image[n]
  <2>1. BlockOf(n) \notin used
    BY <1>2, <1>5
  <2>2. n \notin used
    <3> SUFFICES ASSUME n \in used  PROVE FALSE
      OBVIOUS
    <3>1. BlockOf(n) = 0
      BY <1>1, DirectoryBlocks
    <3>2. ~(0 \in 1..Blocks)
      BY BlockCounts
    <3> QED  BY <1>5, <3>1, <3>2
  <2> QED  BY <1>1, <2>1, <2>2
<1> QED  BY <1>4, <1>5 DEF new

\* A file the emulator puts on the card (hle_memcard_write_file) takes free
\* blocks, links them into one chain and leaves every other file's blocks and
\* directory frames as they are, on cards of any size and whatever holes the
\* files deleted before have left.
THEOREM FilesKeepApart == Spec => FilesStayApart
<1>1. ASSUME PutFile
      PROVE  /\ IsChain(card', {b \in 1..Blocks : IsFree(card, b) /\ ~IsFree(card', b)})
             /\ \A n \in Numbers :
                  /\ n \in 1..Blocks /\ ~IsFree(card, n) => card'[n] = card[n]
                  /\ BlockOf(n) \in 1..Blocks /\ ~IsFree(card, BlockOf(n))
                       => card'[n] = card[n]
  <2>1. PICK count, tail, fill :
          Room(card, count) /\ card' = WithFile(card, count, tail, fill)
    BY <1>1 DEF PutFile, WriteFile
  <2> DEFINE free == FreeBlocks(card)
             new == WithFile(card, count, tail, fill)
             used == {free[i] : i \in 1..count}
  <2>2. {b \in 1..Blocks : IsFree(card, b) /\ ~IsFree(new, b)} = used
    BY <2>1, TakenBlocks
  <2>3. IsChain(new, used)
    BY <2>1, FileIsChain
  <2>4. \A n \in Numbers :
          /\ n \in 1..Blocks /\ ~IsFree(card, n) => new[n] = card[n]
          /\ BlockOf(n) \in 1..Blocks /\ ~IsFree(card, BlockOf(n)) => new[n] = card[n]
    BY <2>1, OthersStay
  <2> HIDE DEF new, used
  <2>5. card' = new
    BY <2>1 DEF new
  <2> QED  BY <2>2, <2>3, <2>4, <2>5
<1>2. [card' # card /\ PutFile =>
         /\ IsChain(card', {b \in 1..Blocks : IsFree(card, b) /\ ~IsFree(card', b)})
         /\ \A n \in Numbers :
              /\ n \in 1..Blocks /\ ~IsFree(card, n) => card'[n] = card[n]
              /\ BlockOf(n) \in 1..Blocks /\ ~IsFree(card, BlockOf(n))
                   => card'[n] = card[n]]_vars
  BY <1>1
<1> QED  BY <1>2, PTL DEF FilesStayApart

-----------------------------------------------------------------------------
(* Widths: what goes through the registers and the FIFO is a byte, an      *)
(* index never leaves its sector, and the card and its file keep their     *)
(* shape.  IInv bounds the index of a write; that of a read is bounded     *)
(* while the data is being read, and by nothing afterwards.                *)

Bounded ==
  /\ cur \in Nat /\ cur < 65536
  /\ index \in Nat /\ index <= SectorLen
  /\ state = "READ_DATA" => index < SectorLen

Wires ==
  /\ flag \in {0, 8}
  /\ rx \in Seq(Byte) /\ Len(rx) <= FifoDepth
  /\ irq \in BOOLEAN /\ irqEnable \in BOOLEAN
  /\ pad \in Byte \X Byte

Cards == card \in Image /\ disk \in Seq(Sector)

Whole == IInv /\ Bounded /\ Wires /\ Cards

LEMMA WholeIsTyped ==
  ASSUME Whole
  PROVE  TypeOK
<1>1. cur \in Nat /\ cur < 65536 /\ index \in 0..SectorLen
  BY Lengths DEF Whole, Bounded
<1>2. Typed /\ Wires /\ Cards
  BY DEF Whole, IInv
<1>3. /\ state \in States /\ msb \in Byte /\ lsb \in Byte /\ tmp \in Sector
      /\ offer \in Seq(Byte) /\ match \in BOOLEAN /\ ack \in BOOLEAN
  BY <1>2 DEF Typed
<1>4. /\ flag \in {0, 8} /\ rx \in Seq(Byte) /\ Len(rx) <= FifoDepth
      /\ irq \in BOOLEAN /\ irqEnable \in BOOLEAN /\ pad \in Byte \X Byte
  BY <1>2 DEF Wires
<1>5. card \in Image /\ disk \in Seq(Sector)
  BY <1>2 DEF Cards
<1> QED  BY <1>1, <1>3, <1>4, <1>5 DEF TypeOK

-----------------------------------------------------------------------------
(* The checksum is a byte.                                                 *)

LEMMA Bits ==
  ASSUME NEW a \in Nat
  PROVE  /\ Bit(a, 1) \in 0..1 /\ Bit(a, 2) \in 0..1 /\ Bit(a, 4) \in 0..1
         /\ Bit(a, 8) \in 0..1 /\ Bit(a, 16) \in 0..1 /\ Bit(a, 32) \in 0..1
         /\ Bit(a, 64) \in 0..1 /\ Bit(a, 128) \in 0..1
BY DEF Bit

LEMMA Weighed ==
  ASSUME NEW w \in Nat, NEW x \in 0..1, NEW y \in 0..1
  PROVE  w * ((x + y) % 2) \in {0, w}
<1>1. (x + y) % 2 \in {0, 1}
  OBVIOUS
<1>2. w * 0 = 0 /\ w * 1 = w
  OBVIOUS
<1> QED  BY <1>1, <1>2

LEMMA XorIsByte ==
  ASSUME NEW a \in Nat, NEW b \in Nat
  PROVE  Xor(a, b) \in Byte
<1> DEFINE x(w) == w * ((Bit(a, w) + Bit(b, w)) % 2)
<1>1. /\ x(1) \in {0, 1} /\ x(2) \in {0, 2} /\ x(4) \in {0, 4} /\ x(8) \in {0, 8}
      /\ x(16) \in {0, 16} /\ x(32) \in {0, 32} /\ x(64) \in {0, 64}
      /\ x(128) \in {0, 128}
  BY Bits, Weighed
<1>2. Xor(a, b) = x(1) + x(2) + x(4) + x(8) + x(16) + x(32) + x(64) + x(128)
  BY DEF Xor
<1> HIDE DEF x
<1> QED  BY <1>1, <1>2 DEF Byte

LEMMA ByteIsNumber == Byte \subseteq Nat
BY DEF Byte

LEMMA ChecksumIsByte ==
  ASSUME NEW n \in Nat, NEW data \in Sector
  PROVE  Checksum(n, data) \in Byte
<1> DEFINE K == SectorLen
           seed == Xor(n \div 256, n % 256)
           Step(k, x) == Xor(x, data[k])
           Walks(f) == f = [k \in 0..SectorLen |->
                             IF k = 0 THEN Xor(n \div 256, n % 256)
                             ELSE Xor(f[k - 1], data[k])]
           F == [k \in 1..K |-> [x \in Byte |-> Step(k, x)]]
           upTo == CHOOSE f : Walks(f)
<1>1. K \in Nat /\ Checksum(n, data) = upTo[K]
  BY Lengths DEF Checksum
<1>2. seed \in Byte
  BY XorIsByte
<1>3. F \in [1..K -> [Byte -> Byte]]
  <2>1. ASSUME NEW k \in 1..K, NEW x \in Byte  PROVE Step(k, x) \in Byte
    <3>1. data[k] \in Byte
      BY DEF Sector
    <3> QED  BY <3>1, ByteIsNumber, XorIsByte
  <2> HIDE DEF Step
  <2>2. \A k \in 1..K : [x \in Byte |-> Step(k, x)] \in [Byte -> Byte]
    BY <2>1
  <2> QED  BY <2>2
<1>4. PICK h \in [0..K -> Byte] : h[0] = seed /\ \A k \in 1..K : h[k] = F[k][h[k - 1]]
  <2> HIDE DEF F, K, seed
  <2>1. FromHere(seed, F, Byte, K)
    BY <1>1, <1>2, <1>3, RecursionReaches
  <2> QED  BY <2>1 DEF FromHere
<1>5. \A k \in 1..K : h[k] = Step(k, h[k - 1])
  <2> TAKE k \in 1..K
  <2>1. k - 1 \in 0..K
    BY <1>1
  <2>2. h[k - 1] \in Byte /\ h[k] = F[k][h[k - 1]]
    BY <1>4, <2>1
  <2>3. F[k] = [x \in Byte |-> Step(k, x)]
    OBVIOUS
  <2> HIDE DEF F, Step
  <2> QED  BY <2>2, <2>3
<1> HIDE DEF F
<1>6. Walks(upTo)
  <2>1. Walks(h)
    <3> DEFINE w == [k \in 0..K |-> IF k = 0 THEN Xor(n \div 256, n % 256)
                                    ELSE Xor(h[k - 1], data[k])]
    <3>1. \A k \in 0..K : h[k] = w[k]
      <4> SUFFICES ASSUME NEW k \in 0..K, k # 0  PROVE h[k] = w[k]
        BY <1>4
      <4>1. k \in 1..K
        BY <1>1
      <4> QED  BY <1>5, <4>1
    <3>2. h = [k \in 0..K |-> h[k]] /\ w = [k \in 0..K |-> w[k]]
      BY <1>4
    <3> HIDE DEF w, K
    <3>3. h = w
      BY <3>1, <3>2
    <3> QED  BY <3>3 DEF w, K
  <2> HIDE DEF Walks
  <2> QED  BY <2>1, Zenon
<1> HIDE DEF upTo
<1>7. \A k \in 0..K : upTo[k] = IF k = 0 THEN seed ELSE Step(k, upTo[k - 1])
  BY <1>6
<1> HIDE DEF Walks
<1>8. Alike(h, upTo, K)
  <2>1. upTo[0] = seed /\ \A k \in 1..K : upTo[k] = Step(k, upTo[k - 1])
    <3>1. 0 \in 0..K /\ \A k \in 1..K : k \in 0..K /\ k # 0
      BY <1>1
    <3> QED  BY <1>7, <3>1
  <2> HIDE DEF Step, seed
  <2> QED  BY <1>4, <1>5, <2>1 DEF Alike
<1>9. h[K] = upTo[K] /\ K \in 0..K
  BY <1>1, <1>8, SameSteps
<1> QED  BY <1>1, <1>4, <1>9

-----------------------------------------------------------------------------
(* The card and its file.                                                  *)

LEMMA FrameIsSector ==
  ASSUME NEW allocation \in Byte, NEW link \in Byte
  PROVE  Frame(allocation, link) \in Sector
<1>1. Zeros \in Sector /\ 1 \in 1..SectorLen /\ 2 \in 1..SectorLen
  BY Lengths, FreshValues
<1> QED  BY <1>1 DEF Frame, Sector

LEMMA FormattedIsImage == Formatted \in Image
<1>1. 77 \in Byte /\ 67 \in Byte /\ Free \in Byte /\ None \in Byte
  BY DEF Byte, Free, None
<1>2. Frame(77, 67) \in Sector /\ Frame(Free, None) \in Sector /\ Zeros \in Sector
  BY <1>1, FrameIsSector, FreshValues
<1> QED  BY <1>2 DEF Formatted, Image

LEMMA FileIsImage ==
  ASSUME NEW image \in Image, NEW count, Room(image, count), NEW tail, NEW fill \in Sector
  PROVE  WithFile(image, count, tail, fill) \in Image
<1> DEFINE free == FreeBlocks(image)
           used == {free[i] : i \in 1..count}
           turn == [b \in used |-> CHOOSE i \in 1..count : free[i] = b]
           filled(b) == IF turn[b] = count THEN tail ELSE BlockSectors
           frame(n) == Frame(Allocation(turn[n], count), Link(free, turn[n], count))
           payload(n) == BlockOf(n) \in used /\ n % BlockSectors < filled(BlockOf(n))
           new == [n \in Numbers |-> IF n \in used THEN frame(n)
                                     ELSE IF payload(n) THEN fill ELSE image[n]]
<1>1. WithFile(image, count, tail, fill) = new
  BY DEF WithFile
<1>2. free \in Seq(1..Blocks) /\ Len(free) \in Nat /\ count \in 1..Len(free)
  BY FreeAreFound DEF Found, Room
<1> HIDE DEF free
<1>3. ASSUME NEW n \in used  PROVE frame(n) \in Sector
  <2>1. turn[n] \in 1..count
    OBVIOUS
  <2> HIDE DEF turn
  <2>2. Allocation(turn[n], count) \in Byte
    BY DEF Allocation, Byte
  <2>3. Link(free, turn[n], count) \in Byte
    <3>1. CASE turn[n] < count
      <4>1. turn[n] + 1 \in 1..Len(free)
        BY <1>2, <2>1, <3>1
      <4>2. free[turn[n] + 1] \in 1..Blocks
        BY <1>2, <4>1, MemberOf
      <4>3. \A q \in 1..Blocks : q - 1 \in Byte
        BY BlockCounts DEF Byte
      <4> QED  BY <3>1, <4>2, <4>3 DEF Link
    <3>2. CASE ~(turn[n] < count)
      BY <3>2 DEF Link, None, Byte
    <3> QED  BY <3>1, <3>2
  <2> QED  BY <2>2, <2>3, FrameIsSector
<1> HIDE DEF used, turn, frame, payload
<1>4. new \in [Numbers -> Sector]
  BY <1>3 DEF Image
<1> QED  BY <1>1, <1>4 DEF Image

LEMMA FileIsSectors ==
  ASSUME NEW image \in Image
  PROVE  AsFile(image) \in Seq(Sector) /\ Len(AsFile(image)) = Total
<1>1. Total \in Nat
  BY BlockCounts DEF Total
<1>2. \A i \in 1..Total : image[i - 1] \in Sector
  BY <1>1 DEF Image, Numbers
<1> QED  BY <1>1, <1>2 DEF AsFile

LEMMA SavesAreSectors ==
  ASSUME NEW image \in Image, NEW old \in Seq(Sector), NEW new \in Saves(image, old, Cuts)
  PROVE  new \in Seq(Sector)
<1>1. AsFile(image) \in Seq(Sector) /\ Len(AsFile(image)) = Total
  BY FileIsSectors
<1>2. ASSUME NEW n \in Cuts  PROVE SubSeq(AsFile(image), 1, n) \in Seq(Sector)
  <2>1. n \in 0..Len(AsFile(image))
    BY <1>1, SioAssumption
  <2> HIDE DEF AsFile
  <2> QED  BY <1>1, <2>1
<1> QED  BY <1>1, <1>2 DEF Saves

LEMMA LoadedIsImage ==
  ASSUME NEW image \in Image, NEW file \in Seq(Sector)
  PROVE  Loaded(image, file) \in Image
<1>1. \A n \in Numbers : n < Len(file) => file[n + 1] \in Sector
  BY DEF Numbers
<1> QED  BY <1>1 DEF Loaded, Image

LEMMA CardsKeep ==
  ASSUME Whole, [Next]_vars
  PROVE  Cards'
<1> USE DEF Cards
<1>1. /\ card \in Image /\ disk \in Seq(Sector) /\ tmp \in Sector
  BY DEF Whole, IInv, Typed
<1>2. CASE Send
  <2>1. CASE UNCHANGED <<card, disk>>
    BY <1>1, <2>1
  <2>2. CASE WriteEnd
    <3>1. CASE match /\ cur \in Numbers
      <4>1. card' = [card EXCEPT ![cur] = tmp] /\ disk' \in Saves(card', disk, Cuts)
        BY <2>2, <3>1 DEF WriteEnd
      <4>2. card' \in Image
        BY <1>1, <4>1 DEF Image
      <4> QED  BY <1>1, <4>1, <4>2, SavesAreSectors
    <3>2. CASE ~(match /\ cur \in Numbers)
      BY <1>1, <2>2, <3>2 DEF WriteEnd
    <3> QED  BY <3>1, <3>2
  <2>3. UNCHANGED <<card, disk>> \/ WriteEnd
    BY <1>2 DEF Send, SendByte, Select, Command, Scripted, ReadMsb, ReadLsb,
      ReadConfirmMsb, ReadConfirmLsb, ReadData, ReadChecksum, ReadEnd, WriteMsb,
      WriteLsb, WriteData, WriteChecksum, GetIdEnd, PadPoll, PadLow, PadHigh, store
  <2> QED  BY <2>1, <2>2, <2>3
<1>3. CASE PutFile
  <2>1. PICK count \in 1..Blocks, tail \in Tails, fill \in Fills :
          /\ Room(card, count) /\ card' = WithFile(card, count, tail, fill)
          /\ disk' \in Saves(card', disk, Cuts)
    BY <1>3 DEF PutFile, WriteFile
  <2>2. card' \in Image
    BY <1>1, <2>1, FileIsImage, SioAssumption
  <2> QED  BY <1>1, <2>1, <2>2, SavesAreSectors
<1>4. CASE Load
  BY <1>1, <1>4, LoadedIsImage DEF Load
<1>5. CASE Format \/ Reset
  BY <1>1, <1>5, FormattedIsImage DEF Format, Reset
<1>6. CASE Pop \/ SetButtons \/ UNCHANGED vars
  BY <1>1, <1>6 DEF Pop, SetButtons, store, vars
<1>7. ASSUME NEW e, NEW a, NEW r, WriteControl(e, a, r)  PROVE Cards'
  BY <1>1, <1>7 DEF WriteControl
<1> QED  BY <1>2, <1>3, <1>4, <1>5, <1>6, <1>7 DEF Next, Port, Api

-----------------------------------------------------------------------------
(* The registers.                                                          *)

LEMMA BoundedKeeps ==
  ASSUME Whole, [Next]_vars
  PROVE  Bounded'
<1> USE Lengths
<1>1. /\ Bounded /\ cur \in Nat /\ index \in Nat /\ index <= SectorLen
      /\ msb \in Byte /\ state \in States
  BY DEF Whole, IInv, Typed, Bounded
<1>2. state = "WRITE_DATA" => index < SectorLen
  BY DEF Whole, IInv, AtData
<1>3. ASSUME UNCHANGED <<cur, index>>, state' # "READ_DATA" \/ state' = state
      PROVE  Bounded'
  BY <1>1, <1>3 DEF Bounded
<1>4. ASSUME NEW b \in Wire[state], SendByte(b)  PROVE Bounded'
  <2>1. b \in Byte
    BY <1>1, SentBytes
  <2>2. CASE ReadLsb(b) \/ WriteLsb(b)
    <3>1. cur' = msb * 256 + b /\ state' \in {"READ_ACK2", "WRITE_DATA"}
          /\ (index' = index \/ index' = 0)
      BY <2>2 DEF ReadLsb, WriteLsb, Reply, buffer
    <3>2. msb * 256 + b \in Nat /\ msb * 256 + b < 65536
      BY <1>1, <2>1 DEF Byte
    <3> QED  BY <1>1, <3>1, <3>2 DEF Bounded
  <2>3. CASE ReadConfirmLsb
    <3>1. index' = 0 /\ cur' = cur
      BY <2>3 DEF ReadConfirmLsb, address
    <3> QED  BY <1>1, <3>1 DEF Bounded
  <2>4. CASE ReadData
    <3>1. /\ state = "READ_DATA" /\ index' = index + 1 /\ cur' = cur
          /\ state' = IF index + 1 >= SectorLen THEN "READ_CHECKSUM" ELSE "READ_DATA"
      BY <2>4 DEF ReadData, Reply, address
    <3> QED  BY <1>1, <3>1 DEF Bounded
  <2>5. CASE WriteData(b)
    <3>1. index < SectorLen
      BY <1>2, <2>5 DEF WriteData
    <3>2. /\ index' = index + 1 /\ cur' = cur
          /\ state' \in {"WRITE_CHECKSUM", "WRITE_DATA"}
      BY <2>5, <3>1 DEF WriteData, Reply, address
    <3> QED  BY <1>1, <3>1, <3>2 DEF Bounded
  <2>6. CASE Scripted
    <3>1. state' # "READ_DATA"
      BY <2>6 DEF Scripted, Reply, Script
    <3>2. UNCHANGED <<cur, index>>
      BY <2>6 DEF Scripted, address, buffer
    <3> QED  BY <1>3, <3>1, <3>2
  <2>7. CASE Command(b)
    <3>1. state' # "READ_DATA"
      BY <2>7, CommandSteps DEF Command, Reply
    <3>2. UNCHANGED <<cur, index>>
      BY <2>7 DEF Command, address, buffer
    <3> QED  BY <1>3, <3>1, <3>2
  <2>8. CASE \/ Select(b) \/ ReadMsb(b) \/ ReadConfirmMsb \/ ReadChecksum \/ ReadEnd
             \/ WriteMsb(b) \/ WriteChecksum(b) \/ WriteEnd \/ GetIdEnd
             \/ PadPoll(b) \/ PadLow \/ PadHigh
    <3>1. state' # "READ_DATA"
      BY <2>8 DEF Select, ReadMsb, ReadConfirmMsb, ReadChecksum, ReadEnd, WriteMsb,
        WriteChecksum, WriteEnd, GetIdEnd, PadPoll, PadLow, PadHigh, Reply
    <3>2. UNCHANGED <<cur, index>>
      BY <2>8 DEF Select, ReadMsb, ReadConfirmMsb, ReadChecksum, ReadEnd, WriteMsb,
        WriteChecksum, WriteEnd, GetIdEnd, PadPoll, PadLow, PadHigh, address, buffer
    <3> QED  BY <1>3, <3>1, <3>2
  <2> QED  BY <1>4, <2>2, <2>3, <2>4, <2>5, <2>6, <2>7, <2>8, Zenon DEF SendByte
<1>5. ASSUME NEW e, NEW a, NEW r, WriteControl(e, a, r)  PROVE Bounded'
  <2>1. UNCHANGED <<cur, index>> /\ (state' = "IDLE" \/ state' = state)
    BY <1>5 DEF WriteControl, address, buffer
  <2> QED  BY <1>3, <2>1
<1>6. CASE Reset
  BY <1>6 DEF Reset, Bounded
<1>7. CASE Pop \/ SetButtons \/ PutFile \/ Load \/ Format \/ UNCHANGED vars
  <2>1. UNCHANGED <<cur, index, state>>
    BY <1>7 DEF Pop, SetButtons, PutFile, WriteFile, Load, Format, Outside, vars,
      address, buffer
  <2> QED  BY <1>3, <2>1
<1> QED  BY <1>4, <1>5, <1>6, <1>7 DEF Next, Port, Api, Send

-----------------------------------------------------------------------------
(* The FIFO and the wires.                                                 *)

LEMMA PushKeeps ==
  ASSUME NEW reply \in Byte, rx \in Seq(Byte), Len(rx) <= FifoDepth, Push(reply)
  PROVE  rx' \in Seq(Byte) /\ Len(rx') <= FifoDepth
<1>1. FifoDepth \in Nat
  BY SioAssumption
<1> HIDE DEF Byte
<1>2. CASE Len(rx) < FifoDepth
  BY <1>1, <1>2 DEF Push
<1>3. CASE ~(Len(rx) < FifoDepth)
  BY <1>3 DEF Push
<1> QED  BY <1>2, <1>3

LEMMA RepliesKeep ==
  ASSUME Wires, NEW reply \in Byte, NEW next, NEW acked,
         Reply(reply, next, acked), flag' \in {0, 8}
  PROVE  Wires'
<1>1. rx' \in Seq(Byte) /\ Len(rx') <= FifoDepth
  BY PushKeeps DEF Reply, Wires
<1>2. irq' \in BOOLEAN /\ irqEnable' \in BOOLEAN /\ pad' = pad
  BY DEF Reply, Wires, Interrupt
<1> QED  BY <1>1, <1>2 DEF Wires

LEMMA ScriptedReplies ==
  ASSUME NEW s \in DOMAIN Script
  PROVE  Script[s][1] \in Byte
BY DEF Script, Byte

LEMMA ReplyBytes ==
  /\ 255 \in Byte /\ 0 \in Byte /\ 92 \in Byte /\ 71 \in Byte /\ 78 \in Byte
  /\ 128 \in Byte /\ 65 \in Byte /\ 8 \in Byte
BY DEF Byte

LEMMA WiresKeep ==
  ASSUME Whole, [Next]_vars
  PROVE  Wires'
<1>1. /\ Wires /\ ack \in BOOLEAN /\ flag \in {0, 8} /\ flag \in Byte
      /\ msb \in Byte /\ lsb \in Byte /\ cur \in Nat /\ tmp \in Sector
      /\ pad[1] \in Byte /\ pad[2] \in Byte /\ card \in Image /\ state \in States
  BY ReplyBytes DEF Whole, IInv, Typed, Wires, Cards
<1>2. ASSUME NEW reply \in Byte, NEW next, NEW acked,
             Reply(reply, next, acked), flag' = flag \/ flag' = 0
      PROVE  Wires'
  BY <1>1, <1>2, RepliesKeep
<1>3. ASSUME NEW b \in Wire[state], SendByte(b)  PROVE Wires'
  <2>1. b \in Byte
    BY <1>1, SentBytes
  <2>2. CASE Select(b)
    <3> DEFINE next == CASE b = 129 -> "WAIT_CMD" [] b = 1 -> "PAD_POLL" [] OTHER -> "IDLE"
               acked == ack \/ b \in {129, 1}
    <3>1. Reply(255, next, acked) /\ flag' = flag
      BY <2>2, Zenon DEF Select
    <3> HIDE DEF next, acked
    <3> QED  BY <1>2, <3>1, ReplyBytes
  <2>3. CASE Command(b)
    BY <1>1, <1>2, <2>3, ReplyBytes DEF Command
  <2>4. CASE Scripted
    BY <1>1, <1>2, <2>4, ScriptedReplies DEF Scripted
  <2>5. CASE ReadData
    <3> DEFINE reply == IF cur \in Numbers THEN card[cur][index + 1] ELSE 0
               next == IF index + 1 >= SectorLen THEN "READ_CHECKSUM" ELSE "READ_DATA"
    <3>1. index + 1 \in 1..SectorLen
      BY <2>5, Lengths DEF ReadData, Whole, Bounded
    <3>2. ASSUME cur \in Numbers  PROVE card[cur][index + 1] \in Byte
      <4>1. card[cur] \in Sector
        BY <1>1, <3>2 DEF Image
      <4> QED  BY <3>1, <4>1 DEF Sector
    <3>3. reply \in Byte
      BY <3>2, ReplyBytes
    <3>4. Reply(reply, next, ack) /\ flag' = flag
      BY <2>5 DEF ReadData
    <3> HIDE DEF reply, next
    <3> QED  BY <1>2, <3>3, <3>4
  <2>6. CASE ReadChecksum
    <3>1. PICK sum \in IF cur \in Numbers THEN {Checksum(cur, card[cur])} ELSE Beyond :
            Reply(sum, "READ_END", ack)
      BY <2>6 DEF ReadChecksum
    <3>2. sum \in Byte
      <4>1. CASE cur \in Numbers
        <5>1. card[cur] \in Sector
          BY <1>1, <4>1 DEF Image
        <5> QED  BY <1>1, <3>1, <4>1, <5>1, ChecksumIsByte
      <4>2. CASE cur \notin Numbers
        BY <3>1, <4>2, SioAssumption
      <4> QED  BY <4>1, <4>2
    <3> QED  BY <1>1, <1>2, <2>6, <3>1, <3>2 DEF ReadChecksum
  <2>7. CASE \/ ReadMsb(b) \/ ReadLsb(b) \/ ReadConfirmMsb \/ ReadConfirmLsb
             \/ ReadEnd \/ GetIdEnd \/ PadLow \/ PadHigh
    <3>1. \E reply \in Byte : \E next, acked : Reply(reply, next, acked)
      BY <1>1, <2>7, ReplyBytes, Zenon DEF ReadMsb, ReadLsb, ReadConfirmMsb,
        ReadConfirmLsb, ReadEnd, GetIdEnd, PadLow, PadHigh
    <3>2. flag' = flag
      BY <2>7 DEF ReadMsb, ReadLsb, ReadConfirmMsb, ReadConfirmLsb, ReadEnd, GetIdEnd,
        PadLow, PadHigh
    <3> QED  BY <1>2, <3>1, <3>2
  <2>8. CASE WriteMsb(b) \/ WriteLsb(b) \/ WriteData(b) \/ WriteChecksum(b)
    <3>1. \E reply \in Byte : \E next, acked : Reply(reply, next, acked)
      BY <2>8, ReplyBytes, Zenon DEF WriteMsb, WriteLsb, WriteData, WriteChecksum
    <3>2. flag' = flag
      BY <2>8 DEF WriteMsb, WriteLsb, WriteData, WriteChecksum
    <3> QED  BY <1>2, <3>1, <3>2
  <2>9. CASE WriteEnd
    BY <1>2, <2>9, ReplyBytes DEF WriteEnd
  <2>10. CASE PadPoll(b)
    BY <1>2, <2>10, ReplyBytes DEF PadPoll
  <2> QED  BY <1>3, <2>2, <2>3, <2>4, <2>5, <2>6, <2>7, <2>8, <2>9, <2>10, Zenon DEF SendByte
<1>4. CASE Pop
  <2>1. rx \in Seq(Byte) /\ rx # << >> /\ Len(rx) <= FifoDepth
    BY <1>1, <1>4 DEF Pop, Wires
  <2>2. FifoDepth \in Nat
    BY SioAssumption
  <2>3. Tail(rx) \in Seq(Byte) /\ Len(Tail(rx)) <= FifoDepth
    <3> HIDE DEF Byte
    <3> QED  BY <2>1, <2>2
  <2> QED  BY <1>1, <1>4, <2>3 DEF Pop, Wires
<1>5. ASSUME NEW e \in BOOLEAN, NEW a \in BOOLEAN, NEW r \in BOOLEAN, WriteControl(e, a, r)
      PROVE  Wires'
  <2>1. irq' \in BOOLEAN /\ irqEnable' \in BOOLEAN /\ UNCHANGED <<flag, pad>>
    BY <1>1, <1>5 DEF WriteControl
  <2>2. rx' = << >> \/ rx' = rx
    BY <1>5 DEF WriteControl
  <2>3. << >> \in Seq(Byte) /\ Len(<< >>) <= FifoDepth
    BY NothingOffered, SioAssumption
  <2> QED  BY <1>1, <2>1, <2>2, <2>3 DEF Wires
<1>6. CASE Reset
  <2>1. << >> \in Seq(Byte) /\ Len(<< >>) <= FifoDepth
    BY NothingOffered, SioAssumption
  <2>2. <<255, 255>> \in Byte \X Byte
    BY ReplyBytes
  <2> QED  BY <1>6, <2>1, <2>2 DEF Reset, Wires
<1>7. CASE SetButtons
  BY <1>1, <1>7, SioAssumption DEF SetButtons, Wires
<1>8. CASE PutFile \/ Load \/ Format \/ UNCHANGED vars
  BY <1>1, <1>8 DEF PutFile, WriteFile, Load, Format, Outside, vars, Wires
<1> QED  BY <1>3, <1>4, <1>5, <1>6, <1>7, <1>8 DEF Next, Port, Api, Send

\* Every register, reply and byte of the card keeps its width, whatever the
\* host sends and whenever it resets the port: the reply past the last byte of
\* a sector, or the one too many for the FIFO, never is.
THEOREM RegistersKeepTheirWidth == Spec => []TypeOK
<1>1. Init => Whole
  <2> SUFFICES ASSUME Init  PROVE Whole
    OBVIOUS
  <2>1. Bounded
    BY Lengths DEF Init, Bounded
  <2>2. Wires
    <3>1. << >> \in Seq(Byte) /\ Len(<< >>) <= FifoDepth
      BY NothingOffered, SioAssumption
    <3>2. <<255, 255>> \in Byte \X Byte
      BY ReplyBytes
    <3> QED  BY <3>1, <3>2 DEF Init, Wires
  <2>3. Cards
    <3>1. << >> \in Seq(Sector)
      OBVIOUS
    <3> QED  BY <3>1, FormattedIsImage DEF Init, Cards
  <2> QED  BY <2>1, <2>2, <2>3, InitEstablishes DEF Whole
<1>2. Whole /\ [Next]_vars => Whole'
  <2> SUFFICES ASSUME Whole, [Next]_vars  PROVE Whole'
    OBVIOUS
  <2>1. IInv'
    BY NextKeeps DEF Whole
  <2> QED  BY <2>1, BoundedKeeps, WiresKeep, CardsKeep DEF Whole
<1>3. Whole => TypeOK
  BY WholeIsTyped
<1> QED  BY <1>1, <1>2, <1>3, PTL DEF Spec
=============================================================================
