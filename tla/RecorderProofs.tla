--------------------------- MODULE RecorderProofs ---------------------------
(***************************************************************************)
(* The metadata table and the data files of Recorder agree after any       *)
(* number of sessions, crashes and reformats, whatever the records, and    *)
(* no packet is lost before it is published.                               *)
(*                                                                         *)
(* The invariant relates three views of the same thing: the header in      *)
(* memory, the table on flash, and the files.  What a search has read of   *)
(* the table stays its last entry until that is popped.                    *)
(***************************************************************************)
EXTENDS Recorder, TLAPS

\* The types that the table rests on.
TableOK ==
  /\ meta \in Seq(Nat \X Nat) /\ header \in Nat \X Nat
  /\ valid \in BOOLEAN /\ metaFile \in BOOLEAN
  /\ underflow \in BOOLEAN /\ wiping \in BOOLEAN
  /\ DOMAIN files \subseteq Nat
  /\ entry \in Nat \X Nat
  /\ "index" \in DOMAIN session

Between == pc \notin {"reformat", "create"}

\* The header on flash counts the entries, of which there are no more than sessions.
FlashCounts ==
  underflow = FALSE /\ meta # << >> =>
    /\ meta[1][2] = Len(meta) - 1
    /\ Len(meta) - 1 <= meta[1][1] /\ meta[1][1] <= MaxSessions

\* The header in memory is that on flash.
MemoryCounts ==
  /\ valid = FALSE => header = <<0, 0>>
  /\ valid = TRUE /\ underflow = FALSE /\ Between => meta # << >> /\ header = meta[1]
  /\ pc \in {"opening", "search", "publish", "removed"} => valid = TRUE

\* A new table is empty, and made when there are no files but those a reformat left.
NewTable ==
  /\ (metaFile = FALSE \/ pc = "create") => meta = << >>
  /\ wiping = FALSE /\ (metaFile = FALSE \/ pc = "create") => DOMAIN files = {}
  /\ pc = "reformat" => wiping = TRUE
  /\ valid = TRUE /\ Between => metaFile = TRUE
  /\ pc = "create" => metaFile = TRUE

\* The indices in use are below the next one, in memory and on flash.
IndicesUsed ==
  wiping = FALSE =>
    /\ \A s \in DOMAIN files : /\ valid = TRUE /\ Between => s < header[1]
                               /\ meta # << >> => s < meta[1][1]
    /\ pc = "opening" => /\ session.index < header[1]
                         /\ meta # << >> => session.index < meta[1][1]

\* The session being opened is listed, and its file is not there yet.
Opening ==
  pc = "opening" => /\ session.index \in Nat /\ session.index \in Listed(meta)
                    /\ wiping = FALSE => session.index \notin DOMAIN files

\* A search looks at the last entry; once its file is removed, that is to be popped.
Searching ==
  underflow = FALSE =>
    /\ pc \in {"search", "removed"} => entry = meta[Len(meta)]
    /\ pc = "removed" => entry[1] \notin DOMAIN files

IInv ==
  /\ TableOK /\ FlashCounts /\ MemoryCounts /\ NewTable /\ IndicesUsed /\ Opening
  /\ Searching /\ FilesListed

-----------------------------------------------------------------------------

\* What is below Slots does not wrap.
LEMMA BelowSlots ==
  ASSUME NEW a \in Nat, a < Slots
  PROVE  a % Slots = a
PROOF
  <1>1. Slots \in Nat \ {0}
    BY SlotsAssumption, BoundsAssumption
  <1> QED BY <1>1, SMTT(30)

\* Writing the header leaves the entries.
LEMMA WriteHeaderFacts ==
  ASSUME NEW m \in Seq(Nat \X Nat), NEW h \in Nat \X Nat
  PROVE  /\ WriteHeader(m, h) \in Seq(Nat \X Nat)
         /\ WriteHeader(m, h) # << >> /\ WriteHeader(m, h)[1] = h
         /\ Len(WriteHeader(m, h)) = IF m = << >> THEN 1 ELSE Len(m)
         /\ \A i \in 2 .. Len(m) : WriteHeader(m, h)[i] = m[i]
PROOF
  <1>1. CASE m = << >>
    BY <1>1 DEF WriteHeader
  <1>2. CASE m # << >>
    <2>1. Len(m) \in Nat /\ 1 \in 1 .. Len(m)
      BY <1>2
    <2> DEFINE w == [m EXCEPT ![1] = h]
    <2>2. w \in Seq(Nat \X Nat) /\ Len(w) = Len(m) /\ w[1] = h
      BY <2>1
    <2>3. \A i \in 2 .. Len(m) : w[i] = m[i]
      BY <2>1
    <2>4. w # << >>
      BY <2>1, <2>2
    <2>5. WriteHeader(m, h) = w
      BY <1>2 DEF WriteHeader
    <2> HIDE DEF w
    <2> QED BY <1>2, <2>2, <2>3, <2>4, <2>5
  <1> QED BY <1>1, <1>2

\* Pushing an entry lists it, and counts it.
LEMMA PushFacts ==
  ASSUME NEW m \in Seq(Nat \X Nat), NEW h \in Nat \X Nat, NEW e \in Nat \X Nat,
         NEW n, n = Append(WriteHeader(m, h), e)
  PROVE  /\ n \in Seq(Nat \X Nat) /\ n # << >> /\ n[1] = h
         /\ m # << >> => Len(n) = Len(m) + 1
         /\ \A s : s \in Listed(n) <=> s \in Listed(m) \/ s = e[1]
PROOF
  <1> DEFINE w == WriteHeader(m, h)
  <1>1. w \in Seq(Nat \X Nat) /\ Len(w) \in Nat \ {0} /\ w[1] = h
    BY WriteHeaderFacts
  <1>2. n \in Seq(Nat \X Nat) /\ Len(n) = Len(w) + 1 /\ n[Len(w) + 1] = e
        /\ \A i \in 1 .. Len(w) : n[i] = w[i]
    BY <1>1
  <1>3. Len(w) = IF m = << >> THEN 1 ELSE Len(m)
    BY WriteHeaderFacts
  <1>4. \A i \in 2 .. Len(w) : i \in 2 .. Len(m) /\ n[i] = m[i]
    BY <1>1, <1>2, <1>3, WriteHeaderFacts
  <1>5. \A i \in 2 .. Len(m) : i \in 2 .. Len(w)
    BY <1>1, <1>3
  <1>6. \A s : s \in Listed(n) <=> s \in Listed(m) \/ s = e[1]
    <2> HIDE DEF w
    <2>1. ASSUME NEW s \in Listed(n) PROVE s \in Listed(m) \/ s = e[1]
      <3>1. PICK i \in 2 .. Len(n) : s = n[i][1]
        BY DEF Listed
      <3>2. CASE i = Len(w) + 1
        BY <1>2, <3>1, <3>2
      <3>3. CASE i \in 2 .. Len(w)
        BY <1>4, <3>1, <3>3 DEF Listed
      <3>4. Len(w) \in Nat \ {0} /\ Len(n) = Len(w) + 1 /\ i \in 2 .. Len(n)
        BY <1>1, <1>2
      <3>5. i = Len(w) + 1 \/ i \in 2 .. Len(w)
        BY <3>4
      <3> QED BY <3>2, <3>3, <3>5
    <2>2. ASSUME NEW s \in Listed(m) PROVE s \in Listed(n)
      <3>1. PICK i \in 2 .. Len(m) : s = m[i][1]
        BY DEF Listed
      <3>2. i \in 2 .. Len(n) /\ n[i] = m[i]
        <4>1. i \in 2 .. Len(w)
          BY <1>5
        <4>2. n[i] = m[i]
          BY <1>4, <4>1
        <4>3. Len(n) = Len(w) + 1 /\ Len(w) \in Nat
          BY <1>1, <1>2
        <4>4. i \in 2 .. Len(n)
          BY <4>1, <4>3
        <4> QED BY <4>2, <4>4
      <3> QED BY <3>1, <3>2 DEF Listed
    <2>3. e[1] \in Listed(n)
      <3>1. Len(n) \in 2 .. Len(n) /\ n[Len(n)] = e
        BY <1>1, <1>2
      <3> QED BY <3>1 DEF Listed
    <2> QED BY <2>1, <2>2, <2>3
  <1>7. n # << >> /\ n[1] = h
    BY <1>1, <1>2
  <1>8. m # << >> => Len(n) = Len(m) + 1
    BY <1>2, <1>3
  <1> QED BY <1>2, <1>6, <1>7, <1>8

\* Popping writes the header and, as long as there is an entry to pop, cuts off the last.
LEMMA PopFacts ==
  ASSUME NEW m \in Seq(Nat \X Nat), m # << >>, NEW h \in Nat \X Nat,
         h[2] = Len(m) - 2, h[2] + 1 < Slots
  PROVE  LET n == PopFile(m, h)
         IN  /\ n \in Seq(Nat \X Nat) /\ n # << >> /\ n[1] = h /\ Len(n) = Len(m) - 1
             /\ TruncateOK(WriteHeader(m, h), h)
             /\ Listed(m) = Listed(n) \cup {m[Len(m)][1]}
PROOF
  <1> DEFINE w == WriteHeader(m, h)
             n == SubSeq(w, 1, Len(m) - 1)
  <1>1. w \in Seq(Nat \X Nat) /\ Len(w) = Len(m) /\ w[1] = h
        /\ \A i \in 2 .. Len(m) : w[i] = m[i]
    BY WriteHeaderFacts
  <1>2. Len(m) \in Nat /\ Len(m) >= 2
    OBVIOUS
  <1>3. PopLength(h) = Len(m) - 1
    <2>2. 1 + h[2] \in Nat /\ 1 + h[2] < Slots /\ 1 + h[2] = Len(m) - 1
      BY <1>2, SlotsAssumption, BoundsAssumption
    <2> QED BY <2>2, BelowSlots DEF PopLength
  <1>4. TruncateOK(w, h)
    BY <1>1, <1>2, <1>3 DEF TruncateOK
  <1>5. PopFile(m, h) = n
    BY <1>3, <1>4 DEF PopFile
  <1>6. /\ n \in Seq(Nat \X Nat) /\ Len(n) = Len(m) - 1
        /\ \A i \in 1 .. Len(m) - 1 : n[i] = w[i]
    BY <1>1, <1>2
  <1>7. n # << >> /\ n[1] = h
    <2>1. 1 \in 1 .. Len(m) - 1
      BY <1>2
    <2> HIDE DEF n, w
    <2>2. n[1] = h
      BY <1>1, <1>6, <2>1
    <2>3. n # << >>
      BY <1>2, <1>6
    <2> QED BY <2>2, <2>3
  <1>8. Listed(m) = Listed(n) \cup {m[Len(m)][1]}
    <2> HIDE DEF n, w
    <2> DEFINE k == Len(m)
    <2>0. k \in Nat /\ Len(n) = k - 1 /\ k >= 2
      BY <1>2, <1>6
    <2>1. \A i \in 2 .. Len(n) : i \in 2 .. Len(m) /\ n[i] = m[i]
      <3>1. \A i \in 2 .. Len(n) : i \in 2 .. k /\ i \in 1 .. k - 1
        <4> HIDE DEF k
        <4> QED BY <2>0
      <3> QED BY <1>1, <1>6, <3>1
    <2>2. \A i \in 2 .. Len(m) : i = Len(m) \/ i \in 2 .. Len(n)
      <3>1. \A i \in 2 .. k : i = k \/ i \in 2 .. Len(n)
        <4> HIDE DEF k
        <4> QED BY <2>0
      <3> QED BY <3>1
    <2>3. Len(m) \in 2 .. Len(m)
      BY <1>2
    <2>4. ASSUME NEW s \in Listed(n) PROVE s \in Listed(m)
      BY <2>1 DEF Listed
    <2>5. ASSUME NEW s \in Listed(m) PROVE s \in Listed(n) \cup {m[Len(m)][1]}
      BY <2>1, <2>2 DEF Listed
    <2>6. m[Len(m)][1] \in Listed(m)
      BY <2>3 DEF Listed
    <2> QED BY <2>4, <2>5, <2>6
  <1> QED BY <1>4, <1>5, <1>6, <1>7, <1>8

\* What popping leaves, even when there was nothing to pop.
LEMMA PopTyped ==
  ASSUME NEW m \in Seq(Nat \X Nat), NEW h \in Nat \X Nat
  PROVE  PopFile(m, h) \in Seq(Nat \X Nat) /\ (PopFile(m, h) # << >> => PopFile(m, h)[1] = h)
PROOF
  <1> DEFINE w == WriteHeader(m, h)
             k == PopLength(h)
  <1>1. w \in Seq(Nat \X Nat) /\ w # << >> /\ w[1] = h
    BY WriteHeaderFacts
  <1>2. CASE TruncateOK(w, h)
    <2>1. k \in Nat /\ k <= Len(w)
      <3>1. Slots \in Nat \ {0}
        BY SlotsAssumption, BoundsAssumption
      <3>2. k \in Nat
        BY <3>1, SMTT(30) DEF PopLength
      <3> QED BY <1>2, <3>2 DEF TruncateOK
    <2>2. PopFile(m, h) = SubSeq(w, 1, k)
      BY <1>2 DEF PopFile
    <2> HIDE DEF w, k
    <2>3. SubSeq(w, 1, k) \in Seq(Nat \X Nat) /\ Len(SubSeq(w, 1, k)) = k
          /\ \A i \in 1 .. k : SubSeq(w, 1, k)[i] = w[i]
      BY <1>1, <2>1
    <2>4. SubSeq(w, 1, k) # << >> => k >= 1
      BY <2>1, <2>3
    <2> QED BY <1>1, <2>1, <2>2, <2>3, <2>4
  <1>3. CASE ~TruncateOK(w, h)
    BY <1>1, <1>3 DEF PopFile
  <1> QED BY <1>2, <1>3

\* A read of an entry yields one, and the last one when the count is right.
LEMMA PeekFacts ==
  ASSUME NEW m \in Seq(Nat \X Nat), NEW h \in Nat \X Nat, NEW old \in Nat \X Nat
  PROVE  /\ Peek(m, h, old) \in Nat \X Nat
         /\ m # << >> /\ h[2] = Len(m) - 1 /\ h[2] < Slots => Peek(m, h, old) = m[Len(m)]
PROOF
  <1> DEFINE slot == (1 + (h[2] - 1)) % Slots
  <1>1. Slots \in Nat \ {0} /\ h[2] \in Nat
    BY SlotsAssumption, BoundsAssumption
  <1>2. slot \in Nat
    BY <1>1, SMTT(30)
  <1>3. h[2] < Slots => slot = h[2]
    BY <1>1, BelowSlots
  <1>4. Peek(m, h, old) = IF slot < Len(m) THEN m[slot + 1] ELSE old
    BY DEF Peek
  <1> HIDE DEF slot
  <1>5. slot < Len(m) => m[slot + 1] \in Nat \X Nat
    BY <1>2
  <1> QED BY <1>1, <1>2, <1>3, <1>4, <1>5

-----------------------------------------------------------------------------

\* The empty flash.
LEMMA InitIInv == Init => IInv
PROOF
  <1> SUFFICES ASSUME Init PROVE IInv
    OBVIOUS
  <1>1. /\ meta = << >> /\ files = [s \in {} |-> << >>] /\ header = <<0, 0>> /\ entry = <<0, 0>>
        /\ session = Closed /\ pc = "off" /\ DOMAIN files = {}
    BY DEF Init
  <1>2. metaFile = FALSE /\ valid = FALSE /\ underflow = FALSE /\ wiping = FALSE
    BY Zenon DEF Init
  <1>3. meta \in Seq(Nat \X Nat) /\ header \in Nat \X Nat /\ entry \in Nat \X Nat
    BY <1>1
  <1>4. "index" \in DOMAIN session
    BY <1>1 DEF Closed
  <1>5. TableOK
    BY <1>1, <1>2, <1>3, <1>4 DEF TableOK
  <1>6. FlashCounts /\ MemoryCounts /\ NewTable /\ IndicesUsed /\ Opening /\ Searching
    BY <1>1, <1>2 DEF FlashCounts, MemoryCounts, NewTable, IndicesUsed, Opening, Searching
  <1>7. FilesListed
    BY <1>1 DEF FilesListed
  <1> QED BY <1>5, <1>6, <1>7 DEF IInv

\* A table that is not empty has a header.
LEMMA HasHeader ==
  ASSUME TableOK, meta # << >>
  PROVE  /\ Len(meta) \in Nat \ {0} /\ meta[1] \in Nat \X Nat
         /\ meta[1][1] \in Nat /\ meta[1][2] \in Nat
BY DEF TableOK

\* The steps of a boot.
LEMMA BootsIInv == ASSUME IInv, Boot \/ BootCreate \/ BootWrite \/ Crash PROVE IInv'
PROOF
  <1> USE DEF IInv
  <1>1. CASE Boot
    <2>1. /\ meta' = meta /\ files' = files /\ session' = session /\ entry' = entry /\ pc' = "idle"
          /\ pc = "off"
          /\ meta # << >> => header' = meta[1]
          /\ meta = << >> => header' = <<0, 0>>
      BY <1>1 DEF Boot, flash
    <2>2. /\ metaFile' = metaFile /\ metaFile = TRUE /\ underflow' = underflow /\ wiping' = wiping
          /\ valid' = (meta # << >>)
      BY <1>1, Zenon DEF Boot, flash, history, TableOK
    <2>3. (valid' = FALSE => meta = << >>) /\ (valid' = TRUE => meta # << >>)
      BY <2>2, Zenon
    <2>4. valid' \in BOOLEAN
      BY <2>2, Zenon
    <2>5. header' \in Nat \X Nat
      <3>1. CASE meta = << >>
        BY <2>1, <3>1
      <3>2. CASE meta # << >>
        BY <2>1, <3>2, HasHeader
      <3> QED BY <3>1, <3>2
    <2>6. TableOK'
      BY <2>1, <2>2, <2>4, <2>5 DEF TableOK
    <2>7. FlashCounts' /\ MemoryCounts'
      BY <2>1, <2>2, <2>3 DEF FlashCounts, MemoryCounts, Between
    <2>8. NewTable' /\ IndicesUsed'
      BY <2>1, <2>2, <2>3 DEF NewTable, IndicesUsed, Between
    <2>9. Opening' /\ Searching' /\ FilesListed'
      BY <2>1, <2>2 DEF Opening, Searching, FilesListed
    <2> QED BY <2>6, <2>7, <2>8, <2>9
  <1>2. CASE BootCreate
    <2>1. /\ meta' = meta /\ files' = files /\ session' = session /\ entry' = entry
          /\ header' = header /\ pc' = "create"
          /\ pc = "off" \/ (pc = "reformat" /\ DOMAIN files = {})
      BY <1>2 DEF BootCreate, flash
    <2>2. /\ metaFile' = TRUE /\ metaFile = FALSE /\ underflow' = underflow /\ wiping' = wiping
          /\ valid' = valid
      BY <1>2, Zenon DEF BootCreate, history, TableOK
    <2>6. TableOK'
      BY <2>1, <2>2 DEF TableOK
    <2>7. FlashCounts' /\ MemoryCounts'
      BY <2>1, <2>2 DEF FlashCounts, MemoryCounts, Between
    <2>8. NewTable' /\ IndicesUsed'
      BY <2>1, <2>2 DEF NewTable, IndicesUsed, Between
    <2>9. Opening' /\ Searching' /\ FilesListed'
      BY <2>1, <2>2 DEF Opening, Searching, FilesListed
    <2> QED BY <2>6, <2>7, <2>8, <2>9
  <1>3. CASE BootWrite
    <2>1. /\ pc = "create" /\ pc' = "idle" /\ meta' = WriteHeader(meta, <<0, 0>>)
          /\ header' = <<0, 0>> /\ files' = files /\ session' = session /\ entry' = entry
      BY <1>3 DEF BootWrite
    <2>2. /\ valid' = TRUE /\ metaFile' = metaFile /\ metaFile = TRUE /\ underflow' = FALSE
          /\ wiping' = (wiping /\ DOMAIN files # {})
      BY <1>3, <2>1, Zenon DEF BootWrite, TableOK, NewTable
    <2>3. wiping' \in BOOLEAN /\ (wiping' = FALSE => wiping = FALSE \/ DOMAIN files = {})
      BY <2>2, Zenon DEF TableOK
    <2>4. meta = << >> /\ (wiping' = FALSE => DOMAIN files = {})
      BY <2>1, <2>3 DEF NewTable
    <2>5. meta' = <<<<0, 0>>>>
      BY <2>1, <2>4 DEF WriteHeader
    <2>6. TableOK'
      <3>1. meta' \in Seq(Nat \X Nat) /\ header' \in Nat \X Nat
        BY <2>1, <2>5
      <3> QED BY <2>1, <2>2, <2>3, <3>1 DEF TableOK
    <2>7. FlashCounts' /\ MemoryCounts'
      <3>1. meta' # << >> /\ Len(meta') = 1 /\ meta'[1] = <<0, 0>> /\ 0 <= MaxSessions
        BY <2>5, BoundsAssumption
      <3>2. <<0, 0>>[1] = 0 /\ <<0, 0>>[2] = 0
        OBVIOUS
      <3>3. FlashCounts'
        BY <2>2, <3>1, <3>2 DEF FlashCounts
      <3>4. MemoryCounts'
        BY <2>1, <2>2, <3>1 DEF MemoryCounts
      <3> QED BY <3>3, <3>4
    <2>8. NewTable' /\ IndicesUsed'
      BY <2>1, <2>2, <2>4, <2>5 DEF NewTable, IndicesUsed, Between
    <2>9. Opening' /\ Searching' /\ FilesListed'
      BY <2>1, <2>2, <2>4 DEF Opening, Searching, FilesListed
    <2> QED BY <2>6, <2>7, <2>8, <2>9
  <1>4. CASE Crash
    <2>1. /\ meta' = meta /\ files' = files /\ session' = Closed /\ entry' = <<0, 0>>
          /\ header' = <<0, 0>> /\ pc' = "off"
      BY <1>4 DEF Crash, flash
    <2>2. /\ metaFile' = metaFile /\ underflow' = underflow /\ wiping' = wiping /\ valid' = FALSE
      BY <1>4, Zenon DEF Crash, flash
    <2>6. TableOK'
      <3>1. header' \in Nat \X Nat /\ entry' \in Nat \X Nat
        BY <2>1
      <3>2. "index" \in DOMAIN session'
        BY <2>1 DEF Closed
      <3> QED BY <2>1, <2>2, <3>1, <3>2 DEF TableOK
    <2>7. FlashCounts' /\ MemoryCounts'
      BY <2>1, <2>2 DEF FlashCounts, MemoryCounts, Between
    <2>8. NewTable' /\ IndicesUsed'
      BY <2>1, <2>2 DEF NewTable, IndicesUsed, Between
    <2>9. Opening' /\ Searching' /\ FilesListed'
      BY <2>1, <2>2 DEF Opening, Searching, FilesListed
    <2> QED BY <2>6, <2>7, <2>8, <2>9
  <1> QED BY <1>1, <1>2, <1>3, <1>4

\* The steps of a reformat.
LEMMA ReformatsIInv == ASSUME IInv, Reformat \/ Unlink PROVE IInv'
PROOF
  <1> USE DEF IInv, TableOK, FlashCounts, MemoryCounts, NewTable, IndicesUsed, Opening, Searching,
              FilesListed, Between
  <1>1. CASE Reformat
    BY <1>1 DEF Reformat, flash, history
  <1>2. CASE Unlink
    <2>1. /\ pc = "reformat" /\ pc' = pc /\ header' = header /\ entry' = entry
          /\ session' = session
      BY <1>2 DEF Unlink, caller
    <2>2. valid' = valid /\ underflow' = underflow /\ wiping' = wiping /\ wiping = TRUE
      BY <1>2, <2>1, Zenon DEF Unlink, history
    <2>3. CASE metaFile /\ metaFile' = FALSE /\ meta' = << >> /\ UNCHANGED files
      <3>1. meta' \in Seq(Nat \X Nat)
        BY <2>3
      <3> QED BY <2>1, <2>2, <2>3, <3>1
    <2>4. CASE \E s \in DOMAIN files : files' = Without(s) /\ UNCHANGED <<meta, metaFile>>
      <3>1. meta' = meta /\ DOMAIN files' \subseteq DOMAIN files
        BY <2>4 DEF Without
      <3>2. metaFile' = metaFile
        BY <2>4, Zenon
      <3> QED BY <2>1, <2>2, <3>1, <3>2
    <2> QED BY <1>2, <2>3, <2>4 DEF Unlink
  <1> QED BY <1>1, <1>2

\* The steps that open a session.
LEMMA OpensIInv == ASSUME IInv, OpenSession \/ OpenFile \/ OpenFails PROVE IInv'
PROOF
  <1> USE DEF IInv
  <1>1. CASE OpenSession
    <2>1. header[1] \in Nat /\ header[1] < MaxSessions /\ header[2] \in Nat /\ MaxSessions \in Nat
          /\ Slots > 2 * MaxSessions + 4 /\ Slots \in Nat \ {0}
      BY <1>1, SlotsAssumption, BoundsAssumption DEF OpenSession, TableOK
    <2>2. Pushed(header) \in Nat \X Nat /\ Pushed(header)[1] = header[1] + 1
      <3>1. (header[1] + 1) % Slots = header[1] + 1
        BY <2>1, BelowSlots
      <3>2. (header[2] + 1) % Slots \in Nat
        BY <2>1, SMTT(30)
      <3> QED BY <2>1, <3>1, <3>2 DEF Pushed
    <2>3. /\ meta' = Append(WriteHeader(meta, Pushed(header)), <<header[1], 0>>)
          /\ header' = Pushed(header) /\ pc' = "opening" /\ pc = "idle"
          /\ session' = [session EXCEPT !.index = header[1]]
          /\ files' = files /\ entry' = entry
      BY <1>1 DEF OpenSession
    <2>4. /\ valid = TRUE /\ valid' = valid /\ metaFile' = metaFile /\ underflow' = underflow
          /\ wiping' = wiping
      BY <1>1, Zenon DEF OpenSession, history, TableOK
    <2>5. ASSUME underflow = FALSE
          PROVE  Pushed(header)[2] = header[2] + 1 /\ header[2] = Len(meta) - 1
                 /\ meta # << >> /\ header = meta[1] /\ header[2] <= header[1]
      <3>1. meta # << >> /\ header = meta[1] /\ header[2] = Len(meta) - 1
            /\ header[2] <= header[1]
        BY <2>3, <2>4, <2>5 DEF MemoryCounts, FlashCounts, Between
      <3>2. header[2] + 1 \in Nat /\ header[2] + 1 < Slots
        BY <2>1, <3>1
      <3>3. (header[2] + 1) % Slots = header[2] + 1
        BY <3>2, BelowSlots
      <3> QED BY <3>1, <3>3 DEF Pushed
    <2>6. /\ meta' \in Seq(Nat \X Nat) /\ meta' # << >> /\ meta'[1] = Pushed(header)
          /\ meta # << >> => Len(meta') = Len(meta) + 1
          /\ Listed(meta') = Listed(meta) \cup {header[1]}
      <3> DEFINE p == Pushed(header)
                 e == <<header[1], 0>>
      <3>1. e \in Nat \X Nat /\ e[1] = header[1] /\ p \in Nat \X Nat /\ meta \in Seq(Nat \X Nat)
        BY <2>1, <2>2 DEF TableOK
      <3>2. meta' = Append(WriteHeader(meta, p), e)
        BY <2>3
      <3> HIDE DEF p, e
      <3>3. \A h, x \in Nat \X Nat : \A a : a = Append(WriteHeader(meta, h), x) =>
              /\ a \in Seq(Nat \X Nat) /\ a # << >> /\ a[1] = h
              /\ meta # << >> => Len(a) = Len(meta) + 1
              /\ \A s : s \in Listed(a) <=> s \in Listed(meta) \/ s = x[1]
        BY <3>1, PushFacts
      <3>4. /\ meta' \in Seq(Nat \X Nat) /\ meta' # << >> /\ meta'[1] = p
            /\ meta # << >> => Len(meta') = Len(meta) + 1
            /\ Listed(meta') = Listed(meta) \cup {e[1]}
        <4>1. /\ meta' \in Seq(Nat \X Nat) /\ meta' # << >> /\ meta'[1] = p
              /\ meta # << >> => Len(meta') = Len(meta) + 1
          BY <3>1, <3>2, <3>3
        <4>2. \A s : s \in Listed(meta') <=> s \in Listed(meta) \/ s = e[1]
          BY <3>1, <3>2, <3>3, Zenon
        <4> QED BY <4>1, <4>2
      <3> USE DEF p
      <3> QED BY <3>1, <3>4
    <2>7. session'.index = header[1] /\ "index" \in DOMAIN session'
      BY <2>3 DEF TableOK
    <2>8. meta # << >> => Len(meta) \in Nat
      BY HasHeader
    <2>9. TableOK'
      BY <2>2, <2>3, <2>4, <2>6, <2>7 DEF TableOK
    <2>10. FlashCounts'
      <3>1. ASSUME underflow = FALSE
            PROVE  /\ meta'[1][2] = Len(meta') - 1 /\ Len(meta') - 1 <= meta'[1][1] /\ meta'[1][1] <= MaxSessions
        <4>1. /\ Len(meta') = Len(meta) + 1 /\ Len(meta) \in Nat /\ meta'[1][2] = header[2] + 1
              /\ meta'[1][1] = header[1] + 1 /\ header[2] = Len(meta) - 1 /\ header[2] <= header[1]
          BY <2>2, <2>5, <2>6, <2>8, <3>1
        <4> QED BY <2>1, <4>1
      <3> QED BY <2>3, <2>4, <3>1 DEF FlashCounts
    <2>11. MemoryCounts'
      BY <2>3, <2>4, <2>6 DEF MemoryCounts, Between
    <2>12. NewTable'
      BY <2>3, <2>4, <2>6 DEF NewTable, Between
    <2>13. IndicesUsed'
      <3>1. ASSUME wiping = FALSE, NEW s \in DOMAIN files PROVE s \in Nat /\ s < header[1] + 1
        <4>1. s \in Nat
          BY DEF TableOK
        <4>2. s < header[1]
          BY <2>3, <2>4, <3>1 DEF IndicesUsed, Between
        <4> QED BY <2>1, <4>1, <4>2
      <3>2. header'[1] = header[1] + 1 /\ meta'[1][1] = header[1] + 1
            /\ session'.index < header[1] + 1
        BY <2>1, <2>2, <2>3, <2>6, <2>7
      <3> QED BY <2>3, <2>4, <3>1, <3>2 DEF IndicesUsed
    <2>14. Opening'
      <3>1. wiping = FALSE => header[1] \notin DOMAIN files
        BY <2>1, <2>3, <2>4 DEF IndicesUsed, Between
      <3> QED BY <2>1, <2>3, <2>4, <2>6, <2>7, <3>1 DEF Opening
    <2>15. Searching' /\ FilesListed'
      BY <2>3, <2>4, <2>6 DEF Searching, FilesListed
    <2> QED BY <2>9, <2>10, <2>11, <2>12, <2>13, <2>14, <2>15
  <1>2. CASE OpenFile
    <2>1. DOMAIN files' = DOMAIN files \cup {session.index}
      BY <1>2 DEF OpenFile, WithFile
    <2>2. /\ pc = "opening" /\ pc' = "idle" /\ meta' = meta /\ header' = header /\ entry' = entry
      BY <1>2 DEF OpenFile
    <2>3. valid' = valid /\ metaFile' = metaFile /\ underflow' = underflow /\ wiping' = wiping
      BY <1>2, Zenon DEF OpenFile, history
    <2>4. "index" \in DOMAIN session'
      BY <1>2 DEF OpenFile, Closed
    <2>5. TableOK'
      BY <2>1, <2>2, <2>3, <2>4 DEF TableOK, Opening
    <2>6. FlashCounts' /\ MemoryCounts'
      BY <2>2, <2>3 DEF FlashCounts, MemoryCounts, Between
    <2>7. NewTable' /\ IndicesUsed'
      BY <2>1, <2>2, <2>3 DEF NewTable, IndicesUsed, Between, MemoryCounts
    <2>8. Opening' /\ Searching' /\ FilesListed'
      BY <2>1, <2>2, <2>3 DEF Opening, Searching, FilesListed
    <2> QED BY <2>5, <2>6, <2>7, <2>8
  <1>3. CASE OpenFails
    BY <1>3 DEF OpenFails, Closed, TableOK, FlashCounts, MemoryCounts, NewTable, IndicesUsed,
                Opening, Searching, FilesListed, Between, flash, history
  <1> QED BY <1>1, <1>2, <1>3

-----------------------------------------------------------------------------

\* While a table is valid and its count did not run below zero, the count is right.
LEMMA CountRight ==
  ASSUME IInv, valid = TRUE, underflow = FALSE, Between
  PROVE  /\ meta # << >> /\ header = meta[1] /\ Len(meta) \in Nat \ {0}
         /\ header[1] \in Nat /\ header[2] \in Nat
         /\ header[2] = Len(meta) - 1 /\ header[2] + 1 < Slots
PROOF
  <1>1. meta # << >> /\ header = meta[1]
    BY DEF IInv, MemoryCounts
  <1>2. header[2] = Len(meta) - 1 /\ Len(meta) - 1 <= header[1] /\ header[1] <= MaxSessions
    BY <1>1 DEF IInv, FlashCounts
  <1>3. Len(meta) \in Nat \ {0} /\ header[1] \in Nat /\ header[2] \in Nat
    BY <1>1, HasHeader DEF IInv
  <1>4. header[2] + 1 < Slots
    BY <1>2, <1>3, SlotsAssumption, BoundsAssumption
  <1> QED BY <1>1, <1>2, <1>3, <1>4

\* A step that leaves the table, the names of the files and what is valid, between
\* two operations.
LEMMA KeepsTable ==
  ASSUME IInv, UNCHANGED <<meta, metaFile, header, valid, entry, underflow, wiping>>,
         DOMAIN files' = DOMAIN files, "index" \in DOMAIN session',
         pc = "idle", pc' = "idle"
  PROVE  IInv'
BY DEF IInv, TableOK, FlashCounts, MemoryCounts, NewTable, IndicesUsed, Opening, Searching,
       FilesListed, Between

\* The steps of an open session.
LEMMA RunsIInv ==
  ASSUME IInv,
         SetSessionTime(1) \/ (\E size \in Sizes : PutBytes(size)) \/ CloseSession
  PROVE  IInv'
PROOF
  <1>1. CASE SetSessionTime(1)
    <2> DEFINE n == [i \in 1 .. Len(meta) |->
                       IF i > 1 /\ meta[i][1] = session.index THEN <<session.index, 1>>
                       ELSE meta[i]]
    <2>1. /\ meta' = n /\ pc = "idle" /\ pc' = "idle" /\ header' = header /\ files' = files
          /\ entry' = entry /\ session' = [session EXCEPT !.timeSet = TRUE]
      BY <1>1 DEF SetSessionTime, caller
    <2>2. valid' = valid /\ metaFile' = metaFile /\ underflow' = underflow /\ wiping' = wiping
      BY <1>1, Zenon DEF SetSessionTime, history
    <2>3. meta \in Seq(Nat \X Nat) /\ Len(meta) \in Nat
      BY DEF IInv, TableOK
    <2>4. /\ n \in Seq(Nat \X Nat) /\ Len(n) = Len(meta)
          /\ \A i \in 1 .. Len(meta) : n[i] \in Nat \X Nat /\ n[i][1] = meta[i][1]
          /\ meta # << >> => n[1] = meta[1]
      <3>1. \A i \in 1 .. Len(meta) : meta[i] \in Nat \X Nat
        BY <2>3
      <3>2. \A i \in 1 .. Len(meta) : n[i] \in Nat \X Nat /\ n[i][1] = meta[i][1]
        BY <2>3, <3>1
      <3> QED BY <2>3, <3>2
    <2> HIDE DEF n
    <2>5. \A s : s \in Listed(n) <=> s \in Listed(meta)
      <3>1. Listed(n) = {n[i][1] : i \in 2 .. Len(meta)}
        BY <2>4 DEF Listed
      <3>2. \A i \in 2 .. Len(meta) : n[i][1] = meta[i][1]
        BY <2>3, <2>4
      <3> QED BY <3>1, <3>2 DEF Listed
    <2>6. (n = << >> <=> meta = << >>) /\ "index" \in DOMAIN session'
      BY <2>1, <2>3, <2>4 DEF IInv, TableOK
    <2>7. TableOK' /\ FlashCounts' /\ MemoryCounts' /\ NewTable'
      BY <2>1, <2>2, <2>4, <2>6 DEF IInv, TableOK, FlashCounts, MemoryCounts, NewTable, Between
    <2>8. IndicesUsed' /\ Opening' /\ Searching' /\ FilesListed'
      BY <2>1, <2>2, <2>4, <2>5, <2>6
         DEF IInv, IndicesUsed, Opening, Searching, FilesListed, Between
    <2> QED BY <2>7, <2>8 DEF IInv
  <1>2. ASSUME NEW size \in Sizes, PutBytes(size) PROVE IInv'
    <2>1. /\ pc = "idle" /\ pc' = "idle" /\ UNCHANGED <<meta, header, entry>>
          /\ DOMAIN files' = DOMAIN files /\ "index" \in DOMAIN session'
      BY <1>2 DEF PutBytes, Flush, caller, IInv, TableOK
    <2>2. UNCHANGED <<valid, metaFile, underflow, wiping>>
      BY <1>2, Zenon DEF PutBytes
    <2> QED BY <2>1, <2>2, KeepsTable
  <1>3. CASE CloseSession
    <2>1. /\ pc = "idle" /\ pc' = "idle" /\ UNCHANGED <<meta, header, entry>>
          /\ DOMAIN files' = DOMAIN files /\ "index" \in DOMAIN session'
      BY <1>3 DEF CloseSession, Flush, caller, Closed
    <2>2. UNCHANGED <<valid, metaFile, underflow, wiping>>
      BY <1>3, Zenon DEF CloseSession
    <2> QED BY <2>1, <2>2, KeepsTable
  <1> QED BY <1>1, <1>2, <1>3

\* The steps that begin a search, or leave one with the table as it is.
LEMMA SearchesIInv ==
  ASSUME IInv, GetLastPacket \/ SearchGet \/ PublishFail \/ Publish
  PROVE  IInv'
PROOF
  <1>1. /\ UNCHANGED <<meta, header, files, session>>
        /\ pc \in {"idle", "search", "publish"}
        /\ pc' \in {"search", "publish", "idle"}
        /\ pc' \in {"search", "publish"} => \/ pc = "idle" /\ header[2] >= 1
                                            \/ pc \in {"search", "publish"}
    BY DEF GetLastPacket, SearchGet, PublishFail, Publish, flash
  <1>2. UNCHANGED <<metaFile, valid, underflow, wiping>>
    BY Zenon DEF GetLastPacket, SearchGet, PublishFail, Publish, flash, history
  <1>3. \/ entry' = Peek(meta, header, entry)
        \/ entry' = entry /\ pc' # "search"
    BY DEF GetLastPacket, SearchGet, PublishFail, Publish
  <1>4. pc' \in {"search", "publish"} => valid = TRUE
    <2>1. ASSUME pc = "idle", header[2] >= 1 PROVE valid = TRUE
      <3>1. valid = FALSE => header = <<0, 0>>
        BY DEF IInv, MemoryCounts
      <3>2. valid # FALSE
        <4>1. header # <<0, 0>>
          BY <2>1
        <4> QED BY <3>1, <4>1, Zenon
      <3>3. valid \in BOOLEAN
        BY DEF IInv, TableOK
      <3> QED BY <3>2, <3>3, Zenon
    <2> QED BY <1>1, <2>1 DEF IInv, MemoryCounts
  <1>5. meta \in Seq(Nat \X Nat) /\ header \in Nat \X Nat /\ entry \in Nat \X Nat
    BY DEF IInv, TableOK
  <1>6. entry' \in Nat \X Nat
    BY <1>3, <1>5, PeekFacts
  <1>7. ASSUME underflow = FALSE, pc' = "search" PROVE entry' = meta[Len(meta)]
    <2>1. meta # << >> /\ header[2] = Len(meta) - 1 /\ header[2] \in Nat /\ header[2] + 1 < Slots
      BY <1>1, <1>4, <1>7, CountRight DEF Between
    <2>2. header[2] < Slots
      BY <2>1, SlotsAssumption
    <2> QED BY <1>3, <1>5, <1>7, <2>1, <2>2, PeekFacts
  <1>8. TableOK' /\ FlashCounts' /\ MemoryCounts' /\ NewTable'
    BY <1>1, <1>2, <1>4, <1>6
       DEF IInv, TableOK, FlashCounts, MemoryCounts, NewTable, Between
  <1>9. IndicesUsed' /\ Opening' /\ Searching' /\ FilesListed'
    BY <1>1, <1>2, <1>7 DEF IInv, IndicesUsed, Opening, Searching, FilesListed, Between
  <1> QED BY <1>8, <1>9 DEF IInv

\* The steps of a search that change or remove a file.
LEMMA RemovesIInv == ASSUME IInv, SearchRemove \/ SearchPop PROVE IInv'
PROOF
  <1>1. /\ UNCHANGED <<meta, header, session, entry>>
        /\ pc = "search" /\ pc' \in {"search", "removed", "idle"}
        /\ DOMAIN files' \subseteq DOMAIN files
        /\ pc' = "removed" => entry[1] \notin DOMAIN files'
    BY DEF SearchRemove, SearchPop, Without, WithFile, Found, caller
  <1>2. UNCHANGED <<metaFile, valid, underflow, wiping>>
    BY Zenon DEF SearchRemove, SearchPop, history
  <1>3. TableOK' /\ FlashCounts' /\ MemoryCounts' /\ NewTable'
    BY <1>1, <1>2 DEF IInv, TableOK, FlashCounts, MemoryCounts, NewTable, Between
  <1>4. IndicesUsed' /\ Opening' /\ Searching' /\ FilesListed'
    BY <1>1, <1>2 DEF IInv, IndicesUsed, Opening, Searching, FilesListed, Between
  <1> QED BY <1>3, <1>4 DEF IInv

\* What popping the last entry does to the table: its header and the one in memory
\* stay the same, and the entry is cut off unless the count was zero.
LEMMA PopMetadataFacts ==
  ASSUME IInv, PopMetadata, pc \in {"search", "removed"}
  PROVE  /\ meta' \in Seq(Nat \X Nat) /\ header' \in Nat \X Nat
         /\ underflow' \in BOOLEAN
         /\ header'[1] = header[1]
         /\ meta' # << >> => meta'[1] = header'
         /\ underflow' = FALSE =>
              /\ underflow = FALSE
              /\ meta' # << >> /\ Len(meta') \in Nat /\ header'[2] = Len(meta') - 1
              /\ header'[2] < Slots /\ Len(meta') - 1 <= header'[1] /\ header'[1] <= MaxSessions
              /\ TruncateOK(WriteHeader(meta, header'), header')
              /\ \A s : s \in Listed(meta) => s \in Listed(meta') \/ s = meta[Len(meta)][1]
PROOF
  <1>1. /\ meta \in Seq(Nat \X Nat) /\ header \in Nat \X Nat /\ valid = TRUE /\ Between
        /\ header[1] \in Nat /\ header[2] \in Nat
    BY DEF IInv, TableOK, MemoryCounts, Between
  <1>2. header' = Popped(header) /\ meta' = PopFile(meta, header')
    BY DEF PopMetadata
  <1>3. underflow' = (underflow \/ header[2] = 0)
    BY Zenon DEF PopMetadata
  <1>4. underflow' \in BOOLEAN /\ (underflow' = FALSE => underflow = FALSE /\ header[2] # 0)
    <2>1. underflow \in BOOLEAN
      BY DEF IInv, TableOK
    <2> QED BY <1>3, <2>1, Zenon
  <1>5. header' \in Nat \X Nat /\ header'[1] = header[1] /\ header'[2] = (header[2] - 1) % Slots
    <2>1. Slots \in Nat \ {0}
      BY SlotsAssumption, BoundsAssumption
    <2>2. (header[2] - 1) % Slots \in Nat
      BY <1>1, <2>1, SMTT(30)
    <2> QED BY <1>1, <1>2, <2>2 DEF Popped
  <1>6. meta' \in Seq(Nat \X Nat) /\ (meta' # << >> => meta'[1] = header')
    BY <1>1, <1>2, <1>5, PopTyped
  <1>7. ASSUME underflow' = FALSE
        PROVE  /\ meta' # << >> /\ Len(meta') \in Nat /\ header'[2] = Len(meta') - 1
               /\ header'[2] < Slots /\ Len(meta') - 1 <= header'[1] /\ header'[1] <= MaxSessions
               /\ TruncateOK(WriteHeader(meta, header'), header')
               /\ \A s : s \in Listed(meta) => s \in Listed(meta') \/ s = meta[Len(meta)][1]
    <2>1. /\ meta # << >> /\ header = meta[1] /\ Len(meta) \in Nat \ {0}
          /\ header[2] = Len(meta) - 1 /\ header[2] + 1 < Slots /\ header[2] # 0
      BY <1>1, <1>4, <1>7, CountRight
    <2>2. Len(meta) - 1 <= header[1] /\ header[1] <= MaxSessions
      BY <1>4, <1>7, <2>1 DEF IInv, FlashCounts
    <2>3. header[2] - 1 \in Nat /\ header[2] - 1 < Slots /\ Slots \in Nat
      <3>1. \A k \in Nat : k # 0 /\ k + 1 < Slots => k - 1 \in Nat /\ k - 1 < Slots
        BY SlotsAssumption
      <3> QED BY <1>1, <2>1, <3>1, SlotsAssumption
    <2>4. header'[2] = header[2] - 1
      BY <1>5, <2>3, BelowSlots
    <2>5. header'[2] = Len(meta) - 2 /\ header'[2] + 1 < Slots
      BY <2>1, <2>3, <2>4
    <2> DEFINE h == header'
    <2>6. h \in Nat \X Nat /\ h[2] = Len(meta) - 2 /\ h[2] + 1 < Slots /\ meta' = PopFile(meta, h)
      BY <1>2, <1>5, <2>5
    <2> HIDE DEF h
    <2>7. /\ Len(meta') = Len(meta) - 1 /\ meta' # << >>
          /\ TruncateOK(WriteHeader(meta, h), h)
          /\ Listed(meta) = Listed(PopFile(meta, h)) \cup {meta[Len(meta)][1]}
      BY <1>1, <2>1, <2>6, PopFacts
    <2>8. \A s : s \in Listed(meta) => s \in Listed(PopFile(meta, h)) \/ s = meta[Len(meta)][1]
      BY <2>7
    <2> USE DEF h
    <2>9. \A s : s \in Listed(meta) => s \in Listed(meta') \/ s = meta[Len(meta)][1]
      BY <1>2, <2>8
    <2>10. /\ Len(meta') \in Nat /\ header'[2] = Len(meta') - 1 /\ header'[2] < Slots
           /\ Len(meta') - 1 <= header'[1] /\ header'[1] <= MaxSessions
      BY <1>5, <2>1, <2>2, <2>3, <2>4, <2>7
    <2> QED BY <2>7, <2>9, <2>10
  <1> QED BY <1>4, <1>5, <1>6, <1>7

\* The steps that pop the last entry.
LEMMA PopsIInv == ASSUME IInv, SearchSkip \/ PopEntry PROVE IInv'
PROOF
  <1>1. /\ PopMetadata /\ files' = files /\ session' = session
        /\ pc \in {"search", "removed"} /\ pc' \in {"search", "idle"}
    BY DEF SearchSkip, PopEntry
  <1>2. valid = TRUE /\ valid' = valid /\ metaFile' = metaFile /\ wiping' = wiping
    BY <1>1, Zenon DEF SearchSkip, PopEntry, IInv, MemoryCounts
  <1>3. /\ meta' \in Seq(Nat \X Nat) /\ header' \in Nat \X Nat
        /\ underflow' \in BOOLEAN /\ header'[1] = header[1]
        /\ meta' # << >> => meta'[1] = header'
    BY <1>1, PopMetadataFacts
  <1>4. ASSUME underflow' = FALSE
        PROVE  /\ underflow = FALSE
               /\ meta' # << >> /\ Len(meta') \in Nat /\ header'[2] = Len(meta') - 1
               /\ header'[2] < Slots /\ Len(meta') - 1 <= header'[1] /\ header'[1] <= MaxSessions
               /\ TruncateOK(WriteHeader(meta, header'), header')
               /\ \A s : s \in Listed(meta) => s \in Listed(meta') \/ s = meta[Len(meta)][1]
    BY <1>1, <1>4, PopMetadataFacts
  <1>5. \/ entry' = Peek(meta', header', entry) /\ pc' = "search"
        \/ entry' = entry /\ pc' = "idle"
    BY DEF SearchSkip, PopEntry
  <1>6. entry' \in Nat \X Nat
    <2>1. entry \in Nat \X Nat
      BY DEF IInv, TableOK
    <2>2. Peek(meta', header', entry) \in Nat \X Nat
      BY <1>3, <2>1, PeekFacts
    <2> QED BY <1>5, <2>1, <2>2
  <1>7. ASSUME underflow' = FALSE, pc' = "search" PROVE entry' = meta'[Len(meta')]
    <2>1. entry \in Nat \X Nat
      BY DEF IInv, TableOK
    <2>2. Peek(meta', header', entry) = meta'[Len(meta')]
      BY <1>3, <1>4, <1>7, <2>1, PeekFacts
    <2> QED BY <1>5, <1>7, <2>2
  <1>8. underflow' = FALSE => entry = meta[Len(meta)] /\ entry[1] \notin DOMAIN files
    BY <1>1, <1>4 DEF IInv, Searching, SearchSkip, PopEntry, Found
  <1>9. TableOK'
    BY <1>1, <1>2, <1>3, <1>6 DEF IInv, TableOK
  <1>10. FlashCounts' /\ MemoryCounts'
    BY <1>1, <1>2, <1>3, <1>4 DEF FlashCounts, MemoryCounts, Between
  <1>11. NewTable' /\ IndicesUsed'
    <2>1. metaFile = TRUE /\ pc' \notin {"create", "reformat", "opening"} /\ Between
      BY <1>1, <1>2 DEF IInv, NewTable, Between
    <2>2. wiping = FALSE => \A s \in DOMAIN files : s < header[1]
      BY <1>2, <2>1 DEF IInv, IndicesUsed
    <2>3. NewTable'
      BY <1>1, <1>2, <2>1 DEF NewTable
    <2>4. IndicesUsed'
      BY <1>1, <1>2, <1>3, <2>1, <2>2 DEF IndicesUsed
    <2> QED BY <2>3, <2>4
  <1>12. Opening' /\ Searching'
    BY <1>1, <1>7 DEF Opening, Searching
  <1>13. FilesListed'
    <2>1. ASSUME wiping = FALSE, underflow' = FALSE, NEW s \in DOMAIN files
          PROVE  s \in Listed(meta')
      <3>1. s \in Listed(meta)
        BY <1>4, <2>1 DEF IInv, FilesListed
      <3>2. s # meta[Len(meta)][1]
        BY <1>8, <2>1
      <3> QED BY <1>4, <2>1, <3>1, <3>2
    <2>2. (~wiping' => wiping = FALSE) /\ (~underflow' => underflow' = FALSE)
      BY <1>2, <1>3, Zenon DEF IInv, TableOK
    <2> QED BY <1>1, <2>1, <2>2 DEF FilesListed
  <1> QED BY <1>9, <1>10, <1>11, <1>12, <1>13 DEF IInv

\* Every step preserves the invariant.
LEMMA NextIInv == IInv /\ [Next]_vars => IInv'
PROOF
  <1> SUFFICES ASSUME IInv, [Next]_vars PROVE IInv'
    OBVIOUS
  <1>1. CASE UNCHANGED vars
    BY <1>1 DEF vars, flash, caller, history, IInv, TableOK, FlashCounts, MemoryCounts, NewTable,
                IndicesUsed, Opening, Searching, FilesListed, Between
  <1>2. CASE Boot \/ BootCreate \/ BootWrite \/ Crash
    BY <1>2, BootsIInv
  <1>3. CASE Reformat \/ Unlink
    BY <1>3, ReformatsIInv
  <1>4. CASE OpenSession \/ OpenFile \/ OpenFails
    BY <1>4, OpensIInv
  <1>5. CASE SetSessionTime(1) \/ (\E size \in Sizes : PutBytes(size)) \/ CloseSession
    BY <1>5, RunsIInv
  <1>6. CASE GetLastPacket \/ SearchGet \/ PublishFail \/ Publish
    BY <1>6, SearchesIInv
  <1>7. CASE SearchRemove \/ SearchPop
    BY <1>7, RemovesIInv
  <1>8. CASE SearchSkip \/ PopEntry
    BY <1>8, PopsIInv
  <1> QED BY <1>1, <1>2, <1>3, <1>4, <1>5, <1>6, <1>7, <1>8 DEF Next, Search

-----------------------------------------------------------------------------

\* The invariant of the table (recorder.cpp, deploy.cpp), for any packet size, any
\* number of sessions, records and crashes.
THEOREM Inductive == Spec => []IInv
PROOF
  <1> QED BY InitIInv, NextIInv, PTL DEF Spec

\* Whenever the device stops, each data file is listed: the order of the writes of
\* openSession() and popLastPacket() leaves no orphan, but after a reformat() cut
\* short or a count that ran below zero.
THEOREM NoOrphans == Spec => []FilesListed
PROOF
  <1>1. IInv => FilesListed
    BY DEF IInv
  <1> QED BY <1>1, Inductive, PTL

\* openSession() never opens the file of an earlier session.
THEOREM SessionsFresh == Spec => []FreshSession
PROOF
  <1>1. IInv => FreshSession
    BY DEF IInv, TableOK, Opening, FreshSession
  <1> QED BY <1>1, Inductive, PTL

\* The header in memory, the one on flash and the number of entries agree, until a
\* search runs past the first entry.
THEOREM CountsAgree == Spec => []CountAgrees
PROOF
  <1>1. IInv => CountAgrees
    <2> SUFFICES ASSUME IInv, valid, ~underflow, Between
                 PROVE  header = meta[1] /\ header[2] = Len(meta) - 1
      BY DEF CountAgrees, Between
    <2>1. valid = TRUE /\ underflow = FALSE
      BY Zenon DEF IInv, TableOK
    <2> QED BY <2>1, CountRight
  <1> QED BY <1>1, Inductive, PTL

-----------------------------------------------------------------------------
(***************************************************************************)
(* The data files.  Every file is a row of packets, each of which was      *)
(* recorded; a session writes at its end.  Packets are compared as the     *)
(* pieces of a file between multiples of the packet size.                  *)
(***************************************************************************)

Sessions == [open : BOOLEAN, index : Nat, pos : Nat, buffer : Seq(Byte), timeSet : BOOLEAN]

\* The types that the data files rest on.
DataOK ==
  /\ \A s \in DOMAIN files : files[s] \in Seq(Byte)
  /\ header[2] \in 0 .. Slots - 1 /\ (meta # << >> => meta[1][2] \in 0 .. Slots - 1)
  /\ session \in Sessions /\ Len(session.buffer) <= Packet
  /\ pc \in {"off", "create", "idle", "opening", "search", "publish", "removed", "reformat"}
  /\ purpose \in {"get", "pop"}
  /\ packet \in Seq(Byte) /\ records \in Nat /\ crashes \in Nat

\* A session is written at the end of its file, a whole number of packets from its
\* beginning; at the beginning of what a reformat left, there only.
SessionFile ==
  session.open = TRUE =>
    /\ pc = "idle" /\ valid = TRUE
    /\ session.index \in DOMAIN files
    /\ session.pos <= Len(files[session.index])
    /\ \E m \in Nat : session.pos = m * Packet
    /\ wiping = FALSE => session.pos = Len(files[session.index])

\* The buffer and every packet hold whole records; no byte of the buffer is padding.
RecordsWhole ==
  /\ Whole(session.buffer) /\ \A i \in 1 .. Len(session.buffer) : session.buffer[i] # Pad
  /\ \A p \in recorded : Whole(p)

\* The uploader holds a packet only while it publishes and pops it.
Holding ==
  /\ pc \notin {"search", "publish"} => packet = << >>
  /\ wiping = FALSE => packet = << >> \/ packet \in recorded

\* Nothing is recorded without a table.
NoTable == pc \in {"reformat", "create"} \/ metaFile = FALSE => recorded = {}

\* The files hold nothing that was not recorded.
Contents == wiping = FALSE => \A s \in DOMAIN files : \A p \in Packets(files[s]) : p \in recorded

\* What is published is the last packet of the last entry's file, until it is popped.
LastPublished ==
  /\ underflow = FALSE /\ (pc = "publish" \/ (pc = "search" /\ purpose = "pop")) =>
       /\ entry = meta[Len(meta)] /\ entry[1] \in DOMAIN files /\ files[entry[1]] # << >>
       /\ packet = LastPacket(files[entry[1]])
  /\ pc = "search" /\ purpose = "pop" => packet \in published

\* A packet that is not published is in a file.
Kept ==
  wiping = FALSE /\ underflow = FALSE =>
    \A p \in recorded : p \in published \/ \E s \in DOMAIN files : p \in Packets(files[s])

DataInv ==
  /\ DataOK /\ SessionFile /\ RecordsWhole /\ Holding /\ NoTable /\ Contents /\ LastPublished /\ Kept

-----------------------------------------------------------------------------

\* The piece of a file that begins at its k-th multiple of the packet size.
Piece(f, k) ==
  SubSeq(f, k * Packet + 1, IF (k + 1) * Packet < Len(f) THEN (k + 1) * Packet ELSE Len(f))

\* Multiples of the packet size.
LEMMA Multiples ==
  /\ \A n \in Nat : n % Packet \in 0 .. Packet - 1
  /\ \A n \in Nat : \E m \in Nat : n - (n % Packet) = m * Packet
  /\ \A k \in Nat : k * Packet \in Nat /\ k <= k * Packet /\ (k + 1) * Packet = k * Packet + Packet
  /\ \A k, m \in Nat : k * Packet < m * Packet => (k + 1) * Packet <= m * Packet
  /\ \A k, m \in Nat : m <= k => m * Packet <= k * Packet
PROOF
  <1>1. Packet \in Nat \ {0}
    BY PacketAssumption
  <1>2. ASSUME NEW n \in Nat PROVE n % Packet \in 0 .. Packet - 1
    BY <1>1, SMTT(30)
  <1>3. ASSUME NEW n \in Nat PROVE \E m \in Nat : n - (n % Packet) = m * Packet
    <2> DEFINE q == n \div Packet
               r == n % Packet
    <2>1. q \in Nat /\ r \in Nat
      BY <1>1, SMTT(30)
    <2>2. ASSUME NEW a \in Nat, NEW b \in Nat, a = n \div Packet, b = n % Packet
          PROVE  n = a * Packet + b
      BY <1>1, <2>2, SMTT(30)
    <2>3. n = q * Packet + r
      BY <2>1, <2>2
    <2>4. \A a, b \in Nat : n = a * Packet + b => n - b = a * Packet
      BY <1>1, SMTT(30)
    <2>5. n - r = q * Packet
      BY <2>1, <2>3, <2>4, Zenon
    <2> HIDE DEF q
    <2> QED BY <2>1, <2>5
  <1>4. ASSUME NEW k \in Nat
        PROVE  k * Packet \in Nat /\ k <= k * Packet /\ (k + 1) * Packet = k * Packet + Packet
    BY <1>1, SMTT(30)
  <1>5. ASSUME NEW k \in Nat, NEW m \in Nat, m <= k PROVE m * Packet <= k * Packet
    <2>1. (k - m) * Packet = k * Packet - m * Packet
      BY <1>1, SMTT(30)
    <2>2. k - m \in Nat
      BY <1>5
    <2>3. (k - m) * Packet \in Nat
      BY <1>4, <2>2
    <2>4. k * Packet \in Nat /\ m * Packet \in Nat
      BY <1>4
    <2> QED BY <2>1, <2>3, <2>4
  <1>6. ASSUME NEW k \in Nat, NEW m \in Nat, k * Packet < m * Packet
        PROVE  (k + 1) * Packet <= m * Packet
    <2>1. k + 1 \in Nat /\ (k + 1 <= m \/ m <= k)
      OBVIOUS
    <2>2. ~(m <= k)
      <3>1. k * Packet \in Nat /\ m * Packet \in Nat
        BY <1>4
      <3> QED BY <1>5, <1>6, <3>1
    <2> QED BY <1>5, <2>1, <2>2
  <1> QED BY <1>2, <1>3, <1>4, <1>5, <1>6

\* A file's packets, one by one.
LEMMA PacketIsPiece ==
  ASSUME NEW f \in Seq(Byte), NEW p
  PROVE  p \in Packets(f) <=> \E k \in Nat : k * Packet < Len(f) /\ p = Piece(f, k)
PROOF
  <1>1. Len(f) \in Nat
    OBVIOUS
  <1>2. \A k \in Nat : k * Packet < Len(f) => k \in 0 .. Len(f)
    <2> SUFFICES ASSUME NEW k \in Nat, k * Packet < Len(f) PROVE k \in 0 .. Len(f)
      OBVIOUS
    <2>1. k * Packet \in Nat /\ k <= k * Packet
      BY Multiples
    <2> QED BY <1>1, <2>1
  <1>3. \A k \in 0 .. Len(f) : k \in Nat
    BY <1>1
  <1>4. Packets(f) = {Piece(f, k) : k \in {j \in 0 .. Len(f) : j * Packet < Len(f)}}
    BY DEF Packets, Piece
  <1> QED BY <1>2, <1>3, <1>4, Zenon

\* Equal parts of two files.
LEMMA SameSlice ==
  ASSUME NEW f \in Seq(Byte), NEW g \in Seq(Byte), NEW a \in Nat, NEW c \in Nat, NEW e \in Nat,
         e <= Len(f), c + e - a <= Len(g), a <= e,
         \A i \in a + 1 .. e : f[i] = g[c + i - a]
  PROVE  SubSeq(f, a + 1, e) = SubSeq(g, c + 1, c + e - a)
OBVIOUS

\* What is appended at a multiple of the packet size is a packet, and leaves the others.
LEMMA AppendedPacket ==
  ASSUME NEW f \in Seq(Byte), NEW g \in Seq(Byte), NEW b \in Seq(Byte),
         NEW m \in Nat, Len(f) = m * Packet, Len(b) \in 1 .. Packet,
         Len(g) = Len(f) + Len(b),
         \A i \in 1 .. Len(f) : g[i] = f[i],
         \A i \in 1 .. Len(b) : g[Len(f) + i] = b[i]
  PROVE  \A p : p \in Packets(g) <=> p \in Packets(f) \/ p = b
PROOF
  <1>0. Len(f) \in Nat /\ Len(b) \in Nat /\ Packet \in Nat
    BY PacketAssumption
  <1>1. ASSUME NEW k \in Nat, k * Packet < Len(f)
        PROVE  k * Packet < Len(g) /\ Piece(g, k) = Piece(f, k)
    <2> DEFINE a == k * Packet
               e == (k + 1) * Packet
    <2>1. a \in Nat /\ e \in Nat /\ e = a + Packet /\ e <= Len(f)
      BY <1>0, <1>1, Multiples
    <2>2. Piece(f, k) = SubSeq(f, a + 1, e) /\ Piece(g, k) = SubSeq(g, a + 1, e)
      <3> HIDE DEF a, e
      <3>1. (e < Len(f) \/ e = Len(f)) /\ e < Len(g)
        BY <1>0, <2>1
      <3> USE DEF a, e
      <3> QED BY <3>1 DEF Piece
    <2> HIDE DEF a, e
    <2>3. SubSeq(f, a + 1, e) = SubSeq(g, a + 1, e)
      BY <1>0, <2>1
    <2>4. a < Len(g)
      BY <1>0, <2>1
    <2> USE DEF a
    <2> QED BY <2>2, <2>3, <2>4
  <1>2. ASSUME NEW k \in Nat, k * Packet < Len(g), ~(k * Packet < Len(f))
        PROVE  k = m
    <2>1. /\ k * Packet \in Nat /\ m * Packet \in Nat /\ m + 1 \in Nat
          /\ (m + 1) * Packet \in Nat /\ (m + 1) * Packet = m * Packet + Packet
      <3>1. m + 1 \in Nat
        OBVIOUS
      <3> QED BY <3>1, Multiples, Zenon
    <2>2. k * Packet < (m + 1) * Packet
      <3>1. Len(g) <= m * Packet + Packet
        BY <1>0, <2>1
      <3>2. \A x, y \in Nat : k * Packet = x /\ (m + 1) * Packet = y => x < y
        BY <1>0, <1>2, <2>1, <3>1
      <3> QED BY <2>1, <3>2
    <2>3. ~(m + 1 <= k)
      <3>1. m + 1 <= k => (m + 1) * Packet <= k * Packet
        BY <2>1, Multiples
      <3> QED BY <1>0, <2>1, <2>2, <3>1
    <2>4. ~(k + 1 <= m)
      <3>1. k + 1 <= m => (k + 1) * Packet <= m * Packet
        BY Multiples
      <3>2. (k + 1) * Packet = k * Packet + Packet
        BY Multiples
      <3> QED BY <1>0, <1>2, <2>1, <3>1, <3>2, PacketAssumption
    <2> QED BY <2>3, <2>4
  <1>3. m * Packet < Len(g) /\ Piece(g, m) = b
    <2>1. (m + 1) * Packet = Len(f) + Packet
      BY Multiples
    <2>2. Piece(g, m) = SubSeq(g, Len(f) + 1, Len(g))
      <3>1. (m + 1) * Packet >= Len(g)
        BY <1>0, <2>1
      <3>2. (m + 1) * Packet < Len(g) => FALSE
        BY <1>0, <2>1, <3>1
      <3> QED BY <3>2 DEF Piece
    <2>3. SubSeq(g, Len(f) + 1, Len(g)) = b
      BY <1>0
    <2> QED BY <1>0, <2>2, <2>3
  <1>4. \A k \in Nat : k * Packet < Len(g) <=> k * Packet < Len(f) \/ k = m
    BY <1>1, <1>2, <1>3
  <1> QED BY <1>1, <1>3, <1>4, PacketIsPiece

\* The packets of a file are those that are left when the last is cut off, and that one.
LEMMA LastCutOff ==
  ASSUME NEW f \in Seq(Byte), f # << >>
  PROVE  /\ LastPacket(f) \in Seq(Byte) /\ AllButLast(f) \in Seq(Byte)
         /\ \A p : p \in Packets(f) <=> p \in Packets(AllButLast(f)) \/ p = LastPacket(f)
PROOF
  <1>0. Len(f) \in Nat \ {0} /\ Packet \in Nat \ {0}
    BY PacketAssumption
  <1>1. /\ LastLength(f) \in 1 .. Packet /\ LastLength(f) <= Len(f)
        /\ \E m \in Nat : Len(f) - LastLength(f) = m * Packet
    <2> DEFINE r == Len(f) % Packet
    <2>1. r \in 0 .. Packet - 1 /\ \E m \in Nat : Len(f) - r = m * Packet
      <3>1. \A n \in Nat : n % Packet \in 0 .. Packet - 1
        BY Multiples, Zenon
      <3>2. \A n \in Nat : \E m \in Nat : n - (n % Packet) = m * Packet
        BY Multiples, Zenon
      <3>3. Len(f) \in Nat
        OBVIOUS
      <3> QED BY <3>1, <3>2, <3>3, Zenon
    <2>2. PICK m \in Nat : Len(f) - r = m * Packet
      BY <2>1
    <2>3. LastLength(f) = IF r = 0 THEN Packet ELSE r
      BY DEF LastLength
    <2> HIDE DEF r
    <2>4. CASE r = 0
      <3>1. Len(f) = m * Packet
        BY <1>0, <2>2, <2>4
      <3>2. m # 0
        BY <1>0, <3>1
      <3>3. m - 1 \in Nat
        BY <3>2
      <3>4. (m - 1) * Packet \in Nat /\ (m - 1 + 1) * Packet = (m - 1) * Packet + Packet
        BY <3>3, Multiples
      <3>5. m * Packet = (m - 1) * Packet + Packet
        BY <3>4
      <3> QED BY <1>0, <2>3, <2>4, <3>1, <3>3, <3>4, <3>5
    <2>5. CASE r # 0
      <3>1. m * Packet \in Nat
        BY Multiples
      <3> QED BY <1>0, <2>1, <2>2, <2>3, <2>5, <3>1
    <2> QED BY <2>4, <2>5
  <1> DEFINE n == LastLength(f)
             h == AllButLast(f)
             b == LastPacket(f)
  <1>2. PICK m \in Nat : Len(f) - n = m * Packet
    BY <1>1
  <1>3. n \in 1 .. Packet /\ n <= Len(f) /\ h = SubSeq(f, 1, Len(f) - n)
        /\ b = SubSeq(f, Len(f) - n + 1, Len(f))
    BY <1>1 DEF AllButLast, LastPacket
  <1> HIDE DEF n, h, b
  <1>4. h \in Seq(Byte) /\ Len(h) = Len(f) - n /\ \A i \in 1 .. Len(h) : f[i] = h[i]
    BY <1>0, <1>3
  <1>5. b \in Seq(Byte) /\ Len(b) = n /\ \A i \in 1 .. Len(b) : f[Len(h) + i] = b[i]
    BY <1>0, <1>3, <1>4
  <1>6. Len(f) = Len(h) + Len(b) /\ Len(h) = m * Packet /\ Len(b) \in 1 .. Packet
    BY <1>0, <1>2, <1>3, <1>4, <1>5
  <1>7. \A p : p \in Packets(f) <=> p \in Packets(h) \/ p = b
    BY <1>4, <1>5, <1>6, AppendedPacket
  <1> USE DEF h, b
  <1> QED BY <1>4, <1>5, <1>7

\* An empty file has no packets.
LEMMA NoPackets == Packets(<< >>) = {}
PROOF
  <1>1. << >> \in Seq(Byte) /\ Len(<< >>) = 0
    OBVIOUS
  <1>2. \A k \in Nat : ~(k * Packet < 0)
    <2> SUFFICES ASSUME NEW k \in Nat PROVE ~(k * Packet < 0)
      OBVIOUS
    <2>1. k * Packet \in Nat
      BY Multiples
    <2> QED BY <2>1
  <1>3. \A p : p \notin Packets(<< >>)
    BY <1>1, <1>2, PacketIsPiece
  <1> QED BY <1>3

\* Bytes written at the end of a file, or over what is there.
LEMMA OverlayFacts ==
  ASSUME NEW f \in Seq(Byte), NEW b \in Seq(Byte), NEW pos \in Nat, pos <= Len(f)
  PROVE  /\ Overlay(f, pos, b) \in Seq(Byte) /\ Len(Overlay(f, pos, b)) >= pos + Len(b)
         /\ pos = Len(f) =>
              /\ Len(Overlay(f, pos, b)) = Len(f) + Len(b)
              /\ \A i \in 1 .. Len(f) : Overlay(f, pos, b)[i] = f[i]
              /\ \A i \in 1 .. Len(b) : Overlay(f, pos, b)[Len(f) + i] = b[i]
PROOF
  <1> DEFINE end == IF Len(f) > pos + Len(b) THEN Len(f) ELSE pos + Len(b)
             g == [i \in 1 .. end |-> IF i - pos \in 1 .. Len(b) THEN b[i - pos] ELSE f[i]]
  <1>1. Overlay(f, pos, b) = g
    BY DEF Overlay
  <1>2. Len(f) \in Nat /\ Len(b) \in Nat /\ end \in Nat /\ end >= pos + Len(b)
        /\ (pos = Len(f) => end = Len(f) + Len(b))
    OBVIOUS
  <1>3. \A i \in 1 .. end : i - pos \notin 1 .. Len(b) => i \in 1 .. Len(f)
    BY <1>2
  <1> HIDE DEF end
  <1>4. g \in Seq(Byte) /\ Len(g) = end
    BY <1>2, <1>3
  <1>5. pos = Len(f) => /\ \A i \in 1 .. Len(f) : g[i] = f[i]
                        /\ \A i \in 1 .. Len(b) : g[Len(f) + i] = b[i]
    BY <1>2
  <1> QED BY <1>1, <1>2, <1>4, <1>5

\* A record that is put.
LEMMA RecordFacts ==
  ASSUME NEW size \in Sizes, records \in Nat
  PROVE  /\ Record(size) \in Seq(Byte) /\ Len(Record(size)) = size /\ size \in 1 .. Packet
         /\ \A i \in 1 .. size : /\ Record(size)[i] = <<records + 1, i, size>>
                                 /\ Record(size)[i] # Pad
         /\ \A i \in 2 .. size : Record(size)[i - 1] = [Record(size)[i] EXCEPT ![2] = @ - 1]
         /\ \A i \in 1 .. size - 1 : Record(size)[i + 1] = [Record(size)[i] EXCEPT ![2] = @ + 1]
PROOF
  <1> DEFINE r == [i \in 1 .. size |-> <<records + 1, i, size>>]
  <1>1. size \in 1 .. Packet /\ Packet \in Nat /\ Record(size) = r
    BY PacketAssumption DEF Record
  <1>2. size \in Nat \ {0} /\ records + 1 \in Nat \ {0}
    BY <1>1
  <1>3. \A i \in 1 .. size : r[i] = <<records + 1, i, size>>
    OBVIOUS
  <1>4. \A i \in 1 .. size : <<records + 1, i, size>> \in Byte
    BY <1>2 DEF Byte
  <1>5. r \in Seq(Byte) /\ Len(r) = size
    BY <1>2, <1>4
  <1>6. \A i \in 1 .. size : r[i] # Pad
    BY <1>2 DEF Pad
  <1> HIDE DEF r
  <1>7. \A i, j : [<<records + 1, i, size>> EXCEPT ![2] = j] = <<records + 1, j, size>>
    OBVIOUS
  <1>8. \A i \in 2 .. size : r[i - 1] = [r[i] EXCEPT ![2] = @ - 1]
    <2> SUFFICES ASSUME NEW i \in 2 .. size PROVE r[i - 1] = [r[i] EXCEPT ![2] = @ - 1]
      OBVIOUS
    <2>1. i - 1 \in 1 .. size /\ i \in 1 .. size
      BY <1>2
    <2>2. r[i] = <<records + 1, i, size>> /\ r[i - 1] = <<records + 1, i - 1, size>>
      BY <1>3, <2>1
    <2> QED BY <2>2
  <1>9. \A i \in 1 .. size - 1 : r[i + 1] = [r[i] EXCEPT ![2] = @ + 1]
    <2> SUFFICES ASSUME NEW i \in 1 .. size - 1 PROVE r[i + 1] = [r[i] EXCEPT ![2] = @ + 1]
      OBVIOUS
    <2>1. i + 1 \in 1 .. size /\ i \in 1 .. size
      BY <1>2
    <2>2. r[i] = <<records + 1, i, size>> /\ r[i + 1] = <<records + 1, i + 1, size>>
      BY <1>3, <2>1
    <2> QED BY <2>2
  <1> QED BY <1>1, <1>3, <1>5, <1>6, <1>8, <1>9

\* The part of a record that lies at place i is followed and preceded by its neighbours.
Joined(p, i) ==
  IF p[i] = Pad THEN i < Len(p) => p[i + 1] = Pad
  ELSE /\ p[i][2] > 1 => i > 1 /\ p[i - 1] = [p[i] EXCEPT ![2] = @ - 1]
       /\ p[i][2] < p[i][3] => i < Len(p) /\ p[i + 1] = [p[i] EXCEPT ![2] = @ + 1]

\* Whole records, part by part.
LEMMA WholeIsJoined == \A p : Whole(p) <=> \A i \in 1 .. Len(p) : Joined(p, i)
BY DEF Whole, Joined

\* A concatenation, byte by byte.
LEMMA Concatenation ==
  ASSUME NEW s \in Seq(Byte), NEW t \in Seq(Byte), NEW c, c = s \o t
  PROVE  /\ c \in Seq(Byte) /\ Len(c) = Len(s) + Len(t)
         /\ \A i \in 1 .. Len(s) : c[i] = s[i]
         /\ \A i \in 1 .. Len(t) : c[Len(s) + i] = t[i]
OBVIOUS

\* A record put behind whole records makes whole records.
LEMMA WholeAppended ==
  ASSUME NEW b \in Seq(Byte), Whole(b), \A i \in 1 .. Len(b) : b[i] # Pad,
         NEW size \in Sizes, records \in Nat
  PROVE  /\ b \o Record(size) \in Seq(Byte) /\ Len(b \o Record(size)) = Len(b) + size
         /\ Whole(b \o Record(size))
         /\ \A i \in 1 .. Len(b \o Record(size)) : (b \o Record(size))[i] # Pad
PROOF
  <1> DEFINE r == Record(size)
             c == b \o r
             n == Len(b)
  <1>1. /\ r \in Seq(Byte) /\ Len(r) = size /\ size \in Nat \ {0} /\ n \in Nat
        /\ \A i \in 1 .. size : r[i] = <<records + 1, i, size>> /\ r[i] # Pad
        /\ \A i \in 2 .. size : r[i - 1] = [r[i] EXCEPT ![2] = @ - 1]
        /\ \A i \in 1 .. size - 1 : r[i + 1] = [r[i] EXCEPT ![2] = @ + 1]
    BY RecordFacts
  <1> HIDE DEF r
  <1>2. /\ c \in Seq(Byte) /\ Len(c) = n + size
        /\ \A i \in 1 .. n : c[i] = b[i]
        /\ \A i \in 1 .. size : c[n + i] = r[i]
    <2>1. \A x : x = b \o r =>
            /\ x \in Seq(Byte) /\ Len(x) = Len(b) + Len(r)
            /\ \A i \in 1 .. Len(b) : x[i] = b[i]
            /\ \A i \in 1 .. Len(r) : x[Len(b) + i] = r[i]
      BY <1>1, Concatenation
    <2> QED BY <1>1, <2>1, Zenon
  <1> HIDE DEF c, n
  <1>3. ASSUME NEW i \in 1 .. n PROVE c[i] # Pad /\ Joined(c, i)
    <2>1. c[i] = b[i] /\ b[i] # Pad /\ Joined(b, i)
      BY <1>2, WholeIsJoined DEF n
    <2>2. ASSUME b[i][2] > 1 PROVE i > 1 /\ c[i - 1] = [c[i] EXCEPT ![2] = @ - 1]
      <3>1. i > 1 /\ b[i - 1] = [b[i] EXCEPT ![2] = @ - 1]
        BY <2>1, <2>2 DEF Joined
      <3>2. i - 1 \in 1 .. n
        BY <1>1, <3>1
      <3> QED BY <1>2, <2>1, <3>1, <3>2
    <2>3. ASSUME b[i][2] < b[i][3] PROVE i < Len(c) /\ c[i + 1] = [c[i] EXCEPT ![2] = @ + 1]
      <3>1. i < n /\ b[i + 1] = [b[i] EXCEPT ![2] = @ + 1]
        BY <2>1, <2>3 DEF Joined, n
      <3>2. i + 1 \in 1 .. n /\ i < Len(c)
        BY <1>1, <1>2, <3>1
      <3> QED BY <1>2, <2>1, <3>1, <3>2
    <2> QED BY <2>1, <2>2, <2>3 DEF Joined
  <1>4. ASSUME NEW j \in 1 .. size, NEW k, k = n + j PROVE c[k] # Pad /\ Joined(c, k)
    <2>1. c[k] = r[j] /\ r[j] # Pad /\ r[j][2] = j /\ r[j][3] = size
      BY <1>1, <1>2, <1>4
    <2>2. ASSUME j > 1 PROVE k > 1 /\ c[k - 1] = [c[k] EXCEPT ![2] = @ - 1]
      <3>1. j \in 2 .. size /\ j - 1 \in 1 .. size /\ n + (j - 1) = k - 1 /\ k > 1
        BY <1>1, <1>4, <2>2
      <3>2. c[n + (j - 1)] = r[j - 1]
        BY <1>2, <3>1
      <3> QED BY <1>1, <2>1, <3>1, <3>2
    <2>3. ASSUME j < size PROVE k < Len(c) /\ c[k + 1] = [c[k] EXCEPT ![2] = @ + 1]
      <3>1. j \in 1 .. size - 1 /\ j + 1 \in 1 .. size /\ n + (j + 1) = k + 1 /\ k < n + size
        BY <1>1, <1>4, <2>3
      <3>2. c[n + (j + 1)] = r[j + 1] /\ k < Len(c)
        BY <1>2, <3>1
      <3>3. r[j + 1] = [r[j] EXCEPT ![2] = @ + 1]
        BY <1>1, <3>1
      <3> QED BY <2>1, <3>1, <3>2, <3>3
    <2> QED BY <2>1, <2>2, <2>3 DEF Joined
  <1>5. \A i \in 1 .. Len(c) : i \in 1 .. n \/ \E j \in 1 .. size : i = n + j
    <2> SUFFICES ASSUME NEW i \in 1 .. Len(c), i \notin 1 .. n PROVE \E j \in 1 .. size : i = n + j
      OBVIOUS
    <2>1. i - n \in 1 .. size /\ i = n + (i - n)
      BY <1>1, <1>2
    <2> QED BY <2>1
  <1>6. \A i \in 1 .. Len(c) : c[i] # Pad /\ Joined(c, i)
    BY <1>3, <1>4, <1>5
  <1>7. Whole(c)
    BY <1>6, WholeIsJoined
  <1> QED BY <1>2, <1>6, <1>7 DEF c, r, n

\* A record is a whole record.
LEMMA RecordWhole ==
  ASSUME NEW size \in Sizes, records \in Nat
  PROVE  Whole(Record(size))
PROOF
  <1> DEFINE r == Record(size)
  <1>1. /\ Len(r) = size /\ size \in Nat \ {0}
        /\ \A i \in 1 .. size : r[i] = <<records + 1, i, size>> /\ r[i] # Pad
        /\ \A i \in 2 .. size : r[i - 1] = [r[i] EXCEPT ![2] = @ - 1]
        /\ \A i \in 1 .. size - 1 : r[i + 1] = [r[i] EXCEPT ![2] = @ + 1]
    BY RecordFacts
  <1> HIDE DEF r
  <1>2. ASSUME NEW i \in 1 .. size PROVE Joined(r, i)
    <2>1. r[i] # Pad /\ r[i][2] = i /\ r[i][3] = size
      BY <1>1
    <2>2. i > 1 => i \in 2 .. size
      BY <1>1
    <2>3. i < size => i \in 1 .. size - 1
      BY <1>1
    <2> QED BY <1>1, <2>1, <2>2, <2>3 DEF Joined
  <1>3. Whole(r)
    BY <1>1, <1>2, WholeIsJoined
  <1> QED BY <1>3 DEF r

\* The padded buffer is a packet of whole records.
LEMMA PaddedFacts ==
  ASSUME NEW b \in Seq(Byte), Len(b) <= Packet, Whole(b)
  PROVE  Padded(b) \in Seq(Byte) /\ Len(Padded(b)) = Packet /\ Whole(Padded(b))
PROOF
  <1> DEFINE c == [i \in 1 .. Packet |-> IF i <= Len(b) THEN b[i] ELSE Pad]
             n == Len(b)
  <1>1. Packet \in Nat /\ n \in Nat /\ n <= Packet /\ Pad \in Byte /\ Padded(b) = c
    BY PacketAssumption DEF Pad, Byte, Padded
  <1>2. c \in Seq(Byte) /\ Len(c) = Packet
    BY <1>1
  <1>3. /\ \A i \in 1 .. n : c[i] = b[i]
        /\ \A i \in 1 .. Packet : i > n => c[i] = Pad
    BY <1>1
  <1> HIDE DEF c
  <1>4. ASSUME NEW i \in 1 .. n PROVE Joined(c, i)
    <2>1. c[i] = b[i] /\ Joined(b, i) /\ i \in 1 .. Packet
      BY <1>1, <1>3, WholeIsJoined
    <2> HIDE DEF n
    <2>2. i < Len(c) /\ i + 1 \in 1 .. n => c[i + 1] = b[i + 1]
      BY <1>1, <1>3
    <2>3. i < Len(c) /\ ~(i + 1 \in 1 .. n) => c[i + 1] = Pad
      BY <1>1, <1>2, <1>3
    <2>4. i > 1 => c[i - 1] = b[i - 1]
      BY <1>1, <1>3
    <2>5. i < n => i + 1 \in 1 .. n /\ i < Len(c)
      BY <1>1, <1>2
    <2>6. i + 1 \in 1 .. n => i < n
      BY <1>1
    <2>7. Len(b) = n
      BY DEF n
    <2>8. CASE b[i] = Pad
      <3>1. i < Len(c) => c[i + 1] = Pad
        BY <2>1, <2>2, <2>3, <2>6, <2>7, <2>8 DEF Joined
      <3> QED BY <2>1, <2>8, <3>1 DEF Joined
    <2>9. CASE b[i] # Pad
      <3>1. b[i][2] > 1 => i > 1 /\ b[i - 1] = [b[i] EXCEPT ![2] = @ - 1]
        BY <2>1, <2>9 DEF Joined
      <3>2. b[i][2] < b[i][3] => i < n /\ b[i + 1] = [b[i] EXCEPT ![2] = @ + 1]
        BY <2>1, <2>7, <2>9 DEF Joined
      <3> QED BY <2>1, <2>2, <2>4, <2>5, <2>9, <3>1, <3>2 DEF Joined
    <2> QED BY <2>8, <2>9
  <1>5. ASSUME NEW i \in 1 .. Packet, i \notin 1 .. n PROVE Joined(c, i)
    <2>1. i > n
      BY <1>1, <1>5
    <2>2. c[i] = Pad /\ (i < Packet => c[i + 1] = Pad)
      BY <1>1, <1>3, <2>1
    <2> QED BY <1>2, <2>2 DEF Joined
  <1>6. Whole(c)
    BY <1>2, <1>4, <1>5, WholeIsJoined
  <1> QED BY <1>1, <1>2, <1>6

-----------------------------------------------------------------------------

\* What is reduced modulo Slots.
LEMMA PlacesOfSlots == 0 \in 0 .. Slots - 1 /\ \A n \in Int : n % Slots \in 0 .. Slots - 1
PROOF
  <1>1. Slots \in Nat \ {0}
    BY SlotsAssumption, BoundsAssumption
  <1> QED BY <1>1, SMTT(30)

\* No session is open.
LEMMA ClosedFacts ==
  ASSUME NEW s, s = Closed
  PROVE  /\ s \in Sessions /\ s.open = FALSE /\ s.open # TRUE /\ s.index = 0 /\ s.pos = 0
         /\ s.buffer = << >> /\ Len(s.buffer) = 0 /\ Whole(s.buffer)
         /\ \A i \in 1 .. Len(s.buffer) : s.buffer[i] # Pad
PROOF
  <1>1. s \in Sessions /\ s.open = FALSE /\ s.index = 0 /\ s.pos = 0 /\ s.buffer = << >>
    BY DEF Closed, Sessions
  <1>2. Whole(<< >>)
    BY DEF Whole
  <1>3. \A i \in 1 .. Len(<< >>) : FALSE
    OBVIOUS
  <1> QED BY <1>1, <1>2, <1>3

\* The data files of a new device.
LEMMA InitData == Init => DataInv
PROOF
  <1> SUFFICES ASSUME Init PROVE DataInv
    OBVIOUS
  <1>1. /\ meta = << >> /\ DOMAIN files = {} /\ header = <<0, 0>> /\ session = Closed
        /\ pc = "off" /\ purpose = "get" /\ packet = << >> /\ recorded = {} /\ records = 0 /\ crashes = 0
    BY DEF Init
  <1>2. /\ session \in Sessions /\ session.open # TRUE /\ Len(session.buffer) = 0
        /\ Whole(session.buffer) /\ \A i \in 1 .. Len(session.buffer) : session.buffer[i] # Pad
    BY <1>1, ClosedFacts
  <1>3. packet \in Seq(Byte) /\ 0 <= Packet
    BY <1>1, PacketAssumption
  <1>4. DataOK
    BY <1>1, <1>2, <1>3, PlacesOfSlots DEF DataOK
  <1>5. SessionFile /\ RecordsWhole /\ Holding
    BY <1>1, <1>2 DEF SessionFile, RecordsWhole, Holding
  <1>6. NoTable /\ Contents /\ LastPublished /\ Kept
    BY <1>1 DEF NoTable, Contents, LastPublished, Kept
  <1> QED BY <1>4, <1>5, <1>6 DEF DataInv

\* The steps of a boot.
LEMMA BootsData == ASSUME IInv, DataInv, Boot \/ BootCreate \/ BootWrite \/ Crash PROVE DataInv'
PROOF
  <1> USE DEF DataInv
  <1>1. CASE Boot
    <2>1. /\ UNCHANGED <<meta, files, session, purpose, packet, recorded, published, records, crashes>>
          /\ pc = "off" /\ pc' = "idle"
          /\ meta # << >> => header' = meta[1]
          /\ meta = << >> => header' = <<0, 0>>
      BY <1>1 DEF Boot, flash, history
    <2>2. metaFile' = metaFile /\ underflow' = underflow /\ wiping' = wiping
      BY <1>1, Zenon DEF Boot, flash, history
    <2>3. header'[2] \in 0 .. Slots - 1
      <3>1. CASE meta = << >>
        BY <2>1, <3>1, PlacesOfSlots
      <3>2. CASE meta # << >>
        BY <2>1, <3>2 DEF DataOK
      <3> QED BY <3>1, <3>2
    <2>4. DataOK'
      BY <2>1, <2>3 DEF DataOK
    <2>5. SessionFile' /\ RecordsWhole' /\ Holding'
      BY <2>1, <2>2 DEF SessionFile, RecordsWhole, Holding
    <2>6. NoTable' /\ Contents' /\ LastPublished' /\ Kept'
      BY <2>1, <2>2 DEF NoTable, Contents, LastPublished, Kept
    <2> QED BY <2>4, <2>5, <2>6
  <1>2. CASE BootCreate
    <2>1. /\ UNCHANGED <<meta, files, header, session, purpose, packet, recorded, published, records, crashes>>
          /\ pc \in {"off", "reformat"} /\ pc' = "create"
      BY <1>2 DEF BootCreate, history
    <2>2. metaFile' = TRUE /\ metaFile = FALSE /\ underflow' = underflow /\ wiping' = wiping
      BY <1>2, Zenon DEF BootCreate, history, IInv, TableOK
    <2>3. DataOK'
      BY <2>1 DEF DataOK
    <2>4. SessionFile' /\ RecordsWhole' /\ Holding'
      BY <2>1, <2>2 DEF SessionFile, RecordsWhole, Holding
    <2>5. NoTable' /\ Contents' /\ LastPublished' /\ Kept'
      BY <2>1, <2>2 DEF NoTable, Contents, LastPublished, Kept
    <2> QED BY <2>3, <2>4, <2>5
  <1>3. CASE BootWrite
    <2>1. /\ UNCHANGED <<files, session, purpose, packet, recorded, published, records, crashes>>
          /\ pc = "create" /\ pc' = "idle" /\ meta' = WriteHeader(meta, <<0, 0>>) /\ header' = <<0, 0>>
      BY <1>3 DEF BootWrite
    <2>2. wiping' = (wiping /\ DOMAIN files # {})
      BY <1>3, Zenon DEF BootWrite
    <2>3. (wiping' = FALSE => wiping = FALSE \/ DOMAIN files = {})
      BY <2>2, Zenon DEF IInv, TableOK
    <2>4. meta = << >> /\ (wiping' = FALSE => DOMAIN files = {})
      BY <2>1, <2>3 DEF IInv, NewTable
    <2>5. meta' = <<<<0, 0>>>>
      BY <2>1, <2>4 DEF WriteHeader
    <2>6. meta'[1] = <<0, 0>> /\ recorded = {} /\ packet = << >>
      BY <2>1, <2>5 DEF NoTable, Holding
    <2>7. DataOK'
      BY <2>1, <2>6, PlacesOfSlots DEF DataOK
    <2>8. SessionFile' /\ RecordsWhole' /\ Holding'
      BY <2>1, <2>6 DEF SessionFile, RecordsWhole, Holding
    <2>9. NoTable' /\ Contents' /\ LastPublished' /\ Kept'
      BY <2>1, <2>4, <2>6 DEF NoTable, Contents, LastPublished, Kept
    <2> QED BY <2>7, <2>8, <2>9
  <1>4. CASE Crash
    <2>1. /\ UNCHANGED <<meta, files, recorded, published, records>> /\ crashes' = crashes + 1
          /\ header' = <<0, 0>> /\ session' = Closed
          /\ pc' = "off" /\ purpose' = "get" /\ packet' = << >>
      BY <1>4 DEF Crash, flash
    <2>2. metaFile' = metaFile /\ underflow' = underflow /\ wiping' = wiping /\ pc # "off"
      BY <1>4, Zenon DEF Crash, flash
    <2>3. /\ session' \in Sessions /\ session'.open # TRUE /\ Len(session'.buffer) = 0
          /\ Whole(session'.buffer) /\ \A i \in 1 .. Len(session'.buffer) : session'.buffer[i] # Pad
      BY <2>1, ClosedFacts
    <2>4. DataOK'
      <3>1. 0 <= Packet /\ packet' \in Seq(Byte) /\ crashes' \in Nat
        BY <2>1, PacketAssumption DEF DataOK
      <3> QED BY <2>1, <2>3, <3>1, PlacesOfSlots DEF DataOK
    <2>5. SessionFile' /\ RecordsWhole' /\ Holding'
      BY <2>1, <2>2, <2>3 DEF SessionFile, RecordsWhole, Holding
    <2>6. NoTable' /\ Contents' /\ LastPublished' /\ Kept'
      BY <2>1, <2>2 DEF NoTable, Contents, LastPublished, Kept
    <2> QED BY <2>4, <2>5, <2>6
  <1> QED BY <1>1, <1>2, <1>3, <1>4

\* The steps of a reformat.
LEMMA ReformatsData == ASSUME IInv, DataInv, Reformat \/ Unlink PROVE DataInv'
PROOF
  <1> USE DEF DataInv
  <1>1. CASE Reformat
    <2>1. /\ UNCHANGED <<meta, files, header, session, purpose, packet, records, crashes>>
          /\ pc = "idle" /\ pc' = "reformat" /\ recorded' = {} /\ published' = {}
      BY <1>1 DEF Reformat, flash
    <2>2. wiping' = TRUE /\ session.open # TRUE
      BY <1>1, Zenon DEF Reformat
    <2>3. DataOK'
      BY <2>1 DEF DataOK
    <2>4. SessionFile' /\ RecordsWhole' /\ Holding'
      BY <2>1, <2>2 DEF SessionFile, RecordsWhole, Holding
    <2>5. NoTable' /\ Contents' /\ LastPublished' /\ Kept'
      BY <2>1, <2>2 DEF NoTable, Contents, LastPublished, Kept
    <2> QED BY <2>3, <2>4, <2>5
  <1>2. CASE Unlink
    <2>1. /\ UNCHANGED <<header, session, purpose, packet, recorded, published, records, crashes>>
          /\ pc = "reformat" /\ pc' = pc
          /\ meta' = meta \/ meta' = << >>
          /\ DOMAIN files' \subseteq DOMAIN files
          /\ \A s \in DOMAIN files' : files'[s] = files[s]
      BY <1>2 DEF Unlink, caller, history, Without
    <2>2. wiping' = wiping /\ wiping = TRUE
      BY <1>2, <2>1, Zenon DEF Unlink, history, IInv, NewTable
    <2>3. DataOK'
      BY <2>1 DEF DataOK
    <2>4. SessionFile' /\ RecordsWhole' /\ Holding'
      BY <2>1, <2>2 DEF SessionFile, RecordsWhole, Holding
    <2>5. NoTable' /\ Contents' /\ LastPublished' /\ Kept'
      BY <2>1, <2>2 DEF NoTable, Contents, LastPublished, Kept
    <2> QED BY <2>3, <2>4, <2>5
  <1> QED BY <1>1, <1>2

\* The steps that open a session.
LEMMA OpensData == ASSUME IInv, DataInv, OpenSession \/ OpenFile \/ OpenFails PROVE DataInv'
PROOF
  <1> USE DEF DataInv
  <1>0. UNCHANGED <<purpose, packet, recorded, published, records, crashes, metaFile, underflow, wiping>>
    BY Zenon DEF OpenSession, OpenFile, OpenFails, flash, history
  <1>1. CASE OpenSession
    <2>1. /\ UNCHANGED files /\ pc = "idle" /\ pc' = "opening"
          /\ session' = [session EXCEPT !.index = header[1]]
          /\ header' = Pushed(header)
          /\ meta' = Append(WriteHeader(meta, Pushed(header)), <<header[1], 0>>)
      BY <1>1 DEF OpenSession
    <2>2. session.open # TRUE
      BY <1>1, Zenon DEF OpenSession
    <2>3. header[1] \in Nat /\ header[2] \in Nat /\ meta \in Seq(Nat \X Nat) /\ header' \in Nat \X Nat
          /\ header'[2] \in 0 .. Slots - 1
      <3>1. header[1] \in Nat /\ header[2] \in Nat /\ meta \in Seq(Nat \X Nat)
        BY DEF IInv, TableOK
      <3>2. (header[1] + 1) % Slots \in 0 .. Slots - 1 /\ (header[2] + 1) % Slots \in 0 .. Slots - 1
        <4>1. header[1] + 1 \in Int /\ header[2] + 1 \in Int
          BY <3>1
        <4> QED BY <4>1, PlacesOfSlots, Zenon
      <3> QED BY <2>1, <3>1, <3>2, SlotsAssumption DEF Pushed
    <2>4. meta'[1] = header'
      <3>1. WriteHeader(meta, header') \in Seq(Nat \X Nat) /\ WriteHeader(meta, header')[1] = header'
            /\ Len(WriteHeader(meta, header')) \in Nat \ {0}
        <4> DEFINE h == header'
        <4>1. h \in Nat \X Nat /\ meta \in Seq(Nat \X Nat)
          BY <2>3
        <4> HIDE DEF h
        <4>2. WriteHeader(meta, h) \in Seq(Nat \X Nat) /\ WriteHeader(meta, h)[1] = h
              /\ Len(WriteHeader(meta, h)) \in Nat \ {0}
          BY <4>1, WriteHeaderFacts
        <4> USE DEF h
        <4> QED BY <4>2
      <3> QED BY <2>1, <2>3, <3>1
    <2>5. session' \in Sessions /\ session'.open # TRUE /\ session'.buffer = session.buffer
      BY <2>1, <2>2, <2>3 DEF DataOK, Sessions
    <2>6. DataOK'
      BY <1>0, <2>1, <2>3, <2>4, <2>5 DEF DataOK
    <2>7. SessionFile' /\ RecordsWhole' /\ Holding'
      BY <1>0, <2>1, <2>5 DEF SessionFile, RecordsWhole, Holding
    <2>8. NoTable' /\ Contents' /\ LastPublished' /\ Kept'
      BY <1>0, <2>1 DEF NoTable, Contents, LastPublished, Kept
    <2> QED BY <2>6, <2>7, <2>8
  <1>2. CASE OpenFile
    <2> DEFINE i == session.index
    <2>1. /\ UNCHANGED <<meta, header>> /\ pc = "opening" /\ pc' = "idle"
          /\ session' = [Closed EXCEPT !.open = TRUE, !.index = i]
          /\ i \in DOMAIN files' /\ DOMAIN files \subseteq DOMAIN files'
          /\ \A s \in DOMAIN files : files'[s] = files[s]
          /\ \A s \in DOMAIN files' : s \notin DOMAIN files => files'[s] = << >>
      BY <1>2 DEF OpenFile, WithFile
    <2>2. valid' = valid /\ valid = TRUE
      <3>1. pc = "opening" => valid = TRUE
        BY DEF IInv, MemoryCounts
      <3> QED BY <1>2, <2>1, <3>1, Zenon DEF OpenFile
    <2>3. i \in Nat /\ (wiping = FALSE => i \notin DOMAIN files)
      BY <2>1 DEF IInv, Opening
    <2>4. /\ session' \in Sessions /\ session'.index = i /\ session'.pos = 0
          /\ session'.buffer = << >> /\ Len(session'.buffer) = 0 /\ Whole(session'.buffer)
      <3>1. PICK c : c = Closed
        OBVIOUS
      <3>2. c \in Sessions /\ c.index = 0 /\ c.pos = 0 /\ c.buffer = << >> /\ Whole(c.buffer)
        BY <3>1, ClosedFacts
      <3>3. session' = [c EXCEPT !.open = TRUE, !.index = i]
        BY <2>1, <3>1
      <3> HIDE DEF i
      <3> QED BY <2>3, <3>2, <3>3 DEF Sessions
    <2>5. \A s \in DOMAIN files' : files'[s] \in Seq(Byte)
      <3>1. << >> \in Seq(Byte)
        OBVIOUS
      <3> QED BY <2>1, <3>1 DEF DataOK
    <2>6. DataOK'
      <3>1. 0 <= Packet
        BY PacketAssumption
      <3> QED BY <1>0, <2>1, <2>4, <2>5, <3>1 DEF DataOK
    <2>7. SessionFile'
      <3>1. 0 = 0 * Packet
        BY PacketAssumption
      <3>2. wiping = FALSE => Len(files'[i]) = 0
        BY <2>1, <2>3
      <3>3. Len(files'[i]) \in Nat
        BY <2>1, <2>5
      <3>4. i \in DOMAIN files'
        BY <2>1
      <3> HIDE DEF i
      <3> QED BY <1>0, <2>1, <2>2, <2>4, <3>1, <3>2, <3>3, <3>4 DEF SessionFile
    <2>8. RecordsWhole' /\ Holding'
      BY <1>0, <2>1, <2>4 DEF RecordsWhole, Holding
    <2>9. NoTable' /\ Contents' /\ LastPublished' /\ Kept'
      <3>1. NoTable' /\ LastPublished'
        BY <1>0, <2>1 DEF NoTable, LastPublished
      <3>2. Contents'
        BY <1>0, <2>1, NoPackets DEF Contents
      <3>3. Kept'
        BY <1>0, <2>1 DEF Kept
      <3> QED BY <3>1, <3>2, <3>3
    <2> QED BY <2>6, <2>7, <2>8, <2>9
  <1>3. CASE OpenFails
    <2>1. UNCHANGED <<meta, files, header>> /\ pc = "opening" /\ pc' = "idle" /\ session' = Closed
      BY <1>3 DEF OpenFails, flash
    <2>2. /\ session' \in Sessions /\ session'.open # TRUE /\ Len(session'.buffer) = 0
          /\ Whole(session'.buffer) /\ \A i \in 1 .. Len(session'.buffer) : session'.buffer[i] # Pad
      BY <2>1, ClosedFacts
    <2>3. DataOK'
      <3>1. 0 <= Packet
        BY PacketAssumption
      <3> QED BY <1>0, <2>1, <2>2, <3>1 DEF DataOK
    <2>4. SessionFile' /\ RecordsWhole' /\ Holding'
      BY <1>0, <2>1, <2>2 DEF SessionFile, RecordsWhole, Holding
    <2>5. NoTable' /\ Contents' /\ LastPublished' /\ Kept'
      BY <1>0, <2>1 DEF NoTable, Contents, LastPublished, Kept
    <2> QED BY <2>3, <2>4, <2>5
  <1> QED BY <1>1, <1>2, <1>3

\* A flush of no more than a packet to the session's file.
LEMMA FlushFacts ==
  ASSUME IInv, DataInv, session.open = TRUE, NEW bytes \in Seq(Byte), Len(bytes) <= Packet,
         Whole(bytes), Flush(bytes)
  PROVE  /\ DOMAIN files' = DOMAIN files
         /\ \A s \in DOMAIN files : files'[s] \in Seq(Byte)
         /\ Len(files'[session.index]) >= session.pos + Len(bytes)
         /\ wiping = FALSE => /\ Len(files'[session.index]) = session.pos + Len(bytes)
                              /\ \A s \in DOMAIN files : \A p \in Packets(files'[s]) : p \in recorded'
         /\ \A p \in recorded' : Whole(p)
         /\ \A p \in recorded : p \in recorded'
         /\ wiping = FALSE /\ underflow = FALSE =>
              \A p \in recorded' :
                p \in published \/ \E s \in DOMAIN files' : p \in Packets(files'[s])
PROOF
  <1> DEFINE i == session.index
             f == files[i]
             g == files'[i]
  <1>1. /\ i \in DOMAIN files /\ f \in Seq(Byte) /\ session.pos \in Nat /\ session.pos <= Len(f)
        /\ \E m \in Nat : session.pos = m * Packet
        /\ wiping = FALSE => session.pos = Len(f)
    BY DEF DataInv, DataOK, SessionFile, Sessions
  <1>2. /\ DOMAIN files' = DOMAIN files /\ g = Overlay(f, session.pos, bytes)
        /\ \A s \in DOMAIN files : s # i => files'[s] = files[s]
    BY <1>1 DEF Flush
  <1>3. recorded' = IF bytes = << >> THEN recorded ELSE recorded \union {bytes}
    BY DEF Flush
  <1> HIDE DEF i
  <1>4. /\ g \in Seq(Byte) /\ Len(g) >= session.pos + Len(bytes)
        /\ session.pos = Len(f) =>
             /\ Len(g) = Len(f) + Len(bytes)
             /\ \A j \in 1 .. Len(f) : g[j] = f[j]
             /\ \A j \in 1 .. Len(bytes) : g[Len(f) + j] = bytes[j]
    <2>1. \A pos \in Nat : pos <= Len(f) =>
            /\ Overlay(f, pos, bytes) \in Seq(Byte) /\ Len(Overlay(f, pos, bytes)) >= pos + Len(bytes)
            /\ pos = Len(f) =>
                 /\ Len(Overlay(f, pos, bytes)) = Len(f) + Len(bytes)
                 /\ \A j \in 1 .. Len(f) : Overlay(f, pos, bytes)[j] = f[j]
                 /\ \A j \in 1 .. Len(bytes) : Overlay(f, pos, bytes)[Len(f) + j] = bytes[j]
      BY <1>1, OverlayFacts
    <2> HIDE DEF f, g
    <2> QED BY <1>1, <1>2, <2>1, Zenon
  <1>5. ASSUME wiping = FALSE
        PROVE  \A p : p \in Packets(g) <=> p \in Packets(f) \/ (bytes # << >> /\ p = bytes)
    <2> HIDE DEF f, g
    <2>1. /\ Len(g) = Len(f) + Len(bytes) /\ Len(f) = session.pos
          /\ \A j \in 1 .. Len(f) : g[j] = f[j]
          /\ \A j \in 1 .. Len(bytes) : g[Len(f) + j] = bytes[j]
      BY <1>1, <1>4, <1>5
    <2>2. CASE bytes = << >>
      <3>1. Len(g) = Len(f) /\ Len(f) \in Nat
        BY <1>1, <2>1, <2>2
      <3>2. g = f
        BY <1>1, <1>4, <2>1, <3>1
      <3> QED BY <2>2, <3>2
    <2>3. CASE bytes # << >>
      <3>1. Len(bytes) \in 1 .. Packet
        BY <2>3, PacketAssumption
      <3>2. PICK m \in Nat : Len(f) = m * Packet
        BY <1>1, <2>1
      <3>3. \A p : p \in Packets(g) <=> p \in Packets(f) \/ p = bytes
        <4>1. f \in Seq(Byte) /\ g \in Seq(Byte)
          BY <1>1, <1>4
        <4>2. /\ Len(g) = Len(f) + Len(bytes)
              /\ \A j \in 1 .. Len(f) : g[j] = f[j]
              /\ \A j \in 1 .. Len(bytes) : g[Len(f) + j] = bytes[j]
          BY <2>1
        <4> QED BY <3>1, <3>2, <4>1, <4>2, AppendedPacket
      <3> QED BY <2>3, <3>3
    <2> QED BY <2>2, <2>3
  <1>6. \A p : p \in recorded' <=> p \in recorded \/ (bytes # << >> /\ p = bytes)
    BY <1>3
  <1>7. \A p \in recorded' : Whole(p)
    BY <1>6 DEF DataInv, RecordsWhole
  <1>8. ASSUME wiping = FALSE
        PROVE  \A s \in DOMAIN files : \A p \in Packets(files'[s]) : p \in recorded'
    <2> SUFFICES ASSUME NEW s \in DOMAIN files, NEW p \in Packets(files'[s]) PROVE p \in recorded'
      OBVIOUS
    <2>1. \A q \in Packets(files[s]) : q \in recorded
      BY <1>8 DEF DataInv, Contents
    <2> QED BY <1>2, <1>5, <1>6, <1>8, <2>1
  <1>9. ASSUME wiping = FALSE, underflow = FALSE, NEW p \in recorded'
        PROVE  p \in published \/ \E s \in DOMAIN files' : p \in Packets(files'[s])
    <2>1. CASE p \in recorded
      <3>1. p \in published \/ \E s \in DOMAIN files : p \in Packets(files[s])
        BY <1>9, <2>1 DEF DataInv, Kept
      <3>2. \A s \in DOMAIN files : p \in Packets(files[s]) => p \in Packets(files'[s])
        BY <1>2, <1>5, <1>9
      <3> QED BY <1>2, <3>1, <3>2
    <2>2. CASE bytes # << >> /\ p = bytes
      BY <1>1, <1>2, <1>5, <1>9, <2>2
    <2> QED BY <1>6, <1>9, <2>1, <2>2
  <1>10. \A s \in DOMAIN files : files'[s] \in Seq(Byte)
    BY <1>2, <1>4 DEF DataInv, DataOK
  <1>11. /\ Len(files'[session.index]) >= session.pos + Len(bytes)
         /\ wiping = FALSE => Len(files'[session.index]) = session.pos + Len(bytes)
    BY <1>1, <1>4 DEF i
  <1> QED BY <1>2, <1>6, <1>7, <1>8, <1>9, <1>10, <1>11

\* The steps of an open session.
LEMMA RunsData ==
  ASSUME IInv, DataInv,
         SetSessionTime(1) \/ (\E size \in Sizes : PutBytes(size)) \/ CloseSession
  PROVE  DataInv'
PROOF
  <1> USE DEF DataInv
  <1>1. CASE SetSessionTime(1)
    <2>1. /\ UNCHANGED <<files, header, purpose, packet, recorded, published, records, crashes>>
          /\ pc = "idle" /\ pc' = "idle" /\ session' = [session EXCEPT !.timeSet = TRUE]
          /\ meta' = [i \in 1 .. Len(meta) |->
                        IF i > 1 /\ meta[i][1] = session.index THEN <<session.index, 1>>
                        ELSE meta[i]]
      BY <1>1 DEF SetSessionTime, caller, history
    <2>2. UNCHANGED <<valid, metaFile, underflow, wiping>>
      BY <1>1, Zenon DEF SetSessionTime, history
    <2>3. session' \in Sessions /\ session'.open = session.open /\ session'.index = session.index
          /\ session'.pos = session.pos /\ session'.buffer = session.buffer
      BY <2>1 DEF DataOK, Sessions
    <2>4. meta' # << >> => meta # << >> /\ meta'[1] = meta[1]
      BY <2>1 DEF IInv, TableOK
    <2>5. DataOK'
      BY <2>1, <2>3, <2>4 DEF DataOK
    <2>6. SessionFile' /\ RecordsWhole' /\ Holding'
      BY <2>1, <2>2, <2>3 DEF SessionFile, RecordsWhole, Holding
    <2>7. NoTable' /\ Contents' /\ LastPublished' /\ Kept'
      BY <2>1, <2>2 DEF NoTable, Contents, LastPublished, Kept
    <2> QED BY <2>5, <2>6, <2>7
  <1>2. ASSUME NEW size \in Sizes, PutBytes(size) PROVE DataInv'
    <2>1. /\ UNCHANGED <<meta, header, purpose, packet, published, crashes>>
          /\ pc = "idle" /\ pc' = "idle" /\ records' = records + 1
      BY <1>2 DEF PutBytes, caller
    <2>2. UNCHANGED <<valid, metaFile, underflow, wiping>> /\ session.open = TRUE
      <3>1. session.open \in BOOLEAN
        BY DEF DataOK, Sessions
      <3> QED BY <1>2, <3>1, Zenon DEF PutBytes
    <2>3. /\ session.buffer \in Seq(Byte) /\ Len(session.buffer) \in Nat /\ session.pos \in Nat
          /\ Len(session.buffer) <= Packet /\ Whole(session.buffer)
          /\ \A i \in 1 .. Len(session.buffer) : session.buffer[i] # Pad
          /\ records \in Nat /\ Packet \in Nat
      BY PacketAssumption DEF DataOK, Sessions, RecordsWhole
    <2>4. /\ Record(size) \in Seq(Byte) /\ Len(Record(size)) = size /\ size \in 1 .. Packet
      BY <2>3, RecordFacts
    <2>5. metaFile = TRUE /\ valid = TRUE
      BY <2>1, <2>2 DEF IInv, NewTable, SessionFile, Between
    <2>6. CASE size > Packet - Len(session.buffer)
      <3>1. /\ Flush(Padded(session.buffer))
            /\ session' = [session EXCEPT !.pos = @ + Packet, !.buffer = Record(size)]
        BY <1>2, <2>6 DEF PutBytes
      <3>2. /\ Padded(session.buffer) \in Seq(Byte) /\ Len(Padded(session.buffer)) = Packet
            /\ Whole(Padded(session.buffer))
        BY <2>3, PaddedFacts
      <3>3. /\ DOMAIN files' = DOMAIN files
            /\ \A s \in DOMAIN files : files'[s] \in Seq(Byte)
            /\ Len(files'[session.index]) >= session.pos + Packet
            /\ wiping = FALSE => /\ Len(files'[session.index]) = session.pos + Packet
                                 /\ \A s \in DOMAIN files : \A p \in Packets(files'[s]) : p \in recorded'
            /\ \A p \in recorded' : Whole(p)
            /\ \A p \in recorded : p \in recorded'
            /\ wiping = FALSE /\ underflow = FALSE =>
                 \A p \in recorded' :
                   p \in published \/ \E s \in DOMAIN files' : p \in Packets(files'[s])
        <4> DEFINE bytes == Padded(session.buffer)
        <4>1. bytes \in Seq(Byte) /\ Len(bytes) = Packet /\ Len(bytes) <= Packet /\ Whole(bytes)
              /\ Flush(bytes)
          BY <2>3, <3>1, <3>2
        <4> HIDE DEF bytes
        <4> QED BY <2>2, <4>1, FlushFacts
      <3>4. session.pos + Packet \in Nat
        BY <2>3
      <3>5. /\ session' \in Sessions /\ session'.open = session.open /\ session'.index = session.index
            /\ session'.pos = session.pos + Packet /\ session'.buffer = Record(size)
        BY <2>4, <3>1, <3>4 DEF DataOK, Sessions
      <3>6. Whole(Record(size)) /\ \A i \in 1 .. Len(Record(size)) : Record(size)[i] # Pad
        <4>1. Whole(Record(size))
          BY <2>3, RecordWhole
        <4> QED BY <2>3, <4>1, RecordFacts
      <3>7. \E m \in Nat : session.pos + Packet = m * Packet
        <4>1. PICK m \in Nat : session.pos = m * Packet
          BY <2>2 DEF SessionFile
        <4>2. m + 1 \in Nat /\ (m + 1) * Packet = m * Packet + Packet
          BY Multiples
        <4>3. session.pos + Packet = (m + 1) * Packet
          BY <4>1, <4>2
        <4> QED BY <4>2, <4>3
      <3>8. DataOK'
        BY <2>1, <2>3, <2>4, <3>3, <3>5 DEF DataOK
      <3>9. SessionFile'
        <4>1. session.index \in DOMAIN files
          BY <2>2 DEF SessionFile
        <4>2. Len(files'[session.index]) \in Nat
          BY <3>3, <4>1
        <4> QED BY <2>1, <2>2, <2>5, <3>3, <3>4, <3>5, <3>7, <4>1, <4>2 DEF SessionFile
      <3>10. RecordsWhole' /\ Holding'
        BY <2>1, <2>2, <3>3, <3>5, <3>6 DEF RecordsWhole, Holding
      <3>11. NoTable' /\ Contents' /\ LastPublished' /\ Kept'
        BY <2>1, <2>2, <2>5, <3>3 DEF NoTable, Contents, LastPublished, Kept
      <3> QED BY <3>8, <3>9, <3>10, <3>11
    <2>7. CASE ~(size > Packet - Len(session.buffer))
      <3> DEFINE b == session.buffer \o Record(size)
      <3>1. UNCHANGED <<files, recorded>> /\ session' = [session EXCEPT !.buffer = b]
        BY <1>2, <2>7 DEF PutBytes
      <3>2. /\ b \in Seq(Byte) /\ Len(b) = Len(session.buffer) + size /\ Whole(b)
            /\ \A i \in 1 .. Len(b) : b[i] # Pad
        BY <2>3, WholeAppended
      <3> HIDE DEF b
      <3>3. Len(b) <= Packet
        BY <2>3, <2>4, <2>7, <3>2
      <3>4. /\ session' \in Sessions /\ session'.open = session.open /\ session'.index = session.index
            /\ session'.pos = session.pos /\ session'.buffer = b
        BY <3>1, <3>2 DEF DataOK, Sessions
      <3>5. DataOK'
        BY <2>1, <2>3, <3>1, <3>3, <3>4 DEF DataOK
      <3>6. SessionFile'
        BY <2>1, <2>2, <3>1, <3>4 DEF SessionFile
      <3>7. RecordsWhole' /\ Holding'
        BY <2>1, <2>2, <3>1, <3>2, <3>4 DEF RecordsWhole, Holding
      <3>8. NoTable' /\ Contents' /\ LastPublished' /\ Kept'
        BY <2>1, <2>2, <3>1 DEF NoTable, Contents, LastPublished, Kept
      <3> QED BY <3>5, <3>6, <3>7, <3>8
    <2> QED BY <2>6, <2>7
  <1>3. CASE CloseSession
    <2>1. /\ UNCHANGED <<meta, header, purpose, packet, published, records, crashes>>
          /\ pc = "idle" /\ pc' = "idle" /\ session' = Closed /\ Flush(session.buffer)
      BY <1>3 DEF CloseSession, caller
    <2>2. UNCHANGED <<valid, metaFile, underflow, wiping>> /\ session.open = TRUE
      <3>1. session.open \in BOOLEAN
        BY DEF DataOK, Sessions
      <3> QED BY <1>3, <3>1, Zenon DEF CloseSession
    <2>3. session.buffer \in Seq(Byte) /\ Len(session.buffer) <= Packet /\ Whole(session.buffer)
      BY DEF DataOK, Sessions, RecordsWhole
    <2>4. metaFile = TRUE
      BY <2>1, <2>2 DEF IInv, NewTable, SessionFile, Between
    <2>5. /\ DOMAIN files' = DOMAIN files
          /\ \A s \in DOMAIN files : files'[s] \in Seq(Byte)
          /\ wiping = FALSE => \A s \in DOMAIN files : \A p \in Packets(files'[s]) : p \in recorded'
          /\ \A p \in recorded' : Whole(p)
          /\ \A p \in recorded : p \in recorded'
          /\ wiping = FALSE /\ underflow = FALSE =>
               \A p \in recorded' :
                 p \in published \/ \E s \in DOMAIN files' : p \in Packets(files'[s])
      BY <2>1, <2>2, <2>3, FlushFacts
    <2>6. /\ session' \in Sessions /\ session'.open # TRUE /\ Len(session'.buffer) = 0
          /\ Whole(session'.buffer) /\ \A i \in 1 .. Len(session'.buffer) : session'.buffer[i] # Pad
      BY <2>1, ClosedFacts
    <2>7. DataOK'
      <3>1. 0 <= Packet
        BY PacketAssumption
      <3> QED BY <2>1, <2>5, <2>6, <3>1 DEF DataOK
    <2>8. SessionFile' /\ RecordsWhole' /\ Holding'
      BY <2>1, <2>2, <2>5, <2>6 DEF SessionFile, RecordsWhole, Holding
    <2>9. NoTable' /\ Contents' /\ LastPublished' /\ Kept'
      BY <2>1, <2>2, <2>4, <2>5 DEF NoTable, Contents, LastPublished, Kept
    <2> QED BY <2>7, <2>8, <2>9
  <1> QED BY <1>1, <1>2, <1>3

\* The steps of a search that change no file, and the publication.
LEMMA SearchesData ==
  ASSUME IInv, IInv', DataInv, GetLastPacket \/ SearchGet \/ PublishFail \/ Publish
  PROVE  DataInv'
PROOF
  <1> USE DEF DataInv
  <1>0. /\ UNCHANGED <<meta, files, header, session, recorded, records, crashes>>
        /\ session.open # TRUE
    <2>1. UNCHANGED <<meta, files, header, session, recorded, records, crashes>>
      BY DEF GetLastPacket, SearchGet, PublishFail, Publish, flash, history
    <2>2. pc \in {"search", "publish"} \/ ~session.open
      BY Zenon DEF GetLastPacket, SearchGet, PublishFail, Publish
    <2>3. ~session.open => session.open # TRUE
      BY Zenon
    <2>4. pc \in {"search", "publish"} => session.open # TRUE
      BY DEF SessionFile
    <2> QED BY <2>1, <2>2, <2>3, <2>4, Zenon
  <1>1. UNCHANGED <<metaFile, underflow, wiping>>
    BY Zenon DEF GetLastPacket, SearchGet, PublishFail, Publish, flash, history
  <1>2. SessionFile' /\ RecordsWhole' /\ Contents'
    BY <1>0, <1>1 DEF SessionFile, RecordsWhole, Contents
  <1>3. CASE GetLastPacket
    <2>1. UNCHANGED <<packet, published>> /\ pc = "idle" /\ pc' = "search" /\ purpose' = "get"
      BY <1>3 DEF GetLastPacket, history
    <2>2. DataOK' /\ Holding'
      BY <1>0, <1>1, <2>1 DEF DataOK, Holding
    <2>3. NoTable' /\ LastPublished' /\ Kept'
      BY <1>0, <1>1, <2>1 DEF NoTable, LastPublished, Kept
    <2> QED BY <1>2, <2>2, <2>3
  <1>4. CASE SearchGet
    <2> DEFINE f == files[entry[1]]
    <2>1. /\ UNCHANGED <<purpose, entry, published>> /\ pc = "search" /\ pc' = "publish"
          /\ entry[1] \in DOMAIN files /\ f # << >> /\ packet' = LastPacket(f)
      BY <1>4 DEF SearchGet, Found, history
    <2>2. f \in Seq(Byte)
      BY <2>1 DEF DataOK
    <2>3. packet' \in Seq(Byte) /\ packet' \in Packets(f)
      <3> HIDE DEF f
      <3> QED BY <2>1, <2>2, LastCutOff
    <2>4. wiping = FALSE => packet' \in recorded
      BY <2>1, <2>3 DEF Contents
    <2>5. DataOK' /\ Holding'
      BY <1>0, <1>1, <2>1, <2>3, <2>4 DEF DataOK, Holding
    <2>6. underflow = FALSE => entry = meta[Len(meta)]
      BY <2>1 DEF IInv, Searching
    <2>7. NoTable' /\ LastPublished' /\ Kept'
      BY <1>0, <1>1, <2>1, <2>6 DEF NoTable, LastPublished, Kept
    <2> QED BY <1>2, <2>5, <2>7
  <1>5. CASE PublishFail
    <2>1. UNCHANGED <<purpose, published>> /\ pc' = "idle" /\ packet' = << >>
      BY <1>5 DEF PublishFail, history
    <2>2. packet' \in Seq(Byte)
      BY <2>1
    <2>3. DataOK' /\ Holding'
      BY <1>0, <1>1, <2>1, <2>2 DEF DataOK, Holding
    <2>4. NoTable' /\ LastPublished' /\ Kept'
      BY <1>0, <1>1, <2>1 DEF NoTable, LastPublished, Kept
    <2> QED BY <1>2, <2>3, <2>4
  <1>6. CASE Publish
    <2>1. /\ UNCHANGED packet /\ pc = "publish" /\ pc' = "search" /\ purpose' = "pop"
          /\ published' = published \union {packet}
      BY <1>6 DEF Publish
    <2>2. DataOK' /\ Holding'
      BY <1>0, <1>1, <2>1 DEF DataOK, Holding
    <2>3. underflow = FALSE => entry' = meta[Len(meta)]
      BY <1>0, <1>1, <2>1 DEF IInv, Searching
    <2>4. NoTable' /\ LastPublished' /\ Kept'
      BY <1>0, <1>1, <2>1, <2>3 DEF NoTable, LastPublished, Kept
    <2> QED BY <1>2, <2>2, <2>4
  <1> QED BY <1>3, <1>4, <1>5, <1>6

\* The steps of a search that change or remove a file.
LEMMA RemovesData == ASSUME IInv, DataInv, SearchRemove \/ SearchPop PROVE DataInv'
PROOF
  <1> USE DEF DataInv
  <1> DEFINE e == entry[1]
             f == files[e]
             h == AllButLast(f)
  <1>0. /\ UNCHANGED <<meta, header, session, purpose, entry, recorded, published, records, crashes>>
        /\ pc = "search" /\ e \in DOMAIN files /\ f \in Seq(Byte)
    BY DEF SearchRemove, SearchPop, Found, caller, history, DataOK
  <1>1. UNCHANGED <<metaFile, underflow, wiping>>
    BY Zenon DEF SearchRemove, SearchPop, history
  <1>2. session.open # TRUE
    BY <1>0 DEF SessionFile
  <1>3. SessionFile' /\ RecordsWhole'
    BY <1>0, <1>2 DEF SessionFile, RecordsWhole
  <1>4. CASE SearchRemove
    <2>1. /\ UNCHANGED packet /\ pc' = "search" /\ f = << >>
          /\ DOMAIN files' = DOMAIN files \ {e} /\ \A s \in DOMAIN files' : files'[s] = files[s]
      BY <1>4 DEF SearchRemove, Without, caller
    <2>2. DataOK' /\ Holding'
      BY <1>0, <1>1, <2>1 DEF DataOK, Holding
    <2>3. NoTable' /\ Contents'
      BY <1>0, <1>1, <2>1 DEF NoTable, Contents
    <2>4. LastPublished'
      BY <1>0, <1>1, <2>1 DEF LastPublished
    <2>5. Kept'
      <3>1. \A p : p \notin Packets(f)
        BY <2>1, NoPackets
      <3>2. \A s \in DOMAIN files : \A p \in Packets(files[s]) : s \in DOMAIN files' /\ files'[s] = files[s]
        BY <2>1, <3>1
      <3> QED BY <1>0, <1>1, <3>2 DEF Kept
    <2> QED BY <1>3, <2>2, <2>3, <2>4, <2>5
  <1>5. CASE SearchPop
    <2>1. /\ purpose = "pop" /\ packet' = << >> /\ pc' \in {"removed", "idle"} /\ f # << >>
          /\ \/ h = << >> /\ DOMAIN files' = DOMAIN files \ {e}
             \/ h # << >> /\ DOMAIN files' = DOMAIN files /\ files'[e] = h
          /\ \A s \in DOMAIN files' : s # e => files'[s] = files[s]
      BY <1>0, <1>5 DEF SearchPop, Without, WithFile
    <2>2. h \in Seq(Byte) /\ \A p : p \in Packets(f) <=> p \in Packets(h) \/ p = LastPacket(f)
      <3>1. f \in Seq(Byte) /\ f # << >>
        BY <1>0, <2>1
      <3> HIDE DEF f
      <3> QED BY <3>1, LastCutOff
    <2>3. underflow = FALSE => LastPacket(f) \in published
      BY <1>0, <2>1 DEF LastPublished
    <2> HIDE DEF h
    <2>4. \A s \in DOMAIN files' : s \in DOMAIN files /\ files'[s] \in Seq(Byte)
      BY <1>0, <2>1, <2>2 DEF DataOK
    <2>5. \A s \in DOMAIN files' : \A p \in Packets(files'[s]) : p \in Packets(files[s])
      BY <1>0, <2>1, <2>2
    <2>6. packet' \in Seq(Byte)
      BY <2>1
    <2>7. DataOK' /\ Holding'
      BY <1>0, <1>1, <2>1, <2>4, <2>6 DEF DataOK, Holding
    <2>8. NoTable' /\ LastPublished'
      BY <1>0, <1>1, <2>1 DEF NoTable, LastPublished
    <2>9. Contents'
      BY <1>0, <1>1, <2>4, <2>5 DEF Contents
    <2>10. Kept'
      <3>1. ASSUME underflow = FALSE, NEW s \in DOMAIN files, NEW p \in Packets(files[s]),
                   p \notin published
            PROVE  s \in DOMAIN files' /\ p \in Packets(files'[s])
        <4>1. CASE s # e
          BY <2>1, <3>1, <4>1
        <4>2. CASE s = e
          <5>1. p \in Packets(h)
            BY <2>2, <2>3, <3>1, <4>2
          <5>2. h # << >>
            BY <5>1, NoPackets
          <5> QED BY <1>0, <2>1, <4>2, <5>1, <5>2
        <4> QED BY <4>1, <4>2
      <3> QED BY <1>0, <1>1, <3>1 DEF Kept
    <2> QED BY <1>3, <2>7, <2>8, <2>9, <2>10
  <1> QED BY <1>4, <1>5

\* The steps that pop the last entry.
LEMMA PopsData == ASSUME IInv, DataInv, SearchSkip \/ PopEntry PROVE DataInv'
PROOF
  <1> USE DEF DataInv
  <1>1. /\ PopMetadata /\ pc \in {"search", "removed"} /\ pc' \in {"search", "idle"}
        /\ UNCHANGED <<files, session, purpose, recorded, published, records, crashes>>
        /\ pc = "search" => /\ entry[1] \notin DOMAIN files
                            /\ \/ packet' = packet /\ pc' = "search"
                               \/ packet' = << >> /\ pc' = "idle"
        /\ pc = "removed" => packet' = packet /\ pc' = "idle"
    BY DEF SearchSkip, PopEntry, Found
  <1>2. UNCHANGED <<metaFile, wiping>>
    BY Zenon DEF SearchSkip, PopEntry
  <1>3. /\ header' \in Nat \X Nat
        /\ meta' # << >> => meta'[1] = header'
        /\ underflow' = FALSE => underflow = FALSE
    BY <1>1, PopMetadataFacts
  <1>4. header'[2] \in 0 .. Slots - 1
    <2>1. header[2] - 1 \in Int
      BY DEF IInv, TableOK
    <2>2. (header[2] - 1) % Slots \in 0 .. Slots - 1
      BY <2>1, PlacesOfSlots, Zenon
    <2>3. header' = <<header[1], (header[2] - 1) % Slots>>
      BY <1>1 DEF PopMetadata, Popped
    <2> QED BY <2>2, <2>3
  <1>5. << >> \in Seq(Byte)
    OBVIOUS
  <1>6. DataOK' /\ Holding'
    BY <1>1, <1>2, <1>3, <1>4, <1>5 DEF DataOK, Holding
  <1>7. SessionFile' /\ RecordsWhole'
    BY <1>1 DEF SessionFile, RecordsWhole
  <1>8. NoTable' /\ Contents' /\ Kept'
    BY <1>1, <1>2, <1>3 DEF NoTable, Contents, Kept
  <1>9. LastPublished'
    BY <1>1, <1>3 DEF LastPublished
  <1> QED BY <1>6, <1>7, <1>8, <1>9

\* Every step preserves what the invariants say of the data files.
LEMMA NextData == IInv /\ IInv' /\ DataInv /\ [Next]_vars => DataInv'
PROOF
  <1> SUFFICES ASSUME IInv, IInv', DataInv, [Next]_vars PROVE DataInv'
    OBVIOUS
  <1>1. CASE UNCHANGED vars
    BY <1>1 DEF vars, flash, caller, history, DataInv, DataOK, SessionFile, RecordsWhole, Holding,
                NoTable, Contents, LastPublished, Kept
  <1>2. CASE Boot \/ BootCreate \/ BootWrite \/ Crash
    BY <1>2, BootsData
  <1>3. CASE Reformat \/ Unlink
    BY <1>3, ReformatsData
  <1>4. CASE OpenSession \/ OpenFile \/ OpenFails
    BY <1>4, OpensData
  <1>5. CASE SetSessionTime(1) \/ (\E size \in Sizes : PutBytes(size)) \/ CloseSession
    BY <1>5, RunsData
  <1>6. CASE GetLastPacket \/ SearchGet \/ PublishFail \/ Publish
    BY <1>6, SearchesData
  <1>7. CASE SearchRemove \/ SearchPop
    BY <1>7, RemovesData
  <1>8. CASE SearchSkip \/ PopEntry
    BY <1>8, PopsData
  <1> QED BY <1>1, <1>2, <1>3, <1>4, <1>5, <1>6, <1>7, <1>8 DEF Next, Search

\* The invariant of the data files, for any packet size and any number of sessions,
\* records and crashes.
LEMMA DataHolds == Spec => [](IInv /\ DataInv)
PROOF
  <1> QED BY Inductive, InitData, NextData, PTL DEF Spec

\* The variables stay within their types: in particular a session never writes beyond
\* the end of its file, and the count of entries in the header stays below Slots.
THEOREM TypesHold == Spec => []TypeOK
PROOF
  <1>1. IInv /\ DataInv => TypeOK
    BY DEF IInv, TableOK, DataInv, DataOK, Sessions, TypeOK
  <1> QED BY <1>1, DataHolds, PTL

\* putBytes() splits no record over two packets and mangles none, whatever the sizes of
\* the records, and the uploader holds a row of whole records.
THEOREM RecordsAreWhole == Spec => []WholeRecords
PROOF
  <1>1. IInv /\ DataInv => WholeRecords
    <2> SUFFICES ASSUME IInv, DataInv, ~wiping PROVE Whole(packet) /\ \A p \in recorded : Whole(p)
      BY DEF WholeRecords
    <2>1. wiping = FALSE
      BY Zenon DEF IInv, TableOK
    <2>2. Whole(<< >>)
      BY DEF Whole
    <2> QED BY <2>1, <2>2 DEF DataInv, Holding, RecordsWhole
  <1> QED BY <1>1, DataHolds, PTL

\* A packet once written stays, as it was written, in a listed file until it has been
\* published: no crash, and no order of the steps of the recorder and the uploader, loses it.
THEOREM NothingLost == Spec => []KeptUntilPublished
PROOF
  <1>1. IInv /\ DataInv => KeptUntilPublished
    <2> SUFFICES ASSUME IInv, DataInv, ~wiping, ~underflow
                 PROVE  /\ packet # << >> => packet \in recorded
                        /\ \A p \in recorded \ published :
                             \E s \in DOMAIN files : s \in Listed(meta) /\ p \in Packets(files[s])
      BY DEF KeptUntilPublished
    <2>1. wiping = FALSE /\ underflow = FALSE
      BY Zenon DEF IInv, TableOK
    <2>2. \A s \in DOMAIN files : s \in Listed(meta)
      BY DEF IInv, FilesListed
    <2> QED BY <2>1, <2>2 DEF DataInv, Holding, Kept
  <1> QED BY <1>1, DataHolds, PTL

=============================================================================
