------------------------------ MODULE Recorder ------------------------------
(***************************************************************************)
(* Recorder (cellular/recorder.cpp) over Deployment (cellular/deploy.cpp): *)
(* sessions of records are written to one data file each, a metadata file  *)
(* lists the sessions, and the uploader takes the last packet of the last  *)
(* session, publishes it and pops it.                                      *)
(*                                                                         *)
(* Every action ends at a step that reaches the flash, so that a crash can *)
(* come between any two of them; what an open file buffers reaches it when *)
(* the file is closed or synced.  Of the file system's calls only the one  *)
(* that opens a new data file fails.                                       *)
(*                                                                         *)
(* The metadata file is a sequence of slots of one size: slot 1 holds      *)
(* <<next_session_index, n_entries>>, the others <<session_idx,            *)
(* timestamp>>.  Its 32-bit byte offsets are slot numbers modulo Slots.  A *)
(* byte of a record is <<record, part, parts>>.                            *)
(*                                                                         *)
(* "Defect" marks a mutation of the definition after it.                   *)
(***************************************************************************)
EXTENDS Integers, Sequences

CONSTANTS
  Slots,          (* 2^29: eight-byte slots in 32-bit offsets               *)
  Packet,         (* SF_PACKET_SIZE                                         *)
  Sizes,          (* the sizes putBytes() is given                          *)
  MaxSessions,    (* bound of the model: sessions opened                    *)
  MaxRecords,     (* bound of the model: records put                        *)
  MaxCrashes      (* bound of the model: crashes                            *)

ASSUME SlotsAssumption   == Slots \in Nat /\ Slots > 2 * MaxSessions + 4
ASSUME PacketAssumption  == Packet \in Nat \ {0} /\ Sizes \subseteq 1 .. Packet
ASSUME BoundsAssumption  == {MaxSessions, MaxRecords, MaxCrashes} \subseteq Nat

VARIABLES
  meta,        (* METADATA_FILE: its slots                                  *)
  metaFile,    (* whether METADATA_FILE exists                              *)
  files,       (* the data files: a function from session to its bytes      *)
  header,      (* metadata_header, in memory                                *)
  valid,       (* metadata_header_valid                                     *)
  session,     (* pSession and its write position, buffer, time_set         *)
  pc,          (* where the operation under way is                          *)
  purpose,     (* for which of getLastPacket, popLastPacket a search is     *)
  entry,       (* the entry the search looks at                             *)
  packet,      (* the packet the uploader holds                             *)
  recorded,    (* the packets written to data files (history)               *)
  published,   (* the packets published (history)                           *)
  underflow,   (* n_entries was decremented at zero (history)               *)
  wiping,      (* a reformat() has begun and none has ended since (history) *)
  records,     (* records put (history)                                     *)
  crashes      (* crashes so far (history)                                  *)

flash   == <<meta, metaFile, files>>
caller  == <<pc, purpose, entry, packet>>
history == <<recorded, published, underflow, wiping, records, crashes>>
vars    == <<flash, header, valid, session, caller, history>>

\* pSession is null.
Closed == [open |-> FALSE, index |-> 0, pos |-> 0, buffer |-> << >>, timeSet |-> FALSE]

Pad  == <<0, 0, 0>>
Byte == Nat \X Nat \X Nat

-----------------------------------------------------------------------------
(***************************************************************************)
(* The metadata file.                                                      *)
(***************************************************************************)

\* A write of the header at offset zero.
WriteHeader(m, h) == IF m = << >> THEN <<h>> ELSE [m EXCEPT ![1] = h]

\* Defect: next_session_index is kept.
PushedNoNext(h) == <<h[1], h[2] + 1>>

Pushed(h) == <<(h[1] + 1) % Slots, (h[2] + 1) % Slots>>

\* Defect: n_entries does not wrap around.
PoppedUnwrapped(h) == <<h[1], h[2] - 1>>

Popped(h) == <<h[1], (h[2] - 1) % Slots>>

\* Defect: the length of the header is forgotten.
PopLengthBare(h) == h[2] % Slots

\* The length pop_metadata_entry truncates the file to.  ftruncate refuses the
\* lengths that wrapped around: they are negative or beyond the device.
PopLength(h) == (1 + h[2]) % Slots
TruncateOK(m, h) == PopLength(h) <= Len(m)

PopFile(m, h) ==
  LET written == WriteHeader(m, h)
  IN  IF TruncateOK(written, h) THEN SubSeq(written, 1, PopLength(h)) ELSE written

\* peek_last_metadata_entry: a failed read leaves the entry as it was.
Peek(m, h, old) ==
  LET slot == (1 + (h[2] - 1)) % Slots
  IN  IF slot < Len(m) THEN m[slot + 1] ELSE old

Listed(m) == {m[i][1] : i \in 2 .. Len(m)}

-----------------------------------------------------------------------------
(***************************************************************************)
(* A data file.                                                            *)
(***************************************************************************)

\* Bytes written at position pos of a file, over what is there.
Overlay(f, pos, bytes) ==
  LET end == IF Len(f) > pos + Len(bytes) THEN Len(f) ELSE pos + Len(bytes)
  IN  [i \in 1 .. end |-> IF i - pos \in 1 .. Len(bytes) THEN bytes[i - pos] ELSE f[i]]

\* Defect: the length is taken to be a multiple of the packet size.
LastLengthFull(f) == IF Len(f) < Packet THEN Len(f) ELSE Packet

\* bytes_to_read and bytes_to_pop.
LastLength(f) == IF Len(f) % Packet = 0 THEN Packet ELSE Len(f) % Packet

LastPacket(f) == SubSeq(f, Len(f) - LastLength(f) + 1, Len(f))
AllButLast(f) == SubSeq(f, 1, Len(f) - LastLength(f))

Without(s) == [t \in DOMAIN files \ {s} |-> files[t]]
WithFile(s, f) == [t \in DOMAIN files \union {s} |-> IF t = s THEN f ELSE files[t]]

-----------------------------------------------------------------------------
(***************************************************************************)
(* Power on, init() and crashes.                                           *)
(***************************************************************************)

Init ==
  /\ meta = << >> /\ metaFile = FALSE /\ files = [s \in {} |-> << >>]
  /\ header = <<0, 0>> /\ valid = FALSE /\ session = Closed
  /\ pc = "off" /\ purpose = "get" /\ entry = <<0, 0>> /\ packet = << >>
  /\ recorded = {} /\ published = {} /\ underflow = FALSE /\ wiping = FALSE
  /\ records = 0 /\ crashes = 0

\* init() reads the header of an existing file; a short read fails.
Boot ==
  /\ pc = "off" /\ metaFile
  /\ pc' = "idle"
  /\ valid' = (meta # << >>)
  /\ header' = IF meta # << >> THEN meta[1] ELSE <<0, 0>>
  /\ UNCHANGED <<flash, session, purpose, entry, packet, history>>

\* create_metadata_file() of the first boot and at the end of reformat(): open with
\* O_CREAT, then the header.
BootCreate ==
  /\ pc = "off" \/ (pc = "reformat" /\ DOMAIN files = {})
  /\ ~metaFile
  /\ pc' = "create"
  /\ metaFile' = TRUE
  /\ UNCHANGED <<meta, files, header, valid, session, purpose, entry, packet, history>>

BootWrite ==
  /\ pc = "create"
  /\ pc' = "idle"
  /\ meta' = WriteHeader(meta, <<0, 0>>)
  /\ header' = <<0, 0>> /\ valid' = TRUE
  /\ wiping' = (wiping /\ DOMAIN files # {}) /\ underflow' = FALSE
  /\ UNCHANGED <<metaFile, files, session, purpose, entry, packet, recorded, published,
                 records, crashes>>

\* A reset: what is in memory is lost.
Crash ==
  /\ pc # "off"
  /\ crashes < MaxCrashes
  /\ crashes' = crashes + 1
  /\ header' = <<0, 0>> /\ valid' = FALSE /\ session' = Closed
  /\ pc' = "off" /\ purpose' = "get" /\ entry' = <<0, 0>> /\ packet' = << >>
  /\ UNCHANGED <<flash, recorded, published, underflow, wiping, records>>

\* reformat(): what is recorded is given up, and the history begins again.
Reformat ==
  /\ pc = "idle" /\ ~session.open
  /\ metaFile \/ DOMAIN files # {}
  /\ pc' = "reformat"
  /\ recorded' = {} /\ published' = {} /\ wiping' = TRUE
  /\ UNCHANGED <<flash, header, valid, session, purpose, entry, packet, underflow,
                 records, crashes>>

\* rmtree() unlinks a file; readdir() gives them in any order.
Unlink ==
  /\ pc = "reformat"
  /\ \/ metaFile /\ metaFile' = FALSE /\ meta' = << >> /\ UNCHANGED files
     \/ \E s \in DOMAIN files : files' = Without(s) /\ UNCHANGED <<meta, metaFile>>
  /\ UNCHANGED <<header, valid, session, caller, history>>

-----------------------------------------------------------------------------
(***************************************************************************)
(* A session.                                                              *)
(***************************************************************************)

\* openSession(): push_metadata_entry, then the data file.
OpenSession ==
  /\ pc = "idle"
  /\ valid /\ ~session.open
  /\ header[1] < MaxSessions
  /\ pc' = "opening"
  /\ session' = [session EXCEPT !.index = header[1]]
  /\ header' = Pushed(header)
  /\ meta' = Append(WriteHeader(meta, Pushed(header)), <<header[1], 0>>)
  /\ UNCHANGED <<metaFile, files, valid, purpose, entry, packet, history>>

\* The open has O_CREAT and no O_TRUNC.
OpenFile ==
  /\ pc = "opening"
  /\ pc' = "idle"
  /\ files' = IF session.index \in DOMAIN files THEN files
              ELSE WithFile(session.index, << >>)
  /\ session' = [Closed EXCEPT !.open = TRUE, !.index = session.index]
  /\ UNCHANGED <<meta, metaFile, header, valid, purpose, entry, packet, history>>

\* It fails: pSession is null again, and the entry stays.
OpenFails ==
  /\ pc = "opening"
  /\ pc' = "idle" /\ session' = Closed
  /\ UNCHANGED <<flash, header, valid, purpose, entry, packet, history>>

\* setSessionTime(): the first call stores the time in the session's entry.
SetSessionTime(time) ==
  /\ pc = "idle"
  /\ session.open /\ ~session.timeSet
  /\ session' = [session EXCEPT !.timeSet = TRUE]
  /\ meta' = [i \in 1 .. Len(meta) |->
                IF i > 1 /\ meta[i][1] = session.index THEN <<session.index, time>>
                ELSE meta[i]]
  /\ UNCHANGED <<metaFile, files, header, valid, caller, history>>

Padded(buffer) == [i \in 1 .. Packet |-> IF i <= Len(buffer) THEN buffer[i] ELSE Pad]

\* A flush of bytes to the session's file.
Flush(bytes) ==
  /\ files' = [files EXCEPT ![session.index] = Overlay(@, session.pos, bytes)]
  /\ recorded' = IF bytes = << >> THEN recorded ELSE recorded \union {bytes}

Record(size) == [i \in 1 .. size |-> <<records + 1, i, size>>]

\* Defect: the space left is not looked at before the record is split.
PutBytesSplit(size) ==
  LET whole == session.buffer \o Record(size)
  IN  /\ pc = "idle"
      /\ session.open
      /\ records < MaxRecords
      /\ records' = records + 1
      /\ IF Len(whole) > Packet
         THEN /\ Flush(SubSeq(whole, 1, Packet))
              /\ session' = [session EXCEPT !.pos = @ + Packet,
                               !.buffer = SubSeq(whole, Packet + 1, Len(whole))]
         ELSE /\ session' = [session EXCEPT !.buffer = whole]
              /\ UNCHANGED <<files, recorded>>
      /\ UNCHANGED <<meta, metaFile, header, valid, caller, published, underflow, wiping, crashes>>

\* putBytes(): a record that does not fit flushes the padded buffer first.
PutBytes(size) ==
  /\ pc = "idle"
  /\ session.open
  /\ records < MaxRecords
  /\ records' = records + 1
  /\ IF size > Packet - Len(session.buffer)
     THEN /\ Flush(Padded(session.buffer))
          /\ session' = [session EXCEPT !.pos = @ + Packet, !.buffer = Record(size)]
     ELSE /\ session' = [session EXCEPT !.buffer = @ \o Record(size)]
          /\ UNCHANGED <<files, recorded>>
  /\ UNCHANGED <<meta, metaFile, header, valid, caller, published, underflow, wiping, crashes>>

\* closeSession(): the rest of the buffer is written, unpadded.
CloseSession ==
  /\ pc = "idle"
  /\ session.open
  /\ Flush(session.buffer)
  /\ session' = Closed
  /\ UNCHANGED <<meta, metaFile, header, valid, caller, published, underflow, wiping, records, crashes>>

-----------------------------------------------------------------------------
(***************************************************************************)
(* The uploader: getLastPacket(), publish, popLastPacket().                *)
(***************************************************************************)

\* Both look for the last session with data.  The caller has seen hasData(),
\* and an open session makes both return at once.  A count beyond MaxSessions
\* is where the model stops.
GetLastPacket ==
  /\ pc = "idle"
  /\ ~session.open
  /\ header[2] \in 1 .. MaxSessions
  /\ pc' = "search" /\ purpose' = "get"
  /\ entry' = Peek(meta, header, entry)
  /\ UNCHANGED <<flash, header, valid, session, packet, history>>

\* Defect: the entry is cut off and the header on flash keeps its count.
PopMetadataUnsaved ==
  /\ header' = Popped(header)
  /\ meta' = SubSeq(meta, 1, Len(meta) - 1)
  /\ underflow' = (underflow \/ header[2] = 0)

PopMetadata ==
  /\ header' = Popped(header)
  /\ meta' = PopFile(meta, Popped(header))
  /\ underflow' = (underflow \/ header[2] = 0)

Found == entry[1] \in DOMAIN files

\* Defect: the entry is left in the table.
SearchSkipKeep ==
  /\ pc = "search"
  /\ ~Found
  /\ entry' = Peek(meta, header, entry)
  /\ UNCHANGED <<flash, header, valid, session, pc, purpose, packet, history>>

\* openLastSession(): the entry has no file, it is popped and the next one
\* looked at.  No test of n_entries: at zero the header is read as an entry.
SearchSkip ==
  /\ pc = "search"
  /\ ~Found
  /\ PopMetadata
  /\ IF TruncateOK(WriteHeader(meta, header'), header')
     THEN /\ entry' = Peek(meta', header', entry)
          /\ UNCHANGED <<pc, packet>>
     ELSE /\ pc' = "idle" /\ packet' = << >>
          /\ UNCHANGED entry
  /\ UNCHANGED <<metaFile, files, valid, session, purpose, recorded, published, wiping, records,
                 crashes>>

\* The entry's file is empty and is removed; the entry stays.
SearchRemove ==
  /\ pc = "search"
  /\ Found /\ files[entry[1]] = << >>
  /\ files' = Without(entry[1])
  /\ UNCHANGED <<meta, metaFile, header, valid, session, caller, history>>

SearchGet ==
  /\ pc = "search" /\ purpose = "get"
  /\ Found /\ files[entry[1]] # << >>
  /\ packet' = LastPacket(files[entry[1]])
  /\ pc' = "publish"
  /\ UNCHANGED <<flash, header, valid, session, purpose, entry, history>>

\* The publication fails, or succeeds and is followed by popLastPacket().
PublishFail ==
  /\ pc = "publish"
  /\ pc' = "idle" /\ packet' = << >>
  /\ UNCHANGED <<flash, header, valid, session, purpose, entry, history>>

Publish ==
  /\ pc = "publish"
  /\ published' = published \union {packet}
  /\ pc' = "search" /\ purpose' = "pop"
  /\ entry' = Peek(meta, header, entry)
  /\ UNCHANGED <<flash, header, valid, session, packet, recorded, underflow, wiping, records,
                 crashes>>

SearchPop ==
  /\ pc = "search" /\ purpose = "pop"
  /\ Found /\ files[entry[1]] # << >>
  /\ packet' = << >>
  /\ IF AllButLast(files[entry[1]]) = << >>
     THEN files' = Without(entry[1]) /\ pc' = "removed"
     ELSE files' = WithFile(entry[1], AllButLast(files[entry[1]])) /\ pc' = "idle"
  /\ UNCHANGED <<meta, metaFile, header, valid, session, purpose, entry, history>>

\* The end of popLastPacket() of a session's only packet.
PopEntry ==
  /\ pc = "removed"
  /\ PopMetadata
  /\ pc' = "idle"
  /\ UNCHANGED <<metaFile, files, valid, session, purpose, entry, packet,
                 recorded, published, wiping, records, crashes>>

Search == SearchSkip \/ SearchRemove \/ SearchGet \/ SearchPop

Next ==
  \/ Boot \/ BootCreate \/ BootWrite \/ Crash
  \/ Reformat \/ Unlink
  \/ OpenSession \/ OpenFile \/ OpenFails \/ SetSessionTime(1)
  \/ (\E size \in Sizes : PutBytes(size)) \/ CloseSession
  \/ GetLastPacket \/ Search \/ Publish \/ PublishFail \/ PopEntry

Spec == Init /\ [][Next]_vars

\* A search goes on once it is under way: it is a loop of a running thread.
FairSpec == Spec /\ WF_vars(Search)

-----------------------------------------------------------------------------
(***************************************************************************)
(* Properties.                                                             *)
(***************************************************************************)

\* The type invariant.
TypeOK ==
  /\ meta \in Seq(Nat \X Nat) /\ metaFile \in BOOLEAN
  /\ DOMAIN files \subseteq Nat
  /\ \A s \in DOMAIN files : files[s] \in Seq(Byte)
  /\ header \in Nat \X (0 .. Slots - 1) /\ valid \in BOOLEAN
  /\ session \in [open : BOOLEAN, index : Nat, pos : Nat, buffer : Seq(Byte), timeSet : BOOLEAN]
  /\ Len(session.buffer) <= Packet
  /\ pc \in {"off", "create", "idle", "opening", "search", "publish", "removed",
             "reformat"}
  /\ purpose \in {"get", "pop"}
  /\ entry \in Nat \X Nat /\ packet \in Seq(Byte)
  /\ underflow \in BOOLEAN /\ wiping \in BOOLEAN /\ records \in Nat /\ crashes \in Nat

\* The order of the two writes of openSession() and of popLastPacket() leaves
\* no orphan: whenever the device stops, each data file is listed in the
\* metadata file.  A reformat() removes them in any order; one that is cut short
\* may leave files that no table lists, until another ends.  Excused too is a table
\* whose count ran below zero (NumFiles): three sessions later the count is one, and
\* the next pop cuts off all of them.
FilesListed == ~wiping /\ ~underflow => \A s \in DOMAIN files : s \in Listed(meta)

\* A session starts with a new file.  Since the file is opened without O_TRUNC,
\* a reused session index would mix two sessions in one file.
FreshSession == pc = "opening" /\ ~wiping => session.index \notin DOMAIN files

\* No record is split over two packets, and none is mangled: each packet
\* written is a row of whole records, with padding at its end only.
Whole(p) ==
  \A i \in 1 .. Len(p) :
    IF p[i] = Pad THEN i < Len(p) => p[i + 1] = Pad
    ELSE /\ p[i][2] > 1 => i > 1 /\ p[i - 1] = [p[i] EXCEPT ![2] = @ - 1]
         /\ p[i][2] < p[i][3] => i < Len(p) /\ p[i + 1] = [p[i] EXCEPT ![2] = @ + 1]

WholeRecords == ~wiping => Whole(packet) /\ \A p \in recorded : Whole(p)

\* A packet once written is read back and published as it was written, and
\* stays in a listed file until it has been published, crashes or not.
Packets(f) ==
  {SubSeq(f, k * Packet + 1, IF (k + 1) * Packet < Len(f) THEN (k + 1) * Packet ELSE Len(f))
     : k \in {j \in 0 .. Len(f) : j * Packet < Len(f)}}

KeptUntilPublished ==
  ~wiping /\ ~underflow =>
  /\ packet # << >> => packet \in recorded
  /\ \A p \in recorded \ published :
       \E s \in DOMAIN files : s \in Listed(meta) /\ p \in Packets(files[s])

\* The header in memory, the one on flash and the number of entries agree, but
\* while reformat() runs, as long as no search ran past the first entry.
CountAgrees ==
  valid /\ ~underflow /\ pc \notin {"reformat", "create"} => /\ header = meta[1]
                         /\ header[2] = Len(meta) - 1

\* The loop of openLastSession() ends.
SearchEnds == pc = "search" ~> pc # "search"

\* What recorder.hpp:74 says of getNumFiles(): "Gets number of files in
\* filesystem".  Between two operations, the count is the number of entries.
NumFiles == pc = "idle" /\ valid => header[2] = Len(meta) - 1

=============================================================================
