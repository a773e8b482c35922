--------------------------- MODULE Replays_proofs ----------------------------
(***************************************************************************)
(* What the accounts of one thing agree about, for every value of the      *)
(* constants: what is sent and what arrives (a sandbox's files, artifacts, *)
(* projects, reported events), the model and broker calls of an            *)
(* entrypoint, the single assistant's conversation, the decisions on a     *)
(* pool's proposals, and an archive of a directory in use.  The parts are  *)
(* those of Services, under the same names and variables; each has its own *)
(* section: its inductive invariant, the lemma of one step, the theorem.   *)
(***************************************************************************)
EXTENDS Services, Sequences, FiniteSets, FiniteSetTheorems, SequenceTheorems,
        WellFoundedInduction, TLAPS

-----------------------------------------------------------------------------
(* Files of a sandbox.  What a writer has sent is an unbroken beginning of *)
(* one version of its file, whoever else wrote what; and a receipt that    *)
(* acknowledges a content was given when the file had it.                  *)

FileMarks == [by : Writers \cup {Original}, version : Nat, at : Nat]
FileTexts == Seq(FileMarks)

\* The first n chunks of a version of a writer's file.
Beginning(w, v, n) == [i \in 1 .. n |-> [by |-> w, version |-> v, at |-> i]]

\* What is known of a write.
WriterSound(w, c) ==
    /\ DOMAIN c = {"phase", "calls", "base", "before", "sent"}
    /\ c.before \in Files!Versions
    /\ c.sent \in FileTexts /\ c.sent = Beginning(w, c.before, Len(c.sent))
    /\ c.phase = "returned" => Len(c.sent) = FileChunks /\ c.sent \in contents

FilesInv ==
    /\ content \in contents
    /\ \A r \in receipts : r.result = None \/ r.result \in contents
    /\ local \in [Uploaders -> Files!Versions]
    /\ DOMAIN writer = Writers /\ \A w \in Writers : WriterSound(w, writer[w])
    /\ DOMAIN reading = {"phase", "expected", "got"}
    /\ reading.phase = "returned" => reading.got \in contents

\* The first chunks of a file, and one more.
LEMMA BeginningGrows ==
    ASSUME Files!RemoteFilesAssumption, NEW w \in Writers, NEW v \in Files!Versions, NEW n \in Nat
    PROVE  /\ Beginning(w, v, n) \in FileTexts /\ Len(Beginning(w, v, n)) = n
           /\ Append(Beginning(w, v, n), [by |-> w, version |-> v, at |-> n + 1]) = Beginning(w, v, n + 1)
<1>1. v \in Nat
  BY DEF Files!Versions, Files!RemoteFilesAssumption
<1>2. \A i \in Nat : [by |-> w, version |-> v, at |-> i] \in FileMarks
  BY <1>1 DEF FileMarks
<1>3. \A m \in Nat : Beginning(w, v, m) \in FileTexts /\ Len(Beginning(w, v, m)) = m
  BY <1>2 DEF Beginning, FileTexts
<1>4. PICK e : e = [by |-> w, version |-> v, at |-> n + 1]
  OBVIOUS
<1>5. PICK s : s = Beginning(w, v, n)
  OBVIOUS
<1>6. e \in FileMarks /\ s \in Seq(FileMarks) /\ Len(s) = n
  BY <1>2, <1>3, <1>4, <1>5 DEF FileTexts
<1>7. Append(s, e) \in Seq(FileMarks) /\ Len(Append(s, e)) = n + 1
  BY <1>6
<1>8. \A i \in 1 .. n + 1 : Append(s, e)[i] = [by |-> w, version |-> v, at |-> i]
  <2>1. \A i \in 1 .. n : Append(s, e)[i] = s[i]
    BY <1>6
  <2>2. Append(s, e)[n + 1] = e
    BY <1>6
  <2>3. \A i \in 1 .. n : s[i] = [by |-> w, version |-> v, at |-> i]
    BY <1>5 DEF Beginning
  <2>4. SUFFICES ASSUME NEW i \in 1 .. n + 1
                 PROVE  Append(s, e)[i] = [by |-> w, version |-> v, at |-> i]
    OBVIOUS
  <2>5. CASE i = n + 1
    BY <1>4, <2>2, <2>5
  <2>6. CASE i \in 1 .. n
    <3>1. Append(s, e)[i] = s[i]
      BY <2>1, <2>6
    <3>2. QED
      BY <2>3, <2>6, <3>1
  <2>7. i = n + 1 \/ i \in 1 .. n
    OBVIOUS
  <2>8. QED
    BY <2>5, <2>6, <2>7
<1>9. PICK a : a = Append(s, e)
  OBVIOUS
<1>10. Append(s, e) = Beginning(w, v, n + 1)
  <2>1. a \in Seq(FileMarks) /\ Len(a) = n + 1
    BY <1>7, <1>9
  <2>2. a = [i \in 1 .. n + 1 |-> a[i]]
    BY <2>1
  <2>3. a = [i \in 1 .. n + 1 |-> [by |-> w, version |-> v, at |-> i]]
    BY <1>8, <1>9, <2>2
  <2>4. QED
    BY <1>9, <2>3 DEF Beginning
<1>11. QED
  BY <1>3, <1>4, <1>5, <1>10

LEMMA FilesInit == ASSUME Files!RemoteFilesAssumption, Files!Init PROVE FilesInv
<1>1. 1 \in Files!Versions
  BY DEF Files!Versions, Files!RemoteFilesAssumption
<1>2. content \in contents /\ receipts = {} /\ local = [u \in Uploaders |-> 1]
      /\ reading = [phase |-> "idle", expected |-> None, got |-> <<>>]
  BY DEF Files!Init
<1>3. DOMAIN writer = Writers
  BY DEF Files!Init
<1>4. ASSUME NEW w \in Writers PROVE WriterSound(w, writer[w])
  <2>1. PICK base : writer[w] = [phase |-> "idle", calls |-> 0, base |-> base, before |-> 1, sent |-> <<>>]
    BY DEF Files!Init
  <2>2. PICK c : c = writer[w]
    OBVIOUS
  <2>3. DOMAIN c = {"phase", "calls", "base", "before", "sent"} /\ c.before = 1 /\ c.sent = <<>>
        /\ c.phase = "idle"
    BY <2>1, <2>2
  <2>4. <<>> \in FileTexts /\ <<>> = Beginning(w, 1, Len(<<>>))
    BY DEF FileTexts, Beginning
  <2>5. WriterSound(w, c)
    BY <1>1, <2>3, <2>4 DEF WriterSound
  <2>6. QED
    BY <2>2, <2>5
<1>5. local \in [Uploaders -> Files!Versions]
  BY <1>1, <1>2
<1>6. QED
  BY <1>2, <1>3, <1>4, <1>5 DEF FilesInv

\* A step of one writer.
LEMMA FilesOfWriter ==
    ASSUME FilesInv, NEW w \in Writers, NEW c, writer' = [writer EXCEPT ![w] = c],
           WriterSound(w, c), UNCHANGED <<content, contents, receipts, local, reading>>
    PROVE  FilesInv'
<1>1. DOMAIN writer' = Writers
  BY DEF FilesInv
<1>2. \A v \in Writers : WriterSound(v, writer[v])'
  <2>1. SUFFICES ASSUME NEW v \in Writers PROVE WriterSound(v, writer'[v])
    BY DEF WriterSound
  <2>2. CASE v = w
    BY <2>2 DEF FilesInv
  <2>3. CASE v # w
    <3>1. writer'[v] = writer[v]
      BY <2>3 DEF FilesInv
    <3>2. QED
      BY <3>1 DEF FilesInv
  <2>4. QED
    BY <2>2, <2>3
<1>3. QED
  BY <1>1, <1>2 DEF FilesInv

\* A call begins with the version its file has.
LEMMA FilesCall ==
    ASSUME FilesInv, Files!RemoteFilesAssumption, NEW w \in Writers, Files!CallWrite(w)
    PROVE  FilesInv'
<1>1. PICK c : c = [writer[w] EXCEPT !.phase = "send", !.calls = writer[w].calls + 1,
                                     !.before = Files!Version(w), !.sent = <<>>]
  OBVIOUS
<1>2. WriterSound(w, writer[w])
  BY DEF FilesInv
<1>3. Files!Version(w) \in Files!Versions
  BY DEF FilesInv, Files!Version, Files!Versions, Files!RemoteFilesAssumption
<1>4. DOMAIN c = {"phase", "calls", "base", "before", "sent"} /\ c.phase = "send"
      /\ c.before = Files!Version(w) /\ c.sent = <<>>
  BY <1>1, <1>2 DEF WriterSound
<1>5. <<>> \in FileTexts /\ <<>> = Beginning(w, Files!Version(w), Len(<<>>))
  BY DEF FileTexts, Beginning
<1>6. WriterSound(w, c)
  BY <1>3, <1>4, <1>5 DEF WriterSound
<1>7. /\ writer' = [writer EXCEPT ![w] = c]
      /\ UNCHANGED <<content, contents, receipts, local, reading>>
  BY <1>1 DEF Files!CallWrite
<1>8. QED
  BY <1>6, <1>7, FilesOfWriter

\* A chunk is sent: the next one of the version with which the call began.
LEMMA FilesSend ==
    ASSUME FilesInv, Files!RemoteFilesAssumption, NEW w \in Writers, Files!SendChunk(w)
    PROVE  FilesInv'
<1>1. WriterSound(w, writer[w])
  BY DEF FilesInv
<1>2. UNCHANGED <<content, contents, receipts, local, reading>>
  BY DEF Files!SendChunk
<1>3. CASE Files!Unchanged(w)
  <2>1. PICK n \in Nat : n = Len(writer[w].sent)
    BY <1>1 DEF WriterSound, FileTexts
  <2>2. PICK e : e = [by |-> w, version |-> writer[w].before, at |-> n + 1]
    OBVIOUS
  <2>3. PICK c : c = [writer[w] EXCEPT !.phase = "reply", !.sent = Append(writer[w].sent, e)]
    OBVIOUS
  <2>4. Files!Version(w) = writer[w].before
    BY <1>3 DEF Files!Unchanged
  <2>5. writer' = [writer EXCEPT ![w] = [writer[w] EXCEPT !.phase = "reply",
                      !.sent = Append(writer[w].sent,
                                      [by |-> w, version |-> Files!Version(w),
                                       at |-> Len(writer[w].sent) + 1])]]
    BY <1>3 DEF Files!SendChunk
  <2>6. writer' = [writer EXCEPT ![w] = c]
    BY <2>1, <2>2, <2>3, <2>4, <2>5
  <2>7. DOMAIN c = {"phase", "calls", "base", "before", "sent"} /\ c.phase = "reply"
        /\ c.before = writer[w].before /\ c.sent = Append(writer[w].sent, e)
    BY <1>1, <2>3 DEF WriterSound
  <2>8. writer[w].before \in Files!Versions /\ writer[w].sent = Beginning(w, writer[w].before, n)
    BY <1>1, <2>1 DEF WriterSound
  <2>9. Append(Beginning(w, writer[w].before, n), e) = Beginning(w, writer[w].before, n + 1)
    BY <2>2, <2>8, BeginningGrows
  <2>10. c.sent = Beginning(w, c.before, n + 1)
    BY <2>7, <2>8, <2>9
  <2>11. n + 1 \in Nat /\ c.before \in Files!Versions
    BY <2>7, <2>8
  <2>12. Beginning(w, c.before, n + 1) \in FileTexts /\ Len(Beginning(w, c.before, n + 1)) = n + 1
    BY <2>11, BeginningGrows
  <2>13. WriterSound(w, c)
    BY <2>7, <2>10, <2>11, <2>12, Zenon DEF WriterSound
  <2>14. QED
    BY <1>2, <2>6, <2>13, FilesOfWriter
<1>4. CASE ~Files!Unchanged(w)
  <2>1. PICK c : c = [writer[w] EXCEPT !.phase = "raised"]
    OBVIOUS
  <2>2. writer' = [writer EXCEPT ![w] = c]
    BY <1>4, <2>1 DEF Files!SendChunk
  <2>3. WriterSound(w, c)
    BY <1>1, <2>1 DEF WriterSound
  <2>4. QED
    BY <1>2, <2>2, <2>3, FilesOfWriter
<1>5. QED
  BY <1>3, <1>4

\* A write goes to a phase: it has returned only if the file had what was sent.
LEMMA FilesPhase ==
    ASSUME FilesInv, NEW w \in Writers, NEW phase, writer' = [writer EXCEPT ![w].phase = phase],
           phase = "returned" => Len(writer[w].sent) = FileChunks /\ writer[w].sent \in contents,
           UNCHANGED <<content, contents, receipts, local, reading>>
    PROVE  FilesInv'
<1>1. WriterSound(w, writer[w])
  BY DEF FilesInv
<1>2. PICK c : c = [writer[w] EXCEPT !.phase = phase]
  OBVIOUS
<1>3. DOMAIN c = {"phase", "calls", "base", "before", "sent"} /\ c.phase = phase
      /\ c.before = writer[w].before /\ c.sent = writer[w].sent
  BY <1>1, <1>2 DEF WriterSound
<1>4. WriterSound(w, c)
  BY <1>1, <1>3 DEF WriterSound
<1>5. writer' = [writer EXCEPT ![w] = c]
  BY <1>2
<1>6. QED
  BY <1>4, <1>5, FilesOfWriter

\* An answer: a write returns only with a receipt that names what it sent.
LEMMA FilesReply ==
    ASSUME FilesInv, Files!RemoteFilesAssumption, NEW w \in Writers, Files!ReadReceipt(w)
    PROVE  FilesInv'
<1>1. UNCHANGED <<content, contents, receipts, local, reading>>
  BY DEF Files!ReadReceipt
<1>2. PICK r \in receipts :
         writer' = [writer EXCEPT ![w].phase =
            IF ~Files!Accepted(w, r) \/ ~Files!Unchanged(w) THEN "raised"
            ELSE IF Files!AllSent(writer[w].sent) THEN "returned" ELSE "send"]
  BY DEF Files!ReadReceipt, Files!Receipt
<1>3. PICK phase : phase = IF ~Files!Accepted(w, r) \/ ~Files!Unchanged(w) THEN "raised"
                           ELSE IF Files!AllSent(writer[w].sent) THEN "returned" ELSE "send"
  OBVIOUS
<1>4. phase = "returned" => Files!Accepted(w, r) /\ Files!AllSent(writer[w].sent)
  BY <1>3
<1>5. phase = "returned" => Len(writer[w].sent) = FileChunks /\ r.result = writer[w].sent
  BY <1>4 DEF Files!Accepted, Files!AllSent
<1>6. WriterSound(w, writer[w])
  BY DEF FilesInv
<1>7. writer[w].sent # None
  BY <1>6 DEF WriterSound, FileTexts, FileMarks, Files!RemoteFilesAssumption
<1>8. phase = "returned" => writer[w].sent \in contents
  BY <1>5, <1>7 DEF FilesInv
<1>9. writer' = [writer EXCEPT ![w].phase = phase]
  BY <1>2, <1>3
<1>10. QED
  BY <1>1, <1>5, <1>8, <1>9, FilesPhase

\* No answer.
LEMMA FilesFail ==
    ASSUME FilesInv, NEW w \in Writers, Files!WriteFails(w) PROVE FilesInv'
<1>1. writer' = [writer EXCEPT ![w].phase = "raised"]
      /\ UNCHANGED <<content, contents, receipts, local, reading>>
  BY DEF Files!WriteFails
<1>2. QED
  BY <1>1, FilesPhase

\* The service runs a request: what it acknowledges is what the file then has.
LEMMA FilesApply ==
    ASSUME FilesInv, NEW request \in wires, Files!Apply(request) PROVE FilesInv'
<1>1. local' = local /\ writer' = writer /\ reading' = reading
  BY DEF Files!Apply
<1>2. content \in contents /\ \A r \in receipts : r.result = None \/ r.result \in contents
  BY DEF FilesInv
<1>3. /\ contents \subseteq contents' /\ content' \in contents'
      /\ \A r \in receipts' : r.result = None \/ r.result \in contents'
  <2>1. CASE Files!Receipt(request.key) # {}
    BY <1>2, <2>1 DEF Files!Apply
  <2>2. CASE Files!Receipt(request.key) = {}
    <3>1. PICK fits : fits = (request.expected = content)
      OBVIOUS
    <3>2. PICK result : result = IF request.offset = 0 THEN <<request.piece>>
                                 ELSE SubSeq(content, 1, request.offset) \o <<request.piece>>
      OBVIOUS
    <3>3. PICK added : added = IF fits THEN result ELSE None
      OBVIOUS
    <3>4. PICK r : r = [request |-> request, result |-> added]
      OBVIOUS
    <3>5. /\ content' = IF fits THEN result ELSE content
          /\ contents' = contents \cup {content'}
          /\ receipts' = receipts \cup {r}
      BY <2>2, <3>1, <3>2, <3>3, <3>4 DEF Files!Apply
    <3>6. r.result = added
      BY <3>4
    <3>7. added = None \/ added = content'
      BY <3>3, <3>5
    <3>8. QED
      BY <1>2, <3>5, <3>6, <3>7
  <2>3. QED
    BY <2>1, <2>2
<1>4. \A w \in Writers : WriterSound(w, writer[w])'
  BY <1>1, <1>3 DEF FilesInv, WriterSound
<1>5. QED
  BY <1>1, <1>3, <1>4 DEF FilesInv

\* A local file is edited.
LEMMA FilesEdit ==
    ASSUME FilesInv, Files!RemoteFilesAssumption, NEW u \in Uploaders, Files!Edit(u) PROVE FilesInv'
<1>1. UNCHANGED <<content, contents, receipts, writer, reading>>
  BY DEF Files!Edit
<1>2. MaxFileEdits \in Nat
  BY DEF Files!RemoteFilesAssumption
<1>3. local[u] + 1 \in Files!Versions
  BY <1>2 DEF FilesInv, Files!Versions, Files!Edit
<1>4. local' = [local EXCEPT ![u] = local[u] + 1]
  BY DEF Files!Edit
<1>5. local' \in [Uploaders -> Files!Versions]
  BY <1>3, <1>4 DEF FilesInv
<1>6. QED
  BY <1>1, <1>5 DEF FilesInv, WriterSound

\* The reader: bytes are returned only when all of them are the content of the last page.
LEMMA FilesRead ==
    ASSUME FilesInv, Files!CallRead \/ Files!ReadChunk \/ Files!ReadFails PROVE FilesInv'
<1>1. UNCHANGED <<content, contents, receipts, local, writer>>
  BY DEF Files!CallRead, Files!ReadChunk, Files!ReadFails
<1>2. content \in contents /\ DOMAIN reading = {"phase", "expected", "got"}
  BY DEF FilesInv
<1>3. DOMAIN reading' = {"phase", "expected", "got"}
      /\ (reading'.phase = "returned" => reading'.got \in contents)
  <2>1. CASE Files!CallRead \/ Files!ReadFails
    <3>1. PICK phase : reading' = [reading EXCEPT !.phase = phase] /\ phase # "returned"
      BY <2>1 DEF Files!CallRead, Files!ReadFails
    <3>2. QED
      BY <1>2, <3>1
  <2>2. CASE Files!ReadChunk
    <3>1. PICK chunk : chunk = content[Len(reading.got) + 1]
      OBVIOUS
    <3>2. PICK eof : eof = (Len(reading.got) + 1 = Len(content))
      OBVIOUS
    <3>3. PICK page : page = [hash |-> content, chunk |-> chunk, eof |-> eof]
      OBVIOUS
    <3>4. reading' = IF ~Files!ChunkVerified(reading, page)
                     THEN [reading EXCEPT !.phase = "raised"]
                     ELSE [reading EXCEPT !.expected = page.hash,
                                          !.got = Append(reading.got, page.chunk),
                                          !.phase = IF page.eof THEN "returned" ELSE "reading"]
      BY <2>2, <3>1, <3>2, <3>3 DEF Files!ReadChunk
    <3>5. CASE ~Files!ChunkVerified(reading, page)
      BY <1>2, <3>4, <3>5
    <3>6. CASE Files!ChunkVerified(reading, page)
      <4>1. page.eof => Append(reading.got, page.chunk) = page.hash
        BY <3>6 DEF Files!ChunkVerified
      <4>2. page.hash = content
        BY <3>3
      <4>3. PICK phase : phase = IF page.eof THEN "returned" ELSE "reading"
        OBVIOUS
      <4>4. DOMAIN reading' = {"phase", "expected", "got"} /\ reading'.phase = phase
            /\ reading'.got = Append(reading.got, page.chunk)
        BY <1>2, <3>4, <3>6, <4>3
      <4>5. phase = "returned" => reading'.got \in contents
        BY <1>2, <4>1, <4>2, <4>3, <4>4
      <4>6. QED
        BY <4>4, <4>5
    <3>7. QED
      BY <3>5, <3>6
  <2>3. QED
    BY <2>1, <2>2
<1>4. QED
  BY <1>1, <1>3 DEF FilesInv, WriterSound

LEMMA FilesPreserved ==
    ASSUME FilesInv, Files!RemoteFilesAssumption, [Files!Next]_(Files!vars) PROVE FilesInv'
<1>1. CASE UNCHANGED Files!vars
  BY <1>1 DEF Files!vars, FilesInv, WriterSound
<1>2. CASE Files!Next
  BY <1>2, FilesCall, FilesSend, FilesReply, FilesFail, FilesApply, FilesEdit, FilesRead DEF Files!Next
<1>3. QED
  BY <1>1, <1>2

LEMMA FilesHold ==
    ASSUME FilesInv PROVE Files!WriteIsWhole /\ Files!ReadIsWhole
<1>1. ASSUME NEW w \in Writers, writer[w].phase = "returned"
      PROVE  /\ writer[w].sent \in contents
             /\ \E v \in Files!Versions :
                   writer[w].sent = [i \in 1 .. FileChunks |-> [by |-> w, version |-> v, at |-> i]]
  <2>1. WriterSound(w, writer[w])
    BY DEF FilesInv
  <2>2. QED
    BY <1>1, <2>1 DEF WriterSound, Beginning
<1>2. QED
  BY <1>1 DEF FilesInv, Files!WriteIsWhole, Files!ReadIsWhole

\* A write that returns was whole: the file has at one moment held exactly the caller's
\* chunks, all of one version; and a read returns one content the file has had
\* (_sandbox_files.py:104-193).
THEOREM FilesWhole ==
    ASSUME Files!RemoteFilesAssumption
    PROVE  Files!Spec => [](Files!WriteIsWhole /\ Files!ReadIsWhole)
<1>1. Files!Init => FilesInv
  BY FilesInit
<1>2. FilesInv /\ [Files!Next]_(Files!vars) => FilesInv'
  BY FilesPreserved
<1>3. FilesInv => Files!WriteIsWhole /\ Files!ReadIsWhole
  BY FilesHold
<1>4. QED
  BY <1>1, <1>2, <1>3, PTL DEF Files!Spec

-----------------------------------------------------------------------------
(* Artifacts.  The store never holds more chunks than there are, because a *)
(* request for one, early or late, is for an offset below their number;    *)
(* what is verified or committed has them all, and stays so.               *)

\* A record of the store: of all chunks once they are verified, with room for one that
\* is not durable yet.
ObjectSound(o) ==
    /\ o = [status |-> o.status, stored |-> o.stored, pending |-> o.pending]
    /\ o.status \in {"absent", "uploading", "verifying", "committed"}
    /\ o.stored \in Nat /\ o.stored <= BlobChunks /\ o.pending \in {TRUE, FALSE}
    /\ o.pending = TRUE => o.status = "uploading" /\ o.stored < BlobChunks
    /\ o.status \in {"verifying", "committed"} => o.stored = BlobChunks

PutPhases == {"none", "idle", "begin", "put", "confirm", "commit", "verify", "returned", "raised"}
Puts == [phase : PutPhases, offset : Nat, failed : {TRUE, FALSE}, calls : Nat]

\* An upload asks for a chunk there is, and returns when the object is committed.
PutSound(p, o) ==
    /\ p \in Puts /\ p.offset <= BlobChunks
    /\ p.phase = "begin" => p.offset = 0
    /\ p.phase \in {"put", "confirm"} => p.offset < BlobChunks
    /\ p.phase = "returned" => o.status = "committed"

\* A reader has read as many chunks as it counts, and goes on while there are more.
GetSound ==
    /\ get.at \in Nat
    /\ get.phase = "reading" => get.at < BlobChunks
    /\ get.phase = "returned" => get.at = BlobChunks /\ get.intact

\* A request under way is for a chunk there is.
Reaches(action, offset) == offset \in Nat /\ (action = "put" => offset < BlobChunks)

BlobsInv ==
    /\ ObjectSound(object) /\ GetSound
    /\ put = [d \in Blobs!Sessions |-> put[d]]
    /\ \A d \in Blobs!Sessions : PutSound(put[d], object)
    /\ \A r \in transit : Reaches(r[2], r[3])

LEMMA BlobsInit == ASSUME Blobs!ArtifactsAssumption, Blobs!Init PROVE BlobsInv
<1>1. BlobChunks \in Nat \ {0}
  BY DEF Blobs!ArtifactsAssumption
<1>2. object = [status |-> "absent", stored |-> 0, pending |-> FALSE]
      /\ get = [phase |-> "reading", at |-> 0, intact |-> TRUE] /\ transit = {}
  BY DEF Blobs!Init
<1>3. ObjectSound(object) /\ GetSound
  BY <1>1, <1>2 DEF ObjectSound, GetSound
<1>4. \A d \in Blobs!Sessions : put[d] = [phase |-> "none", offset |-> 0, failed |-> FALSE, calls |-> 0]
  BY DEF Blobs!Init
<1>5. ASSUME NEW d \in Blobs!Sessions PROVE PutSound(put[d], object)
  <2>1. PICK p : p = put[d]
    OBVIOUS
  <2>2. p = [phase |-> "none", offset |-> 0, failed |-> FALSE, calls |-> 0]
    BY <1>4, <2>1
  <2>3. p \in Puts
    BY <2>2 DEF Puts, PutPhases
  <2>4. p.phase = "none" /\ p.offset = 0
    BY <2>2
  <2>5. PutSound(p, object)
    BY <1>1, <2>3, <2>4 DEF PutSound
  <2>6. QED
    BY <2>1, <2>5
<1>6. put = [d \in Blobs!Sessions |-> put[d]]
  BY DEF Blobs!Init
<1>7. QED
  BY <1>2, <1>3, <1>5, <1>6 DEF BlobsInv

\* What a request makes of a sound record is one, and a committed object stays.
LEMMA AppliedSound ==
    ASSUME Blobs!ArtifactsAssumption, NEW o, ObjectSound(o), NEW action, NEW offset,
           Reaches(action, offset), NEW n \in Blobs!Applied(o, action, offset)
    PROVE  ObjectSound(n) /\ (o.status = "committed" => n.status = "committed")
<1>1. BlobChunks \in Nat
  BY DEF Blobs!ArtifactsAssumption
<1>2. CASE n = o
  BY <1>2
<1>3. CASE n # o
  <2>1. CASE action = "begin"
    <3>1. o.status = "absent" /\ n = [o EXCEPT !.status = "uploading"]
      BY <1>3, <2>1 DEF Blobs!Applied
    <3>2. n.status = "uploading" /\ n.stored = o.stored /\ n.pending = o.pending
          /\ n = [status |-> n.status, stored |-> n.stored, pending |-> n.pending]
      BY <3>1 DEF ObjectSound
    <3>3. QED
      BY <3>1, <3>2 DEF ObjectSound
  <2>2. CASE action = "put"
    <3>1. /\ o.status = "uploading" /\ o.pending # TRUE /\ o.stored < BlobChunks
          /\ n = [o EXCEPT !.stored = o.stored + 1] \/ n = [o EXCEPT !.pending = TRUE]
      BY <1>3, <2>2 DEF Blobs!Applied, Blobs!Accepts, Reaches, ObjectSound
    <3>2. /\ n.status = "uploading"
          /\ \/ n.stored = o.stored + 1 /\ n.pending = o.pending
             \/ n.stored = o.stored /\ n.pending = TRUE
          /\ n = [status |-> n.status, stored |-> n.stored, pending |-> n.pending]
      BY <3>1 DEF ObjectSound
    <3>3. o.stored \in Nat /\ o.pending \in {TRUE, FALSE}
      BY DEF ObjectSound
    <3>4. n.stored \in Nat /\ n.stored <= BlobChunks
      BY <1>1, <3>1, <3>2, <3>3
    <3>5. n.pending \in {TRUE, FALSE}
      BY <3>2, <3>3
    <3>6. n.pending = TRUE => n.stored < BlobChunks
      BY <3>1, <3>2
    <3>7. QED
      BY <3>1, <3>2, <3>4, <3>5, <3>6 DEF ObjectSound
  <2>3. CASE action # "begin" /\ action # "put"
    <3>1. /\ o.status = "uploading" /\ o.pending # TRUE /\ o.stored = BlobChunks
          /\ n = [o EXCEPT !.status = IF storage = "object" THEN "verifying" ELSE "committed"]
      BY <1>3, <2>3 DEF Blobs!Applied, ObjectSound
    <3>2. /\ n.status \in {"verifying", "committed"} /\ n.stored = o.stored /\ n.pending = o.pending
          /\ n = [status |-> n.status, stored |-> n.stored, pending |-> n.pending]
      BY <3>1 DEF ObjectSound
    <3>3. QED
      BY <3>1, <3>2 DEF ObjectSound
  <2>4. QED
    BY <2>1, <2>2, <2>3
<1>4. QED
  BY <1>2, <1>3

\* While a committed object stays so, nothing said of an upload changes.
LEMMA PutsStay ==
    ASSUME NEW p, NEW o, NEW n, PutSound(p, o), o.status = "committed" => n.status = "committed"
    PROVE  PutSound(p, n)
BY DEF PutSound

\* An upload that gives up.
LEMMA RaisedSound ==
    ASSUME NEW p, NEW o, PutSound(p, o) PROVE PutSound(Blobs!Raised(p), o)
<1>1. PICK lost \in {TRUE, FALSE} : lost = (p.failed \/ storage = "object")
  OBVIOUS
<1>2. PICK q : q = [p EXCEPT !.phase = "raised", !.failed = lost]
  OBVIOUS
<1>3. q = Blobs!Raised(p)
  BY <1>1, <1>2, Zenon DEF Blobs!Raised
<1>4. q \in Puts /\ q.phase = "raised" /\ q.offset = p.offset
  BY <1>1, <1>2 DEF PutSound, Puts, PutPhases
<1>5. PutSound(q, o)
  BY <1>4 DEF PutSound
<1>6. QED
  BY <1>3, <1>5

\* An upload that goes to a phase and an offset.
LEMMA PutAt ==
    ASSUME NEW p, NEW o, PutSound(p, o), NEW q, NEW phase \in PutPhases, NEW offset \in Nat,
           q = [p EXCEPT !.offset = offset, !.phase = phase],
           offset <= BlobChunks, phase \in {"put", "confirm"} => offset < BlobChunks,
           phase # "begin", phase = "returned" => o.status = "committed"
    PROVE  PutSound(q, o)
<1>1. q \in Puts /\ q.phase = phase /\ q.offset = offset
  BY DEF PutSound, Puts
<1>2. QED
  BY <1>1 DEF PutSound

\* The head of the loop over the chunks.
LEMMA NextChunkSound ==
    ASSUME NEW p, NEW o, ObjectSound(o), PutSound(p, o), Blobs!ArtifactsAssumption
    PROVE  PutSound(Blobs!NextChunk(p, o), o)
<1>1. PICK phase : phase = IF o.status = "uploading" /\ o.stored < BlobChunks THEN "put"
                           ELSE IF o.status = "committed" THEN "returned" ELSE "commit"
  OBVIOUS
<1>2. Blobs!NextChunk(p, o) = [p EXCEPT !.offset = o.stored, !.phase = phase]
  BY <1>1 DEF Blobs!NextChunk, Blobs!Settled
<1>3. /\ phase \in PutPhases /\ phase # "begin" /\ phase # "confirm"
      /\ phase = "put" => o.stored < BlobChunks
      /\ phase = "returned" => o.status = "committed"
  BY <1>1 DEF PutPhases
<1>4. o.stored \in Nat /\ o.stored <= BlobChunks
  BY DEF ObjectSound
<1>5. phase \in {"put", "confirm"} => o.stored < BlobChunks
  BY <1>3
<1>6. QED
  BY <1>2, <1>3, <1>4, <1>5, PutAt

\* What a driver makes of a receipt, whatever it asked for.
LEMMA AfterSound ==
    ASSUME NEW p, NEW o, ObjectSound(o), PutSound(p, o), Blobs!ArtifactsAssumption,
           p.phase \in {"begin", "put", "confirm", "commit", "verify"}
    PROVE  PutSound(Blobs!After(p, o), o)
<1>1. BlobChunks \in Nat \ {0}
  BY DEF Blobs!ArtifactsAssumption
<1>2. p \in Puts /\ p.offset \in Nat /\ p.offset <= BlobChunks /\ p = [p EXCEPT !.offset = p.offset]
  BY DEF PutSound, Puts
<1>3. CASE p.phase = "begin"
  <2>1. Blobs!After(p, o) = Blobs!AfterBegin(p, o)
    BY <1>3 DEF Blobs!After
  <2>2. CASE storage = "object"
    BY <2>1, <2>2, NextChunkSound DEF Blobs!AfterBegin
  <2>3. CASE storage # "object"
    <3>1. PICK phase : phase = IF o.status = "committed" THEN "returned" ELSE "put"
      OBVIOUS
    <3>2. Blobs!AfterBegin(p, o) = [p EXCEPT !.phase = phase]
      BY <2>3, <3>1 DEF Blobs!AfterBegin
    <3>3. [p EXCEPT !.phase = phase] = [p EXCEPT !.offset = p.offset, !.phase = phase]
      BY <1>2
    <3>4. phase \in PutPhases /\ phase # "begin" /\ phase # "confirm"
          /\ (phase = "returned" => o.status = "committed")
      BY <3>1 DEF PutPhases
    <3>5. p.offset < BlobChunks
      BY <1>1, <1>3 DEF PutSound
    <3>6. PutSound(Blobs!AfterBegin(p, o), o)
      BY <1>2, <3>2, <3>3, <3>4, <3>5, PutAt
    <3>7. QED
      BY <2>1, <3>6
  <2>4. QED
    BY <2>2, <2>3
<1>4. CASE p.phase \in {"put", "confirm"}
  <2>1. Blobs!After(p, o) = Blobs!AfterChunk(p, o)
    BY <1>4 DEF Blobs!After
  <2>2. p.offset < BlobChunks
    BY <1>4 DEF PutSound
  <2>3. CASE storage = "database"
    <3>1. CASE o.status = "verifying"
      BY <2>1, <2>3, <3>1, RaisedSound DEF Blobs!AfterChunk
    <3>2. CASE o.status # "verifying"
      <4>1. PICK phase : phase = IF p.offset + 1 = BlobChunks THEN "commit" ELSE "put"
        OBVIOUS
      <4>2. Blobs!AfterChunk(p, o) = [p EXCEPT !.offset = p.offset + 1, !.phase = phase]
        BY <2>3, <3>2, <4>1 DEF Blobs!AfterChunk
      <4>3. /\ phase \in PutPhases /\ phase # "begin" /\ phase # "returned"
            /\ p.offset + 1 \in Nat /\ p.offset + 1 <= BlobChunks
            /\ phase \in {"put", "confirm"} => p.offset + 1 < BlobChunks
        BY <1>1, <1>2, <2>2, <4>1 DEF PutPhases
      <4>4. PutSound(Blobs!AfterChunk(p, o), o)
        BY <4>2, <4>3, PutAt
      <4>5. QED
        BY <2>1, <4>4
    <3>3. QED
      BY <3>1, <3>2
  <2>4. CASE storage # "database"
    <3>1. CASE o.stored > p.offset
      BY <2>1, <2>4, <3>1, NextChunkSound DEF Blobs!AfterChunk
    <3>2. CASE ~(o.stored > p.offset) /\ o.stored = p.offset /\ o.status = "uploading"
      <4>1. Blobs!AfterChunk(p, o) = [p EXCEPT !.phase = "confirm"]
        BY <2>4, <3>2 DEF Blobs!AfterChunk
      <4>2. [p EXCEPT !.phase = "confirm"] = [p EXCEPT !.offset = p.offset, !.phase = "confirm"]
        BY <1>2
      <4>3. "confirm" \in PutPhases /\ "confirm" # "begin" /\ "confirm" # "returned"
        BY DEF PutPhases
      <4>4. PutSound(Blobs!AfterChunk(p, o), o)
        BY <1>2, <2>2, <4>1, <4>2, <4>3, PutAt
      <4>5. QED
        BY <2>1, <4>4
    <3>3. CASE ~(o.stored > p.offset) /\ ~(o.stored = p.offset /\ o.status = "uploading")
      BY <2>1, <2>4, <3>3, RaisedSound DEF Blobs!AfterChunk
    <3>4. QED
      BY <3>1, <3>2, <3>3
  <2>5. QED
    BY <2>3, <2>4
<1>5. CASE p.phase \in {"commit", "verify"}
  <2>1. Blobs!After(p, o) = Blobs!AfterCommit(p, o)
    BY <1>5 DEF Blobs!After
  <2>2. CASE o.status \in {"committed", "verifying"}
    <3>1. PICK phase : phase = IF o.status = "committed" THEN "returned" ELSE "verify"
      OBVIOUS
    <3>2. Blobs!AfterCommit(p, o) = [p EXCEPT !.phase = phase]
      BY <2>2, <3>1 DEF Blobs!AfterCommit, Blobs!Settled
    <3>3. [p EXCEPT !.phase = phase] = [p EXCEPT !.offset = p.offset, !.phase = phase]
      BY <1>2
    <3>4. /\ phase \in PutPhases /\ phase # "begin" /\ phase \notin {"put", "confirm"}
          /\ phase = "returned" => o.status = "committed"
      BY <3>1 DEF PutPhases
    <3>5. PutSound(Blobs!AfterCommit(p, o), o)
      BY <1>2, <3>2, <3>3, <3>4, PutAt
    <3>6. QED
      BY <2>1, <3>5
  <2>3. CASE o.status \notin {"committed", "verifying"}
    BY <2>1, <2>3, RaisedSound DEF Blobs!AfterCommit, Blobs!Settled
  <2>4. QED
    BY <2>2, <2>3
<1>6. QED
  BY <1>3, <1>4, <1>5

\* What an upload asks for.
LEMMA ActionReaches ==
    ASSUME NEW p, NEW o, PutSound(p, o) PROVE Reaches(Blobs!Action(p), p.offset)
BY DEF PutSound, Puts, Reaches, Blobs!Action

\* A step of the store alone.
LEMMA BlobsOfStore ==
    ASSUME BlobsInv, ObjectSound(object'), object.status = "committed" => object'.status = "committed",
           put' = put, get' = get, transit' \subseteq transit
    PROVE  BlobsInv'
<1>1. \A d \in Blobs!Sessions : PutSound(put[d], object')
  BY PutsStay DEF BlobsInv
<1>2. GetSound'
  BY DEF BlobsInv, GetSound
<1>3. \A r \in transit' : Reaches(r[2], r[3])
  BY DEF BlobsInv
<1>4. put' = [d \in Blobs!Sessions |-> put'[d]]
  BY DEF BlobsInv
<1>5. QED
  BY <1>1, <1>2, <1>3, <1>4 DEF BlobsInv

\* A step of one upload.
LEMMA BlobsOfPut ==
    ASSUME BlobsInv, NEW d \in Blobs!Sessions, NEW p, put' = [put EXCEPT ![d] = p],
           PutSound(p, object'), ObjectSound(object'),
           object.status = "committed" => object'.status = "committed", get' = get,
           \A r \in transit' : Reaches(r[2], r[3])
    PROVE  BlobsInv'
<1>1. \A s \in Blobs!Sessions : PutSound(put'[s], object')
  <2>1. SUFFICES ASSUME NEW s \in Blobs!Sessions PROVE PutSound(put'[s], object')
    OBVIOUS
  <2>2. put = [b \in Blobs!Sessions |-> put[b]] /\ PutSound(put[s], object)
    BY DEF BlobsInv
  <2>3. CASE s = d
    <3>1. put'[s] = p
      BY <2>2, <2>3
    <3>2. QED
      BY <3>1
  <2>4. CASE s # d
    <3>1. put'[s] = put[s]
      BY <2>2, <2>4
    <3>2. QED
      BY <2>2, <3>1, PutsStay
  <2>5. QED
    BY <2>3, <2>4
<1>2. GetSound'
  BY DEF BlobsInv, GetSound
<1>3. put' = [s \in Blobs!Sessions |-> put'[s]]
  BY DEF BlobsInv
<1>4. QED
  BY <1>1, <1>2, <1>3 DEF BlobsInv

\* A chunk becomes durable, or the bytes are verified.
LEMMA BlobsStore ==
    ASSUME BlobsInv, Blobs!ArtifactsAssumption, Blobs!Persist \/ Blobs!Verify PROVE BlobsInv'
<1>1. BlobChunks \in Nat
  BY DEF Blobs!ArtifactsAssumption
<1>2. ObjectSound(object)
  BY DEF BlobsInv
<1>3. CASE Blobs!Persist
  <2>1. /\ object.pending = TRUE /\ object' = [object EXCEPT !.pending = FALSE, !.stored = @ + 1]
        /\ put' = put /\ get' = get /\ transit' = transit
    BY <1>2, <1>3 DEF Blobs!Persist, ObjectSound
  <2>2. /\ object'.status = object.status /\ object'.stored = object.stored + 1
        /\ object'.pending = FALSE
        /\ object' = [status |-> object'.status, stored |-> object'.stored, pending |-> object'.pending]
    BY <1>2, <2>1 DEF ObjectSound
  <2>3. ObjectSound(object')
    BY <1>1, <1>2, <2>1, <2>2 DEF ObjectSound
  <2>4. QED
    BY <2>1, <2>2, <2>3, BlobsOfStore
<1>4. CASE Blobs!Verify
  <2>1. /\ object.status = "verifying"
        /\ \/ object' = [object EXCEPT !.status = "committed"]
           \/ object' = [status |-> "uploading", stored |-> 0, pending |-> FALSE]
        /\ put' = put /\ get' = get /\ transit' = transit
    BY <1>4 DEF Blobs!Verify
  <2>2. CASE object' = [object EXCEPT !.status = "committed"]
    <3>1. /\ object'.status = "committed" /\ object'.stored = object.stored
          /\ object'.pending = object.pending
          /\ object' = [status |-> object'.status, stored |-> object'.stored, pending |-> object'.pending]
      BY <1>2, <2>2 DEF ObjectSound
    <3>2. ObjectSound(object')
      BY <1>2, <2>1, <3>1 DEF ObjectSound
    <3>3. QED
      BY <2>1, <3>1, <3>2, BlobsOfStore
  <2>3. CASE object' = [status |-> "uploading", stored |-> 0, pending |-> FALSE]
    <3>1. ObjectSound(object')
      BY <1>1, <2>3 DEF ObjectSound
    <3>2. object.status # "committed"
      BY <2>1
    <3>3. QED
      BY <2>1, <3>1, <3>2, BlobsOfStore
  <2>4. QED
    BY <2>1, <2>2, <2>3
<1>5. QED
  BY <1>3, <1>4

\* A request whose answer nobody waits for.
LEMMA BlobsLate ==
    ASSUME BlobsInv, Blobs!ArtifactsAssumption, NEW r \in transit, Blobs!ApplyLate(r) PROVE BlobsInv'
<1>1. /\ transit' = transit \ {r} /\ put' = put /\ get' = get
      /\ object' = object \/ object' \in Blobs!Applied(object, r[2], r[3])
  BY DEF Blobs!ApplyLate
<1>2. ObjectSound(object) /\ Reaches(r[2], r[3])
  BY DEF BlobsInv
<1>3. ObjectSound(object') /\ (object.status = "committed" => object'.status = "committed")
  BY <1>1, <1>2, AppliedSound
<1>4. QED
  BY <1>1, <1>3, BlobsOfStore

\* A session opens or puts the object.
LEMMA BlobsCall ==
    ASSUME BlobsInv, Blobs!ArtifactsAssumption, NEW d \in Blobs!Sessions,
           Blobs!Open(d) \/ Blobs!CallPut(d)
    PROVE  BlobsInv'
<1>1. /\ object' = object /\ get' = get /\ transit' = transit
  BY DEF Blobs!Open, Blobs!CallPut
<1>2. ObjectSound(object) /\ PutSound(put[d], object) /\ (\A r \in transit' : Reaches(r[2], r[3]))
  BY <1>1 DEF BlobsInv
<1>3. \/ put' = [put EXCEPT ![d].phase = "idle"]
      \/ put' = [put EXCEPT ![d] = [put[d] EXCEPT !.phase = "begin", !.offset = 0,
                                                  !.calls = put[d].calls + 1]]
  BY DEF Blobs!Open, Blobs!CallPut
<1>4. BlobChunks \in Nat
  BY DEF Blobs!ArtifactsAssumption
<1>5. CASE put' = [put EXCEPT ![d].phase = "idle"]
  <2>1. PICK p : p = [put[d] EXCEPT !.phase = "idle"]
    OBVIOUS
  <2>2. p \in Puts /\ p.phase = "idle" /\ p.offset = put[d].offset
    BY <1>2, <2>1 DEF PutSound, Puts, PutPhases
  <2>3. PutSound(p, object) /\ put' = [put EXCEPT ![d] = p]
    BY <1>2, <1>5, <2>1, <2>2 DEF PutSound
  <2>4. QED
    BY <1>1, <1>2, <2>3, BlobsOfPut
<1>6. CASE put' = [put EXCEPT ![d] = [put[d] EXCEPT !.phase = "begin", !.offset = 0,
                                                  !.calls = put[d].calls + 1]]
  <2>1. PICK p : p = [put[d] EXCEPT !.phase = "begin", !.offset = 0, !.calls = put[d].calls + 1]
    OBVIOUS
  <2>2. put[d] \in Puts
    BY <1>2 DEF PutSound
  <2>3. put[d].calls \in Nat
    BY <2>2 DEF Puts
  <2>4. put[d].calls + 1 \in Nat
    BY <2>3
  <2>5. p \in Puts
    BY <1>2, <2>1, <2>4 DEF PutSound, Puts, PutPhases
  <2>6. p.phase = "begin" /\ p.offset = 0
    BY <1>2, <2>1 DEF PutSound, Puts
  <2>7. PutSound(p, object) /\ put' = [put EXCEPT ![d] = p]
    BY <1>4, <1>6, <2>1, <2>5, <2>6 DEF PutSound
  <2>8. QED
    BY <1>1, <1>2, <2>7, BlobsOfPut
<1>7. QED
  BY <1>3, <1>5, <1>6

\* A request is answered, by the record it leaves behind.
LEMMA BlobsRequest ==
    ASSUME BlobsInv, Blobs!ArtifactsAssumption, NEW d \in Blobs!Sessions, Blobs!Request(d)
    PROVE  BlobsInv'
<1>1. PICK o \in Blobs!Applied(object, Blobs!Action(put[d]), put[d].offset) :
         object' = o /\ put' = [put EXCEPT ![d] = Blobs!After(put[d], o)]
  BY DEF Blobs!Request
<1>2. /\ ObjectSound(object) /\ PutSound(put[d], object) /\ get' = get /\ transit' = transit
      /\ put[d].phase \in {"begin", "put", "confirm", "commit", "verify"}
      /\ \A r \in transit' : Reaches(r[2], r[3])
  BY DEF BlobsInv, Blobs!Request, Blobs!Sends
<1>3. Reaches(Blobs!Action(put[d]), put[d].offset)
  BY <1>2, ActionReaches
<1>4. ObjectSound(o) /\ (object.status = "committed" => o.status = "committed")
  BY <1>1, <1>2, <1>3, AppliedSound
<1>5. PutSound(put[d], o)
  BY <1>2, <1>4, PutsStay
<1>6. PutSound(Blobs!After(put[d], o), o)
  BY <1>2, <1>4, <1>5, AfterSound
<1>7. PICK p : p = Blobs!After(put[d], o)
  OBVIOUS
<1>8. QED
  BY <1>1, <1>2, <1>4, <1>6, <1>7, BlobsOfPut

\* An upload gives up; what it asked for may be under way.
LEMMA BlobsGiveUp ==
    ASSUME BlobsInv, Blobs!ArtifactsAssumption, NEW d \in Blobs!Sessions, Blobs!GiveUp(d)
    PROVE  BlobsInv'
<1>1. /\ ObjectSound(object) /\ PutSound(put[d], object) /\ get' = get /\ object' = object
      /\ put' = [put EXCEPT ![d] = Blobs!Raised(put[d])]
      /\ \A r \in transit : Reaches(r[2], r[3])
  BY DEF BlobsInv, Blobs!GiveUp
<1>2. Reaches(Blobs!Action(put[d]), put[d].offset)
  BY <1>1, ActionReaches
<1>3. transit' \subseteq transit \cup {<<d, Blobs!Action(put[d]), put[d].offset>>}
  BY DEF Blobs!GiveUp
<1>4. \A r \in transit' : Reaches(r[2], r[3])
  BY <1>1, <1>2, <1>3
<1>5. PICK p : p = Blobs!Raised(put[d])
  OBVIOUS
<1>6. PutSound(p, object)
  BY <1>1, <1>5, RaisedSound
<1>7. QED
  BY <1>1, <1>4, <1>5, <1>6, BlobsOfPut

\* A chunk is read.
LEMMA BlobsRead ==
    ASSUME BlobsInv, Blobs!ArtifactsAssumption, Blobs!ReadChunk PROVE BlobsInv'
<1>1. BlobChunks \in Nat
  BY DEF Blobs!ArtifactsAssumption
<1>2. object' = object /\ put' = put /\ transit' = transit /\ get.phase = "reading"
  BY DEF Blobs!ReadChunk
<1>3. PICK intact \in BOOLEAN :
         get' = IF object.status # "committed" THEN [get EXCEPT !.phase = "raised"]
                ELSE [at |-> get.at + 1, intact |-> get.intact /\ intact,
                      phase |-> IF get.at + 1 < BlobChunks THEN "reading"
                                ELSE IF get.intact /\ intact THEN "returned" ELSE "raised"]
  BY Zenon DEF Blobs!ReadChunk, Blobs!HashAgrees
<1>4. get.at \in Nat /\ get.at < BlobChunks
  BY <1>2 DEF BlobsInv, GetSound
<1>5. GetSound'
  <2>1. CASE object.status # "committed"
    BY <1>2, <1>3, <1>4, <2>1 DEF GetSound, BlobsInv
  <2>2. CASE object.status = "committed"
    <3>1. PICK all : all = (get.intact /\ intact)
      OBVIOUS
    <3>2. get' = [at |-> get.at + 1, intact |-> all,
                  phase |-> IF get.at + 1 < BlobChunks THEN "reading"
                            ELSE IF all THEN "returned" ELSE "raised"]
      BY <1>3, <2>2, <3>1, Zenon
    <3>3. /\ get'.at = get.at + 1 /\ get'.intact = all
          /\ get'.phase = IF get.at + 1 < BlobChunks THEN "reading"
                          ELSE IF all THEN "returned" ELSE "raised"
      BY <3>2
    <3>4. get'.at \in Nat /\ (get'.phase = "reading" => get'.at < BlobChunks)
      BY <1>4, <3>3
    <3>5. get'.phase = "returned" => get'.at = BlobChunks
      BY <1>1, <1>4, <3>3
    <3>6. get'.phase = "returned" => get'.intact
      BY <3>3
    <3>7. QED
      BY <3>4, <3>5, <3>6 DEF GetSound
  <2>3. QED
    BY <2>1, <2>2
<1>6. QED
  BY <1>2, <1>5 DEF BlobsInv

LEMMA BlobsPreserved ==
    ASSUME BlobsInv, Blobs!ArtifactsAssumption, [Blobs!Next]_(Blobs!vars) PROVE BlobsInv'
<1>1. CASE UNCHANGED Blobs!vars
  BY <1>1 DEF Blobs!vars, BlobsInv, GetSound
<1>2. CASE Blobs!Next
  BY <1>2, BlobsStore, BlobsRead, BlobsLate, BlobsCall, BlobsRequest, BlobsGiveUp DEF Blobs!Next
<1>3. QED
  BY <1>1, <1>2

LEMMA BlobsHold == ASSUME BlobsInv PROVE Blobs!CommittedIsGiven
BY DEF BlobsInv, PutSound, ObjectSound, GetSound, Blobs!CommittedIsGiven

\* A reference names bytes that are all stored and verified, and what it is read back as are
\* those bytes (_agent_artifacts.py:92-125, 146-157; agent_runtime.py:43-92).
THEOREM ResultsStored ==
    ASSUME Blobs!ArtifactsAssumption PROVE Blobs!Spec => []Blobs!CommittedIsGiven
<1>1. Blobs!Init => BlobsInv
  BY BlobsInit
<1>2. BlobsInv /\ [Blobs!Next]_(Blobs!vars) => BlobsInv'
  BY BlobsPreserved
<1>3. BlobsInv => Blobs!CommittedIsGiven
  BY BlobsHold
<1>4. QED
  BY <1>1, <1>2, <1>3, PTL DEF Blobs!Spec

-----------------------------------------------------------------------------
(* Projects.  Whatever is cached, uploaded, created or still on its way    *)
(* was given under the key, and what a creation takes is what its call     *)
(* packed.                                                                 *)

Given == Uploads!Kinds \X Uploads!Contents
UploadPhases == Uploads!Over \cup {"upload", "create"}
Creations == [pc : UploadPhases, kind : Uploads!Kinds, digest : Uploads!Contents,
              source : Uploads!Contents]
LateCreations == [what : {"upload", "create"}, kind : Uploads!Kinds, digest : Uploads!Contents]

\* A call that takes an asset takes what it packed, and both were given under the key.
CreationSound(c, given) ==
    /\ c.pc \in {"upload", "create"} => c.source = c.digest /\ <<c.kind, c.digest>> \in given

\* A call that ended has what it packed, or another content was given for its kind.
CreationOver(c, given, made) ==
    /\ c.pc = "returned" /\ c.kind # "tool" => <<c.kind, c.digest>> \in made
    /\ c.pc = "conflict" =>
          \E other \in Uploads!Contents \ {c.digest} : <<c.kind, other>> \in given

UploadsInv ==
    /\ project \in Uploads!Contents /\ used \subseteq Given
    /\ cache \subseteq used /\ assets \subseteq used /\ objects \subseteq used
    /\ \A entry \in cache : entry[1] # "tool"
    /\ creations \in [Packers -> Creations]
    /\ unanswered \subseteq LateCreations
    /\ \A r \in unanswered : <<r.kind, r.digest>> \in used
    /\ \A t \in Packers : /\ CreationSound(creations[t], used)
                          /\ CreationOver(creations[t], used, objects)

\* Who has used the key for a kind with another content, of what is stored.
LEMMA Refusal ==
    ASSUME NEW S, NEW given, S \subseteq given, given \subseteq Given,
           NEW sort \in Uploads!Kinds, NEW text \in Uploads!Contents,
           ~Uploads!Takes(S, sort, text)
    PROVE  \E other \in Uploads!Contents \ {text} : <<sort, other>> \in given
<1>1. PICK entry \in S : entry[1] = sort /\ entry[2] # text
  BY DEF Uploads!Takes
<1>2. entry = <<sort, entry[2]>> /\ entry[2] \in Uploads!Contents
  BY <1>1 DEF Given
<1>3. QED
  BY <1>1, <1>2

\* What was true of a call stays true while more is given and made.
LEMMA CreationsKeep ==
    ASSUME NEW c, NEW given, NEW more, NEW made, NEW making,
           given \subseteq more, made \subseteq making
    PROVE  /\ CreationSound(c, given) => CreationSound(c, more)
           /\ CreationOver(c, given, made) => CreationOver(c, more, making)
BY DEF CreationSound, CreationOver

\* The server keeps what it has, and takes only what it is given.
LEMMA UploadStep ==
    ASSUME UploadsInv, NEW sort \in Uploads!Kinds, NEW text \in Uploads!Contents,
           <<sort, text>> \in used
    PROVE  /\ Uploads!Upload(sort, text) => assets' \subseteq used
           /\ Uploads!Create(sort, text) => /\ objects \subseteq objects' /\ objects' \subseteq used
                                            /\ Uploads!Takes(objects, sort, text) =>
                                                  <<sort, text>> \in objects'
<1>1. assets \subseteq used /\ objects \subseteq used
  BY DEF UploadsInv
<1>2. QED
  BY <1>1 DEF Uploads!Upload, Uploads!Create, Uploads!UploadKey

LEMMA UploadsInit == ASSUME Uploads!Init PROVE UploadsInv
<1>1. project \in Uploads!Contents /\ used = {} /\ cache = {} /\ assets = {} /\ objects = {}
      /\ unanswered = {}
  BY DEF Uploads!Init, Uploads!Contents
<1>2. \A t \in Packers : creations[t] = [pc |-> "idle", kind |-> "sandbox", digest |-> "a",
                                        source |-> "a"]
  BY DEF Uploads!Init
<1>3. creations \in [Packers -> Creations]
  BY DEF Uploads!Init, Creations, UploadPhases, Uploads!Over, Uploads!Kinds, Uploads!Contents
<1>4. \A t \in Packers : CreationSound(creations[t], used) /\ CreationOver(creations[t], used, objects)
  BY <1>2 DEF CreationSound, CreationOver
<1>5. QED
  BY <1>1, <1>3, <1>4 DEF UploadsInv

\* A request that arrives after its caller gave up.
LEMMA UploadsLate ==
    ASSUME UploadsInv, Uploads!AppliedLate PROVE UploadsInv'
<1>1. PICK r \in unanswered :
         /\ unanswered' = unanswered \ {r}
         /\ IF r.what = "upload" THEN Uploads!Upload(r.kind, r.digest) /\ objects' = objects
            ELSE Uploads!Create(r.kind, r.digest) /\ assets' = assets
  BY DEF Uploads!AppliedLate
<1>2. r.kind \in Uploads!Kinds /\ r.digest \in Uploads!Contents /\ <<r.kind, r.digest>> \in used
  BY DEF UploadsInv, LateCreations
<1>3. /\ project' = project /\ cache' = cache /\ creations' = creations /\ used' = used
  BY DEF Uploads!AppliedLate
<1>4. assets \subseteq used /\ objects \subseteq used
  BY DEF UploadsInv
<1>5. assets' \subseteq used /\ objects \subseteq objects' /\ objects' \subseteq used
  BY <1>1, <1>2, <1>4, UploadStep
<1>6. \A t \in Packers : CreationSound(creations[t], used) /\ CreationOver(creations[t], used, objects')
  BY <1>5, CreationsKeep DEF UploadsInv
<1>7. QED
  BY <1>1, <1>3, <1>5, <1>6 DEF UploadsInv

\* The project is edited.
LEMMA UploadsEdit ==
    ASSUME UploadsInv, Uploads!Edit PROVE UploadsInv'
<1>1. project' \in Uploads!Contents
  BY DEF Uploads!Edit
<1>2. /\ cache' = cache /\ assets' = assets /\ objects' = objects /\ creations' = creations
      /\ unanswered' = unanswered /\ used' = used
  BY DEF Uploads!Edit
<1>3. QED
  BY <1>1, <1>2 DEF UploadsInv

\* What a call has asked for was given under the key.
LEMMA SentGiven ==
    ASSUME UploadsInv, NEW t \in Packers, creations[t].pc \in {"upload", "create"}
    PROVE  Uploads!Sent(t) \in LateCreations
           /\ <<Uploads!Sent(t).kind, Uploads!Sent(t).digest>> \in used
<1>1. creations[t] \in Creations /\ CreationSound(creations[t], used)
  BY DEF UploadsInv
<1>2. QED
  BY <1>1 DEF Uploads!Sent, Creations, LateCreations, CreationSound

\* The program ends and starts again.
LEMMA UploadsRestart ==
    ASSUME UploadsInv, Uploads!Restart PROVE UploadsInv'
<1>1. /\ project' = project /\ assets' = assets /\ objects' = objects /\ used' = used /\ cache' = {}
  BY DEF Uploads!Restart
<1>2. \A r \in unanswered' : r \in LateCreations /\ <<r.kind, r.digest>> \in used
  <2>1. SUFFICES ASSUME NEW r \in unanswered' PROVE r \in LateCreations /\ <<r.kind, r.digest>> \in used
    OBVIOUS
  <2>2. CASE r \in unanswered
    BY <2>2 DEF UploadsInv
  <2>3. CASE r \notin unanswered
    <3>1. PICK t \in Packers : creations[t].pc \in {"upload", "create"} /\ r = Uploads!Sent(t)
      BY <2>3 DEF Uploads!Restart
    <3>2. QED
      BY <3>1, SentGiven
  <2>4. QED
    BY <2>2, <2>3
<1>3. \A t \in Packers : creations'[t] \in Creations /\ CreationSound(creations'[t], used)
                         /\ CreationOver(creations'[t], used, objects)
  <2>1. SUFFICES ASSUME NEW t \in Packers
                 PROVE  creations'[t] \in Creations /\ CreationSound(creations'[t], used)
                        /\ CreationOver(creations'[t], used, objects)
    OBVIOUS
  <2>2. /\ creations[t] \in Creations /\ CreationSound(creations[t], used)
        /\ CreationOver(creations[t], used, objects)
    BY DEF UploadsInv
  <2>3. CASE creations[t].pc \in Uploads!Over
    BY <2>2, <2>3 DEF Uploads!Restart
  <2>4. CASE creations[t].pc \notin Uploads!Over
    <3>1. creations'[t] = [creations[t] EXCEPT !.pc = "stopped"]
      BY <2>4 DEF Uploads!Restart
    <3>2. QED
      BY <2>2, <3>1 DEF Creations, CreationSound, CreationOver, UploadPhases, Uploads!Over
  <2>5. QED
    BY <2>3, <2>4
<1>4. creations' \in [Packers -> Creations]
  BY <1>3 DEF Uploads!Restart
<1>5. QED
  BY <1>1, <1>2, <1>3, <1>4 DEF UploadsInv

\* What is left when one call changes: it is sound, and nothing it needs is taken away.
LEMMA UploadsOneCall ==
    ASSUME UploadsInv, NEW t \in Packers, NEW c \in Creations,
           creations' = [creations EXCEPT ![t] = c],
           CreationSound(c, used'), CreationOver(c, used', objects'),
           project' = project, used \subseteq used', used' \subseteq Given,
           cache' \subseteq used', \A entry \in cache' : entry[1] # "tool",
           assets' \subseteq used', objects \subseteq objects', objects' \subseteq used',
           unanswered' \subseteq LateCreations,
           \A r \in unanswered' : <<r.kind, r.digest>> \in used'
    PROVE  UploadsInv'
<1>1. creations' \in [Packers -> Creations]
  BY DEF UploadsInv
<1>2. \A s \in Packers : CreationSound(creations'[s], used') /\ CreationOver(creations'[s], used', objects')
  <2>1. SUFFICES ASSUME NEW s \in Packers
                 PROVE  CreationSound(creations'[s], used') /\ CreationOver(creations'[s], used', objects')
    OBVIOUS
  <2>2. CASE s = t
    <3>1. creations'[s] = c
      BY <2>2 DEF UploadsInv
    <3>2. QED
      BY <3>1
  <2>3. CASE s # t
    <3>1. creations'[s] = creations[s]
      BY <2>3 DEF UploadsInv
    <3>2. CreationSound(creations[s], used) /\ CreationOver(creations[s], used, objects)
      BY DEF UploadsInv
    <3>3. QED
      BY <3>1, <3>2, CreationsKeep
  <2>4. QED
    BY <2>2, <2>3
<1>3. project' \in Uploads!Contents
  BY DEF UploadsInv
<1>4. QED
  BY <1>1, <1>2, <1>3 DEF UploadsInv

\* The project is packed and compared with what was uploaded before.
LEMMA UploadsPacks ==
    ASSUME UploadsInv, NEW t \in Packers, NEW sorts \in SUBSET Uploads!Kinds, Uploads!Packs(t, sorts)
    PROVE  UploadsInv'
<1>1. PICK sort \in sorts :
         /\ used' = used \cup {<<sort, project>>}
         /\ creations' = [creations EXCEPT ![t] =
               [pc |-> IF Uploads!CacheRefuses(sort, project) THEN "conflict"
                       ELSE IF Uploads!Cached(sort) # {} THEN "create" ELSE "upload",
                kind |-> sort, digest |-> project,
                source |-> IF Uploads!Cached(sort) # {}
                           THEN CHOOSE c \in Uploads!Cached(sort) : TRUE ELSE project]]
  BY DEF Uploads!Packs
<1>2. PICK c : c = [pc |-> IF Uploads!CacheRefuses(sort, project) THEN "conflict"
                       ELSE IF Uploads!Cached(sort) # {} THEN "create" ELSE "upload",
                kind |-> sort, digest |-> project,
                source |-> IF Uploads!Cached(sort) # {}
                           THEN CHOOSE b \in Uploads!Cached(sort) : TRUE ELSE project]
  OBVIOUS
<1>3. /\ project \in Uploads!Contents /\ used \subseteq Given /\ cache \subseteq used
      /\ assets \subseteq used /\ objects \subseteq used
      /\ (\A entry \in cache : entry[1] # "tool")
      /\ unanswered \subseteq LateCreations /\ \A r \in unanswered : <<r.kind, r.digest>> \in used
  BY DEF UploadsInv
<1>4. sort \in Uploads!Kinds /\ <<sort, project>> \in Given
  BY <1>3 DEF Given
<1>5. used \subseteq used' /\ used' \subseteq Given /\ <<sort, project>> \in used'
  BY <1>1, <1>3, <1>4
<1>6. \A b \in Uploads!Cached(sort) : b \in Uploads!Contents /\ sort # "tool"
  BY <1>3 DEF Uploads!Cached, Given
<1>7. ~Uploads!CacheRefuses(sort, project) => \A b \in Uploads!Cached(sort) : b = project
  BY <1>6 DEF Uploads!CacheRefuses, Uploads!Cached, Uploads!Takes
<1>8. c.source \in Uploads!Contents
  BY <1>2, <1>3, <1>6
<1>9. c \in Creations /\ c.pc # "returned" /\ c.kind = sort /\ c.digest = project
  BY <1>2, <1>3, <1>4, <1>8 DEF Creations, UploadPhases, Uploads!Over
<1>10. c.pc \in {"upload", "create"} => c.source = project
  BY <1>2, <1>7
<1>11. CreationSound(c, used')
  BY <1>5, <1>9, <1>10 DEF CreationSound
<1>12. c.pc = "conflict" => ~Uploads!Takes(cache, sort, project)
  BY <1>2 DEF Uploads!CacheRefuses
<1>13. cache \subseteq used'
  BY <1>3, <1>5
<1>14. c.pc = "conflict" =>
         \E other \in Uploads!Contents \ {project} : <<sort, other>> \in used'
  BY <1>3, <1>4, <1>5, <1>12, <1>13, Refusal
<1>15. CreationOver(c, used', objects')
  BY <1>9, <1>14 DEF CreationOver
<1>16. /\ project' = project /\ cache' = cache /\ assets' = assets /\ objects' = objects
       /\ unanswered' = unanswered
  BY DEF Uploads!Packs
<1>17. creations' = [creations EXCEPT ![t] = c]
  BY <1>1, <1>2
<1>18. /\ assets' \subseteq used' /\ objects \subseteq objects' /\ objects' \subseteq used'
       /\ cache' \subseteq used' /\ unanswered' \subseteq LateCreations
       /\ (\A entry \in cache' : entry[1] # "tool")
       /\ \A r \in unanswered' : <<r.kind, r.digest>> \in used'
  BY <1>3, <1>5, <1>16
<1>19. QED
  BY <1>5, <1>9, <1>11, <1>15, <1>16, <1>17, <1>18, UploadsOneCall

\* The upload is answered.
LEMMA UploadsUploaded ==
    ASSUME UploadsInv, NEW t \in Packers, Uploads!Uploaded(t) PROVE UploadsInv'
<1>1. PICK sort : sort = creations[t].kind
  OBVIOUS
<1>2. PICK text : text = creations[t].digest
  OBVIOUS
<1>3. creations[t].pc = "upload" /\ Uploads!Upload(sort, text)
      /\ project' = project /\ objects' = objects /\ unanswered' = unanswered /\ used' = used
  BY <1>1, <1>2 DEF Uploads!Uploaded
<1>4. /\ creations[t] \in Creations /\ CreationSound(creations[t], used)
      /\ creations \in [Packers -> Creations]
      /\ used \subseteq Given /\ cache \subseteq used
      /\ assets \subseteq used /\ objects \subseteq used
      /\ (\A entry \in cache : entry[1] # "tool")
      /\ unanswered \subseteq LateCreations /\ \A r \in unanswered : <<r.kind, r.digest>> \in used
  BY DEF UploadsInv
<1>5. /\ sort \in Uploads!Kinds /\ text \in Uploads!Contents /\ <<sort, text>> \in used
      /\ creations[t].source = text
  BY <1>1, <1>2, <1>3, <1>4 DEF Creations, CreationSound
<1>6. assets' \subseteq used
  BY <1>3, <1>5, UploadStep
<1>7. \/ ~Uploads!Takes(assets, sort, text) /\ Uploads!Ends(t, "conflict") /\ cache' = cache
      \/ sort = "tool" /\ Uploads!Ends(t, "returned") /\ cache' = cache
      \/ /\ sort # "tool" /\ Uploads!Ends(t, "create")
         /\ cache' = {e \in cache : e[1] # sort} \cup {<<sort, text>>}
      \/ Uploads!Ends(t, "unready") /\ cache' = cache
  BY <1>1, <1>2 DEF Uploads!Uploaded, Uploads!UploadKey
<1>8. cache' \subseteq used /\ \A entry \in cache' : entry[1] # "tool"
  BY <1>4, <1>5, <1>7
<1>9. PICK how \in UploadPhases :
        /\ Uploads!Ends(t, how) /\ how # "upload"
        /\ how = "conflict" => ~Uploads!Takes(assets, sort, text)
        /\ how = "returned" => sort = "tool"
  BY <1>7 DEF UploadPhases, Uploads!Over
<1>10. PICK c : c = [creations[t] EXCEPT !.pc = how]
  OBVIOUS
<1>11. /\ c \in Creations /\ c.pc = how /\ c.kind = sort /\ c.digest = text /\ c.source = text
  BY <1>1, <1>2, <1>4, <1>5, <1>10 DEF Creations
<1>12. creations' = [creations EXCEPT ![t] = c]
  BY <1>4, <1>9, <1>10 DEF Uploads!Ends
<1>13. CreationSound(c, used)
  BY <1>5, <1>11 DEF CreationSound
<1>14. how = "conflict" => \E other \in Uploads!Contents \ {text} : <<sort, other>> \in used
  BY <1>4, <1>5, <1>9, Refusal
<1>15. CreationOver(c, used, objects)
  BY <1>9, <1>11, <1>14 DEF CreationOver
<1>16. QED
  BY <1>3, <1>4, <1>6, <1>8, <1>11, <1>12, <1>13, <1>15, UploadsOneCall

\* A creation is answered: what it was asked for is there, or another was asked for before.
LEMMA UploadsMade ==
    ASSUME UploadsInv, NEW t \in Packers, Uploads!Made(t) PROVE UploadsInv'
<1>1. PICK sort : sort = creations[t].kind
  OBVIOUS
<1>2. PICK text : text = creations[t].source
  OBVIOUS
<1>3. PICK how : how = IF Uploads!Takes(objects, sort, text) THEN "returned" ELSE "conflict"
  OBVIOUS
<1>4. /\ creations[t].pc = "create" /\ Uploads!Create(sort, text) /\ Uploads!Ends(t, how)
      /\ project' = project /\ cache' = cache /\ assets' = assets /\ unanswered' = unanswered
      /\ used' = used
  BY <1>1, <1>2, <1>3 DEF Uploads!Made
<1>5. /\ creations[t] \in Creations /\ CreationSound(creations[t], used)
      /\ creations \in [Packers -> Creations]
      /\ used \subseteq Given /\ cache \subseteq used
      /\ assets \subseteq used /\ objects \subseteq used
      /\ (\A entry \in cache : entry[1] # "tool")
      /\ unanswered \subseteq LateCreations /\ \A r \in unanswered : <<r.kind, r.digest>> \in used
  BY DEF UploadsInv
<1>6. /\ sort \in Uploads!Kinds /\ text \in Uploads!Contents /\ <<sort, text>> \in used
      /\ creations[t].digest = text
  BY <1>1, <1>2, <1>4, <1>5 DEF Creations, CreationSound
<1>7. /\ objects \subseteq objects' /\ objects' \subseteq used
      /\ Uploads!Takes(objects, sort, text) => <<sort, text>> \in objects'
  BY <1>4, <1>6, UploadStep
<1>8. PICK c : c = [creations[t] EXCEPT !.pc = how]
  OBVIOUS
<1>9. /\ c \in Creations /\ c.pc = how /\ c.kind = sort /\ c.digest = text
  BY <1>1, <1>3, <1>5, <1>6, <1>8 DEF Creations, UploadPhases, Uploads!Over
<1>10. creations' = [creations EXCEPT ![t] = c]
  BY <1>4, <1>5, <1>8 DEF Uploads!Ends
<1>11. how \in {"returned", "conflict"} /\ CreationSound(c, used)
  BY <1>3, <1>9 DEF CreationSound
<1>12. how = "conflict" => \E other \in Uploads!Contents \ {text} : <<sort, other>> \in used
  BY <1>3, <1>5, <1>6, Refusal
<1>13. how = "returned" => <<sort, text>> \in objects'
  BY <1>3, <1>7
<1>14. CreationOver(c, used, objects')
  BY <1>9, <1>12, <1>13 DEF CreationOver
<1>15. QED
  BY <1>4, <1>5, <1>7, <1>9, <1>10, <1>11, <1>14, UploadsOneCall

\* No answer: applied, not applied, or later.
LEMMA UploadsUnanswered ==
    ASSUME UploadsInv, NEW t \in Packers, Uploads!Unanswered(t) PROVE UploadsInv'
<1>1. /\ creations[t].pc \in {"upload", "create"} /\ Uploads!Ends(t, "failed")
      /\ project' = project /\ cache' = cache /\ used' = used
  BY DEF Uploads!Unanswered
<1>2. /\ creations[t] \in Creations /\ CreationSound(creations[t], used)
      /\ creations \in [Packers -> Creations]
      /\ used \subseteq Given /\ cache \subseteq used
      /\ assets \subseteq used /\ objects \subseteq used
      /\ (\A entry \in cache : entry[1] # "tool")
      /\ unanswered \subseteq LateCreations /\ \A r \in unanswered : <<r.kind, r.digest>> \in used
  BY DEF UploadsInv
<1>3. PICK sort : sort = creations[t].kind
  OBVIOUS
<1>4. PICK text : text = creations[t].digest
  OBVIOUS
<1>5. /\ sort \in Uploads!Kinds /\ text \in Uploads!Contents /\ <<sort, text>> \in used
      /\ creations[t].source = text
  BY <1>1, <1>2, <1>3, <1>4 DEF Creations, CreationSound
<1>6. assets' = assets \/ Uploads!Upload(sort, text)
  BY <1>3, <1>4 DEF Uploads!Unanswered
<1>7. objects' = objects \/ Uploads!Create(sort, text)
  BY <1>3, <1>5 DEF Uploads!Unanswered
<1>8. assets' \subseteq used /\ objects \subseteq objects' /\ objects' \subseteq used
  BY <1>2, <1>5, <1>6, <1>7, UploadStep
<1>9. unanswered' \subseteq unanswered \cup {Uploads!Sent(t)}
  BY DEF Uploads!Unanswered
<1>10. Uploads!Sent(t) \in LateCreations /\ <<Uploads!Sent(t).kind, Uploads!Sent(t).digest>> \in used
  BY <1>1, SentGiven
<1>11. unanswered' \subseteq LateCreations /\ \A r \in unanswered' : <<r.kind, r.digest>> \in used
  BY <1>2, <1>9, <1>10
<1>12. PICK c : c = [creations[t] EXCEPT !.pc = "failed"]
  OBVIOUS
<1>13. c \in Creations /\ c.pc = "failed"
  BY <1>2, <1>12 DEF Creations, UploadPhases, Uploads!Over
<1>14. creations' = [creations EXCEPT ![t] = c]
  BY <1>1, <1>2, <1>12 DEF Uploads!Ends
<1>15. CreationSound(c, used) /\ CreationOver(c, used, objects')
  BY <1>13 DEF CreationSound, CreationOver
<1>16. QED
  BY <1>1, <1>2, <1>8, <1>11, <1>13, <1>14, <1>15, UploadsOneCall

LEMMA UploadsPreserved ==
    ASSUME UploadsInv, [Uploads!Next]_(Uploads!vars) PROVE UploadsInv'
<1>1. CASE UNCHANGED Uploads!vars
  BY <1>1 DEF Uploads!vars, UploadsInv
<1>2. CASE Uploads!AppliedLate \/ Uploads!Edit \/ Uploads!Restart
  BY <1>2, UploadsLate, UploadsEdit, UploadsRestart
<1>3. ASSUME NEW t \in Packers, Uploads!Pack(t) \/ Uploads!AsyncPack(t) \/ Uploads!ToolPack(t)
      PROVE  UploadsInv'
  <2>1. PICK sorts \in SUBSET Uploads!Kinds : Uploads!Packs(t, sorts)
    <3>1. {"sandbox", "agent"} \in SUBSET Uploads!Kinds /\ {"tool"} \in SUBSET Uploads!Kinds
      BY DEF Uploads!Kinds
    <3>2. QED
      BY <1>3, <3>1 DEF Uploads!Pack, Uploads!AsyncPack, Uploads!ToolPack
  <2>2. QED
    BY <2>1, UploadsPacks
<1>4. ASSUME NEW t \in Packers,
             \/ Uploads!Uploaded(t) \/ Uploads!Created(t) \/ Uploads!AsyncCreated(t)
             \/ Uploads!AgentCreated(t) \/ Uploads!Unanswered(t)
      PROVE  UploadsInv'
  <2>1. Uploads!Uploaded(t) \/ Uploads!Made(t) \/ Uploads!Unanswered(t)
    BY <1>4 DEF Uploads!Created, Uploads!AsyncCreated, Uploads!AgentCreated
  <2>2. QED
    BY <2>1, UploadsUploaded, UploadsMade, UploadsUnanswered
<1>5. QED
  BY <1>1, <1>2, <1>3, <1>4 DEF Uploads!Next

LEMMA UploadsHold == ASSUME UploadsInv PROVE Uploads!MadeFromThis /\ Uploads!RefusedForChange
BY DEF UploadsInv, CreationOver, Uploads!MadeFromThis, Uploads!RefusedForChange

\* What a creation returns was made from the project that its call packed, and a key is
\* refused only to who used it for this kind with another content (_projects.py:185-220,
\* _sandboxes.py:545-560, _managed_agents.py:108-122).
THEOREM UploadsSound ==
    Uploads!Spec => [](Uploads!MadeFromThis /\ Uploads!RefusedForChange)
<1>1. Uploads!Init => UploadsInv
  BY UploadsInit
<1>2. UploadsInv /\ [Uploads!Next]_(Uploads!vars) => UploadsInv'
  BY UploadsPreserved
<1>3. UploadsInv => Uploads!MadeFromThis /\ Uploads!RefusedForChange
  BY UploadsHold
<1>4. QED
  BY <1>1, <1>2, <1>3, PTL DEF Uploads!Spec

-----------------------------------------------------------------------------
(* Events.  The lock keeps a line together.  An identity is read back from *)
(* its text: the first colon ends the length of the field before it.  The  *)
(* runner's text of a number is at most what was measured here.            *)

\* The characters that occur, and the sequences of them.
Letters == { Emitted!Digits[d] : d \in 1 .. 10 } \cup {":"}
           \cup UNION { { t[i] : i \in DOMAIN t } : t \in Texts }
Strings == Seq(Letters)

\* One after the other.
Join(u, v) == u \o v

\* Two ways of putting one sequence together that part at one place are one way.
LEMMA PartsSame ==
    ASSUME NEW u \in Strings, NEW v \in Strings, NEW w \in Strings, NEW z \in Strings,
           Join(u, v) = Join(w, z), Len(u) = Len(w)
    PROVE  u = w /\ v = z
<1>1. /\ Len(u) \in Nat /\ Len(v) \in Nat /\ Len(w) \in Nat /\ Len(z) \in Nat
      /\ Len(u \o v) = Len(u) + Len(v) /\ Len(w \o z) = Len(w) + Len(z)
      /\ u \o v = w \o z
  BY DEF Strings, Join
<1>2. Len(v) = Len(z)
  BY <1>1
<1>3. \A i \in 1 .. Len(u) : (u \o v)[i] = u[i] /\ (w \o z)[i] = w[i]
  BY <1>1 DEF Strings
<1>4. \A i \in 1 .. Len(v) : (u \o v)[i + Len(u)] = v[i] /\ (w \o z)[i + Len(u)] = z[i]
  BY <1>1, <1>2 DEF Strings
<1>5. \A i \in 1 .. Len(u) : u[i] = w[i]
  BY <1>1, <1>3
<1>6. \A i \in 1 .. Len(v) : v[i] = z[i]
  BY <1>1, <1>4
<1>7. u = w
  BY <1>5, SeqEqual DEF Strings
<1>8. v = z
  BY <1>2, <1>6, SeqEqual DEF Strings
<1>9. QED
  BY <1>7, <1>8

\* What is joined is a sequence, and where the pieces are joined first does not matter.
LEMMA Joined ==
    ASSUME NEW u \in Strings, NEW v \in Strings
    PROVE  /\ Join(u, v) \in Strings /\ Len(u) \in Nat /\ Len(v) \in Nat
           /\ Len(Join(u, v)) = Len(u) + Len(v)
           /\ \A i \in 1 .. Len(u) : Join(u, v)[i] = u[i]
           /\ Len(v) > 0 => Join(u, v)[Len(u) + 1] = v[1]
<1>1. Len(u) \in Nat /\ Len(v) \in Nat
  BY DEF Strings
<1>2. u \o v \in Strings
  BY DEF Strings
<1>3. Len(u \o v) = Len(u) + Len(v)
  BY DEF Strings
<1>4. \A i \in 1 .. Len(u) : (u \o v)[i] = u[i]
  BY <1>1 DEF Strings
<1>5. Len(v) > 0 => (u \o v)[Len(u) + 1] = v[1]
  <2>1. SUFFICES ASSUME Len(v) > 0 PROVE (u \o v)[Len(u) + 1] = v[1]
    OBVIOUS
  <2>2. Len(u) + 1 \in Len(u) + 1 .. Len(u) + Len(v) /\ Len(u) + 1 - Len(u) = 1
    BY <1>1, <2>1
  <2>3. (u \o v)[Len(u) + 1] = v[Len(u) + 1 - Len(u)]
    BY <2>2 DEF Strings
  <2>4. QED
    BY <2>2, <2>3
<1>6. QED
  BY <1>1, <1>2, <1>3, <1>4, <1>5 DEF Join

LEMMA JoinsSame ==
    ASSUME NEW u \in Strings, NEW v \in Strings, NEW w \in Strings
    PROVE  Join(Join(u, v), w) = Join(u, Join(v, w))
BY ConcatAssociative DEF Strings, Join

\* The texts of numbers.
Numerals == { n \in Nat : n <= 1000000 }

LEMMA PlacesOf ==
    ASSUME NEW n \in Numerals
    PROVE  /\ Emitted!Places(n) \in 1 .. 7
           /\ Emitted!Places(n) = 7 \/ n < Emitted!Powers[Emitted!Places(n) + 1]
<1>. DEFINE P(p) == (p = 1 \/ Emitted!Powers[p] <= n) /\ (p = 7 \/ n < Emitted!Powers[p + 1])
<1>1. \E p \in 1 .. 7 : P(p)
  <2>1. CASE n < 10
    <3>1. P(1)
      BY <2>1, SMT DEF Emitted!Powers
    <3>2. QED
      BY <3>1
  <2>2. CASE 10 <= n /\ n < 100
    <3>1. P(2)
      BY <2>2, SMT DEF Emitted!Powers
    <3>2. QED
      BY <3>1
  <2>3. CASE 100 <= n /\ n < 1000
    <3>1. P(3)
      BY <2>3, SMT DEF Emitted!Powers
    <3>2. QED
      BY <3>1
  <2>4. CASE 1000 <= n /\ n < 10000
    <3>1. P(4)
      BY <2>4, SMT DEF Emitted!Powers
    <3>2. QED
      BY <3>1
  <2>5. CASE 10000 <= n /\ n < 100000
    <3>1. P(5)
      BY <2>5, SMT DEF Emitted!Powers
    <3>2. QED
      BY <3>1
  <2>6. CASE 100000 <= n /\ n < 1000000
    <3>1. P(6)
      BY <2>6, SMT DEF Emitted!Powers
    <3>2. QED
      BY <3>1
  <2>7. CASE 1000000 <= n
    <3>1. P(7)
      BY <2>7, SMT DEF Emitted!Powers
    <3>2. QED
      BY <3>1
  <2>8. QED
    BY <2>1, <2>2, <2>3, <2>4, <2>5, <2>6, <2>7, SMT DEF Numerals
<1>2. Emitted!Places(n) = CHOOSE p \in 1 .. 7 : P(p)
  BY Zenon DEF Emitted!Places
<1>. HIDE DEF P
<1>3. Emitted!Places(n) \in 1 .. 7 /\ P(Emitted!Places(n))
  BY <1>1, <1>2
<1>4. QED
  BY <1>3 DEF P

\* A numeral has its places, and no colon.
LEMMA TextOf ==
    ASSUME NEW n \in Numerals
    PROVE  /\ Emitted!AsText(n) \in Strings
           /\ Len(Emitted!AsText(n)) = Emitted!Places(n) /\ Emitted!Places(n) \in 1 .. 7
           /\ \A k \in 1 .. Emitted!Places(n) :
                 /\ (n \div Emitted!Powers[k]) % 10 \in 0 .. 9
                 /\ Emitted!AsText(n)[Emitted!Places(n) + 1 - k] =
                       Emitted!Digits[((n \div Emitted!Powers[k]) % 10) + 1]
           /\ \A i \in 1 .. Emitted!Places(n) : Emitted!AsText(n)[i] # ":"
<1>. DEFINE p == Emitted!Places(n)
            text == Emitted!AsText(n)
            f(i) == ((n \div Emitted!Powers[p + 1 - i]) % 10) + 1
<1>1. p \in 1 .. 7 /\ n \in Nat
  BY PlacesOf, SMT DEF Numerals
<1>2. \A d \in 1 .. 10 : Emitted!Digits[d] \in Letters /\ Emitted!Digits[d] # ":"
  <2>1. \A d \in 1 .. 10 : Emitted!Digits[d] # ":"
    BY DEF Emitted!Digits
  <2>2. \A d \in 1 .. 10 : Emitted!Digits[d] \in Letters
    BY DEF Letters
  <2>3. QED
    BY <2>1, <2>2
<1>3. \A k \in 1 .. 7 : Emitted!Powers[k] \in Nat /\ Emitted!Powers[k] > 0
  BY SMT DEF Emitted!Powers
<1>4. \A k \in 1 .. 7 : (n \div Emitted!Powers[k]) % 10 \in 0 .. 9
  BY <1>1, <1>3
<1>5. text = [i \in 1 .. p |-> Emitted!Digits[f(i)]]
  BY Zenon DEF Emitted!AsText
<1>. HIDE DEF p, text
<1>6. \A i \in 1 .. p : p + 1 - i \in 1 .. 7 /\ f(i) \in 1 .. 10
  BY <1>1, <1>4
<1>. HIDE DEF f
<1>7. text \in Strings /\ Len(text) = p /\ \A i \in 1 .. p : text[i] = Emitted!Digits[f(i)]
  BY <1>1, <1>2, <1>5, <1>6 DEF Strings
<1>8. \A i \in 1 .. p : text[i] # ":"
  BY <1>2, <1>6, <1>7
<1>9. \A k \in 1 .. p : text[p + 1 - k] = Emitted!Digits[((n \div Emitted!Powers[k]) % 10) + 1]
  <2>1. TAKE k \in 1 .. p
  <2>2. p + 1 - k \in 1 .. p /\ p + 1 - (p + 1 - k) = k
    BY <1>1
  <2>3. f(p + 1 - k) = ((n \div Emitted!Powers[k]) % 10) + 1
    BY <2>2 DEF f
  <2>4. QED
    BY <1>7, <2>2, <2>3
<1>10. QED
  BY <1>1, <1>4, <1>7, <1>8, <1>9 DEF p, text

\* A numeral is that of one number.
LEMMA SameNumber ==
    ASSUME NEW n \in Numerals, NEW m \in Numerals, Emitted!AsText(n) = Emitted!AsText(m)
    PROVE  n = m
<1>. DEFINE p == Emitted!Places(n)
            D(x, k) == (x \div Emitted!Powers[k]) % 10
<1>1. p = Emitted!Places(m) /\ p \in 1 .. 7
  BY TextOf
<1>2. \A k \in 1 .. p : D(n, k) = D(m, k)
  <2>1. TAKE k \in 1 .. p
  <2>2. /\ D(n, k) \in 0 .. 9 /\ D(m, k) \in 0 .. 9
        /\ Emitted!Digits[D(n, k) + 1] = Emitted!Digits[D(m, k) + 1]
    <3>1. Emitted!AsText(n)[p + 1 - k] = Emitted!Digits[D(n, k) + 1] /\ D(n, k) \in 0 .. 9
      BY TextOf
    <3>2. Emitted!AsText(m)[p + 1 - k] = Emitted!Digits[D(m, k) + 1] /\ D(m, k) \in 0 .. 9
      BY <1>1, TextOf
    <3>3. QED
      BY <3>1, <3>2
  <2>. HIDE DEF D
  <2>3. \A d, e \in 0 .. 9 : Emitted!Digits[d + 1] = Emitted!Digits[e + 1] => d = e
    BY DEF Emitted!Digits
  <2>4. QED
    BY <2>2, <2>3
<1>3. \A k \in 1 .. 7 : k > p => D(n, k) = D(m, k)
  <2>1. TAKE k \in 1 .. 7
  <2>2. SUFFICES ASSUME k > p  PROVE D(n, k) = D(m, k)
    OBVIOUS
  <2>3. n < Emitted!Powers[p + 1] /\ m < Emitted!Powers[p + 1] /\ p + 1 \in 1 .. 7 /\ p + 1 <= k
    BY <1>1, <2>2, PlacesOf
  <2>4. \A i, j \in 1 .. 7 : i <= j => Emitted!Powers[i] <= Emitted!Powers[j]
    BY SMT DEF Emitted!Powers
  <2>5. \A i \in 1 .. 7 : Emitted!Powers[i] \in Nat /\ Emitted!Powers[i] > 0
    BY SMT DEF Emitted!Powers
  <2>6. n \in Nat /\ m \in Nat /\ n < Emitted!Powers[k] /\ m < Emitted!Powers[k]
    BY <2>3, <2>4, <2>5, SMT DEF Numerals
  <2>7. \A x, y \in Nat : x < y => x \div y = 0
    OBVIOUS
  <2>8. n \div Emitted!Powers[k] = 0 /\ m \div Emitted!Powers[k] = 0
    BY <2>5, <2>6, <2>7
  <2>9. QED
    BY <2>8
<1>4. \A k \in 1 .. 7 : D(n, k) = D(m, k)
  <2>1. \A k \in 1 .. 7 : k \in 1 .. p \/ k > p
    BY <1>1
  <2>. HIDE DEF D, p
  <2>2. QED
    BY <1>2, <1>3, <2>1
<1>5. \A x \in Nat : /\ D(x, 1) = x % 10 /\ D(x, 2) = (x \div 10) % 10 /\ D(x, 3) = (x \div 100) % 10
                     /\ D(x, 4) = (x \div 1000) % 10 /\ D(x, 5) = (x \div 10000) % 10
                     /\ D(x, 6) = (x \div 100000) % 10 /\ D(x, 7) = (x \div 1000000) % 10
  BY SMT DEF Emitted!Powers
<1>6. n \in Nat /\ m \in Nat /\ n <= 1000000 /\ m <= 1000000
  BY SMT DEF Numerals
<1>. HIDE DEF D
<1>7. \A x \in Nat : x <= 1000000 =>
         x = D(x, 1) + 10 * D(x, 2) + 100 * D(x, 3) + 1000 * D(x, 4) + 10000 * D(x, 5)
             + 100000 * D(x, 6) + 1000000 * D(x, 7)
  <2>1. TAKE x \in Nat
  <2>2. SUFFICES ASSUME x <= 1000000
                 PROVE  x = D(x, 1) + 10 * D(x, 2) + 100 * D(x, 3) + 1000 * D(x, 4) + 10000 * D(x, 5)
                            + 100000 * D(x, 6) + 1000000 * D(x, 7)
    BY SMT
  <2>3. x = 10 * (x \div 10) + D(x, 1)
    BY <1>5, SMT
  <2>4. x \div 10 = 10 * (x \div 100) + D(x, 2)
    <3>. DEFINE a == x \div 10
                b == x \div 100
    <3>1. a \in Nat /\ 10 * a <= x /\ x < 10 * a + 10
      BY SMT
    <3>2. b \in Nat /\ 100 * b <= x /\ x < 100 * b + 100
      BY SMT
    <3>3. D(x, 2) = a % 10
      BY <1>5
    <3>. HIDE DEF a, b
    <3>4. a = 10 * (a \div 10) + (a % 10) /\ (a % 10) \in 0 .. 9 /\ a \div 10 \in Nat
      BY <3>1, SMT
    <3>5. a \div 10 = b
      BY <3>1, <3>2, <3>4, SMT
    <3>6. a = (10 * b) + D(x, 2)
      BY <3>3, <3>4, <3>5
    <3>7. QED
      BY <3>6 DEF a, b
  <2>5. x \div 100 = 10 * (x \div 1000) + D(x, 3)
    <3>. DEFINE a == x \div 100
                b == x \div 1000
    <3>1. a \in Nat /\ 100 * a <= x /\ x < 100 * a + 100
      BY SMT
    <3>2. b \in Nat /\ 1000 * b <= x /\ x < 1000 * b + 1000
      BY SMT
    <3>3. D(x, 3) = a % 10
      BY <1>5
    <3>. HIDE DEF a, b
    <3>4. a = 10 * (a \div 10) + (a % 10) /\ (a % 10) \in 0 .. 9 /\ a \div 10 \in Nat
      BY <3>1, SMT
    <3>5. a \div 10 = b
      BY <3>1, <3>2, <3>4, SMT
    <3>6. a = (10 * b) + D(x, 3)
      BY <3>3, <3>4, <3>5
    <3>7. QED
      BY <3>6 DEF a, b
  <2>6. x \div 1000 = 10 * (x \div 10000) + D(x, 4)
    <3>. DEFINE a == x \div 1000
                b == x \div 10000
    <3>1. a \in Nat /\ 1000 * a <= x /\ x < 1000 * a + 1000
      BY SMT
    <3>2. b \in Nat /\ 10000 * b <= x /\ x < 10000 * b + 10000
      BY SMT
    <3>3. D(x, 4) = a % 10
      BY <1>5
    <3>. HIDE DEF a, b
    <3>4. a = 10 * (a \div 10) + (a % 10) /\ (a % 10) \in 0 .. 9 /\ a \div 10 \in Nat
      BY <3>1, SMT
    <3>5. a \div 10 = b
      BY <3>1, <3>2, <3>4, SMT
    <3>6. a = (10 * b) + D(x, 4)
      BY <3>3, <3>4, <3>5
    <3>7. QED
      BY <3>6 DEF a, b
  <2>7. x \div 10000 = 10 * (x \div 100000) + D(x, 5)
    <3>. DEFINE a == x \div 10000
                b == x \div 100000
    <3>1. a \in Nat /\ 10000 * a <= x /\ x < 10000 * a + 10000
      BY SMT
    <3>2. b \in Nat /\ 100000 * b <= x /\ x < 100000 * b + 100000
      BY SMT
    <3>3. D(x, 5) = a % 10
      BY <1>5
    <3>. HIDE DEF a, b
    <3>4. a = 10 * (a \div 10) + (a % 10) /\ (a % 10) \in 0 .. 9 /\ a \div 10 \in Nat
      BY <3>1, SMT
    <3>5. a \div 10 = b
      BY <3>1, <3>2, <3>4, SMT
    <3>6. a = (10 * b) + D(x, 5)
      BY <3>3, <3>4, <3>5
    <3>7. QED
      BY <3>6 DEF a, b
  <2>8. x \div 100000 = 10 * (x \div 1000000) + D(x, 6)
    <3>. DEFINE a == x \div 100000
                b == x \div 1000000
    <3>1. a \in Nat /\ 100000 * a <= x /\ x < 100000 * a + 100000
      BY SMT
    <3>2. b \in Nat /\ 1000000 * b <= x /\ x < 1000000 * b + 1000000
      BY SMT
    <3>3. D(x, 6) = a % 10
      BY <1>5
    <3>. HIDE DEF a, b
    <3>4. a = 10 * (a \div 10) + (a % 10) /\ (a % 10) \in 0 .. 9 /\ a \div 10 \in Nat
      BY <3>1, SMT
    <3>5. a \div 10 = b
      BY <3>1, <3>2, <3>4, SMT
    <3>6. a = (10 * b) + D(x, 6)
      BY <3>3, <3>4, <3>5
    <3>7. QED
      BY <3>6 DEF a, b
  <2>9. x \div 1000000 = D(x, 7)
    <3>. DEFINE a == x \div 1000000
    <3>1. a \in Nat /\ 1000000 * a <= x
      BY SMT
    <3>2. D(x, 7) = a % 10
      BY <1>5
    <3>. HIDE DEF a
    <3>3. a <= 1
      BY <2>2, <3>1, SMT
    <3>4. a % 10 = a
      BY <3>1, <3>3
    <3>5. QED
      BY <3>2, <3>4 DEF a
  <2>10. /\ D(x, 1) \in Int /\ D(x, 2) \in Int /\ D(x, 3) \in Int /\ D(x, 4) \in Int
         /\ D(x, 5) \in Int /\ D(x, 6) \in Int /\ D(x, 7) \in Int
    <3>1. \A y \in Nat : y % 10 \in Int
      OBVIOUS
    <3>2. /\ x \div 10 \in Nat /\ x \div 100 \in Nat /\ x \div 1000 \in Nat /\ x \div 10000 \in Nat
          /\ x \div 100000 \in Nat /\ x \div 1000000 \in Nat
      BY SMT
    <3>3. D(x, 1) \in Int
      BY <1>5, <3>1, <3>2, SMT
    <3>4. D(x, 2) \in Int
      BY <1>5, <3>1, <3>2, SMT
    <3>5. D(x, 3) \in Int
      BY <1>5, <3>1, <3>2, SMT
    <3>6. D(x, 4) \in Int
      BY <1>5, <3>1, <3>2, SMT
    <3>7. D(x, 5) \in Int
      BY <1>5, <3>1, <3>2, SMT
    <3>8. D(x, 6) \in Int
      BY <1>5, <3>1, <3>2, SMT
    <3>9. D(x, 7) \in Int
      BY <1>5, <3>1, <3>2, SMT
    <3>10. QED
      BY <3>3, <3>4, <3>5, <3>6, <3>7, <3>8, <3>9
  <2>11. QED
    BY <2>3, <2>4, <2>5, <2>6, <2>7, <2>8, <2>9, <2>10, SMT
<1>8. QED
  BY <1>4, <1>6, <1>7, SMT

\* What has a colon and nothing before has one colon first.
LEMMA ColonFirst ==
    ASSUME NEW a \in Strings, NEW s \in Strings, NEW b \in Strings, NEW t \in Strings,
           \A i \in 1 .. Len(a) : a[i] # ":", \A i \in 1 .. Len(b) : b[i] # ":",
           Len(s) > 0, s[1] = ":", Len(t) > 0, t[1] = ":", Join(a, s) = Join(b, t)
    PROVE  a = b /\ s = t
<1>1. Len(a) \in Nat /\ Len(b) \in Nat
  BY Joined
<1>2. (\A i \in 1 .. Len(a) : Join(a, s)[i] = a[i]) /\ Join(a, s)[Len(a) + 1] = ":"
  BY Joined
<1>3. (\A i \in 1 .. Len(b) : Join(b, t)[i] = b[i]) /\ Join(b, t)[Len(b) + 1] = ":"
  BY Joined
<1>4. ~(Len(a) < Len(b))
  <2>1. SUFFICES ASSUME Len(a) < Len(b)  PROVE FALSE
    OBVIOUS
  <2>2. Len(a) + 1 \in 1 .. Len(b)
    BY <1>1, <2>1
  <2>3. b[Len(a) + 1] = ":"
    BY <1>2, <1>3, <2>2
  <2>4. QED
    BY <2>2, <2>3
<1>5. ~(Len(b) < Len(a))
  <2>1. SUFFICES ASSUME Len(b) < Len(a)  PROVE FALSE
    OBVIOUS
  <2>2. Len(b) + 1 \in 1 .. Len(a)
    BY <1>1, <2>1
  <2>3. a[Len(b) + 1] = ":"
    BY <1>2, <1>3, <2>2
  <2>4. QED
    BY <2>2, <2>3
<1>6. Len(a) = Len(b)
  BY <1>1, <1>4, <1>5
<1>7. QED
  BY <1>6, PartsSame

\* A field: the text of its length, and then a colon.
LEMMA FieldParts ==
    ASSUME NEW x \in Strings, Len(x) \in Numerals, NEW r \in Strings,
           NEW a, a = Emitted!AsText(Len(x)), NEW c, c = <<":">>
    PROVE  /\ Emitted!Field(x) \in Strings
           /\ Join(Emitted!Field(x), r) = Join(a, Join(c, Join(x, r)))
           /\ a \in Strings /\ \A i \in 1 .. Len(a) : a[i] # ":"
           /\ c \in Strings /\ Join(x, r) \in Strings /\ Join(c, Join(x, r)) \in Strings
           /\ Len(Join(c, Join(x, r))) > 0 /\ Join(c, Join(x, r))[1] = ":"
<1>1. a \in Strings /\ \A i \in 1 .. Len(a) : a[i] # ":"
  BY TextOf
<1>2. c \in Strings /\ Len(c) = 1 /\ c[1] = ":"
  BY DEF Strings, Letters
<1>3. Emitted!Field(x) = Join(Join(a, c), x)
  BY DEF Emitted!Field, Join
<1>4. Join(x, r) \in Strings /\ Join(a, c) \in Strings /\ Len(Join(x, r)) \in Nat
  BY <1>1, <1>2, Joined
<1>5. Join(Join(a, c), x) \in Strings /\ Join(c, Join(x, r)) \in Strings
  BY <1>2, <1>4, Joined
<1>6. Join(Join(Join(a, c), x), r) = Join(Join(a, c), Join(x, r))
  BY <1>4, JoinsSame
<1>7. Join(Join(a, c), Join(x, r)) = Join(a, Join(c, Join(x, r)))
  BY <1>1, <1>2, <1>4, JoinsSame
<1>8. Len(Join(c, Join(x, r))) = 1 + Len(Join(x, r)) /\ Join(c, Join(x, r))[1] = c[1]
  <2>1. PICK v \in Strings : v = Join(x, r)
    BY <1>4
  <2>2. Len(Join(c, v)) = Len(c) + Len(v)
    BY <1>2, Joined
  <2>3. \A i \in 1 .. Len(c) : Join(c, v)[i] = c[i]
    BY <1>2, Joined
  <2>4. 1 \in 1 .. Len(c)
    BY <1>2
  <2>5. Join(c, v)[1] = c[1]
    BY <2>3, <2>4
  <2>6. QED
    BY <1>2, <2>1, <2>2, <2>5
<1>9. Len(Join(c, Join(x, r))) > 0
  BY <1>4, <1>8
<1>10. QED
  BY <1>1, <1>2, <1>3, <1>4, <1>5, <1>6, <1>7, <1>8, <1>9

\* A field's text is read back before anything that follows.
LEMMA FieldSplit ==
    ASSUME NEW x \in Strings, NEW y \in Strings, Len(x) \in Numerals, Len(y) \in Numerals,
           NEW r \in Strings, NEW q \in Strings,
           Join(Emitted!Field(x), r) = Join(Emitted!Field(y), q)
    PROVE  x = y /\ r = q
<1>1. PICK a : a = Emitted!AsText(Len(x))
  OBVIOUS
<1>2. PICK b : b = Emitted!AsText(Len(y))
  OBVIOUS
<1>3. PICK c : c = <<":">>
  OBVIOUS
<1>4. PICK s : s = Join(c, Join(x, r))
  OBVIOUS
<1>5. PICK t : t = Join(c, Join(y, q))
  OBVIOUS
<1>6. /\ Join(Emitted!Field(x), r) = Join(a, s) /\ a \in Strings /\ s \in Strings
      /\ \A i \in 1 .. Len(a) : a[i] # ":"
      /\ c \in Strings /\ Join(x, r) \in Strings /\ Len(s) > 0 /\ s[1] = ":"
  BY <1>1, <1>3, <1>4, FieldParts
<1>7. /\ Join(Emitted!Field(y), q) = Join(b, t) /\ b \in Strings /\ t \in Strings
      /\ \A i \in 1 .. Len(b) : b[i] # ":"
      /\ c \in Strings /\ Join(y, q) \in Strings /\ Len(t) > 0 /\ t[1] = ":"
  BY <1>2, <1>3, <1>5, FieldParts
<1>8. Join(a, s) = Join(b, t)
  BY <1>6, <1>7
<1>9. a = b /\ s = t
  BY <1>6, <1>7, <1>8, ColonFirst
<1>10. Len(x) = Len(y)
  BY <1>1, <1>2, <1>9, SameNumber
<1>11. Join(x, r) = Join(y, q)
  <2>1. PICK v \in Strings : v = Join(x, r)
    BY <1>6
  <2>2. PICK w \in Strings : w = Join(y, q)
    BY <1>7
  <2>3. Join(c, v) = Join(c, w) /\ c \in Strings
    BY <1>4, <1>5, <1>6, <1>9, <2>1, <2>2
  <2>4. v = w
    BY <2>3, PartsSame
  <2>5. QED
    BY <2>1, <2>2, <2>4
<1>12. QED
  BY <1>10, <1>11, PartsSame

\* An attempt at a task, and its identity.
AttemptRecords == [namespace : Texts, task : Texts, attempt : Attempts]

LEMMA SameId ==
    ASSUME Emitted!RLEventsAssumption, NEW a \in AttemptRecords, NEW b \in AttemptRecords,
           Emitted!EventId(a) = Emitted!EventId(b)
    PROVE  a = b
<1>1. \A t \in Texts : t \in Strings /\ Len(t) \in Numerals
  <2>1. TAKE t \in Texts
  <2>2. t \in Seq({ t[i] : i \in DOMAIN t }) /\ Len(t) <= 256
    BY DEF Emitted!RLEventsAssumption
  <2>3. { t[i] : i \in DOMAIN t } \subseteq Letters
    BY DEF Letters
  <2>4. t \in Strings
    <3>. DEFINE own == { t[i] : i \in DOMAIN t }
    <3>1. t \in Seq(own) /\ own \subseteq Letters
      BY <2>2, <2>3
    <3>. HIDE DEF own
    <3>2. t \in Seq(Letters)
      BY <3>1
    <3>3. QED
      BY <3>2 DEF Strings
  <2>5. Len(t) \in Nat
    BY <2>4 DEF Strings
  <2>6. Len(t) <= 1000000
    BY <2>2, <2>5, SMT
  <2>7. QED
    BY <2>4, <2>5, <2>6, SMT DEF Numerals
<1>2. \A n \in Attempts : /\ n \in Numerals /\ Emitted!AsText(n) \in Strings
                          /\ Len(Emitted!AsText(n)) \in Numerals
  <2>1. TAKE n \in Attempts
  <2>2. n \in Nat /\ n <= 1000000
    BY SMT DEF Emitted!RLEventsAssumption
  <2>3. n \in Numerals
    BY <2>2, SMT DEF Numerals
  <2>4. Len(Emitted!AsText(n)) \in 1 .. 7 /\ Emitted!AsText(n) \in Strings
    BY <2>3, TextOf
  <2>5. PICK n7 \in 1 .. 7 : n7 = Len(Emitted!AsText(n))
    BY <2>4
  <2>6. n7 \in Nat /\ n7 <= 1000000
    BY SMT
  <2>7. Len(Emitted!AsText(n)) \in Numerals
    BY <2>5, <2>6, SMT DEF Numerals
  <2>8. QED
    BY <2>3, <2>4, <2>7
<1>3. \A x \in Strings : Len(x) \in Numerals => Emitted!Field(x) \in Strings
  <2>1. TAKE x \in Strings
  <2>2. SUFFICES ASSUME Len(x) \in Numerals  PROVE Emitted!Field(x) \in Strings
    OBVIOUS
  <2>3. Emitted!AsText(Len(x)) \in Strings /\ <<":">> \in Strings
    BY <2>2, TextOf DEF Strings, Letters
  <2>4. QED
    BY <2>2, <2>3, FieldParts
<1>. DEFINE N(c) == Emitted!Field(c.namespace)
            T(c) == Emitted!Field(c.task)
            A(c) == Emitted!Field(Emitted!AsText(c.attempt))
<1>4. \A c \in AttemptRecords : /\ c.namespace \in Texts /\ c.task \in Texts /\ c.attempt \in Attempts
                                /\ c = [namespace |-> c.namespace, task |-> c.task, attempt |-> c.attempt]
  BY DEF AttemptRecords
<1>5. \A c \in AttemptRecords : N(c) \in Strings /\ T(c) \in Strings /\ A(c) \in Strings
  BY <1>1, <1>2, <1>3, <1>4
<1>6. \A c \in AttemptRecords : Emitted!EventId(c) = Join(Join(N(c), T(c)), A(c))
  BY Zenon DEF Emitted!EventId, Join
<1>. HIDE DEF N, T, A
<1>7. \A c \in AttemptRecords : /\ Emitted!EventId(c) = Join(N(c), Join(T(c), A(c)))
                                /\ Join(T(c), A(c)) \in Strings
  BY <1>5, <1>6, Joined, JoinsSame
<1>8. a.namespace = b.namespace /\ Join(T(a), A(a)) = Join(T(b), A(b))
  <2>1. /\ a.namespace \in Strings /\ Len(a.namespace) \in Numerals
        /\ b.namespace \in Strings /\ Len(b.namespace) \in Numerals
        /\ Join(T(a), A(a)) \in Strings /\ Join(T(b), A(b)) \in Strings
    BY <1>1, <1>4, <1>7
  <2>2. Join(N(a), Join(T(a), A(a))) = Join(N(b), Join(T(b), A(b)))
    BY <1>7
  <2>3. Join(Emitted!Field(a.namespace), Join(T(a), A(a))) = Join(Emitted!Field(b.namespace), Join(T(b), A(b)))
    BY <2>2 DEF N
  <2>4. QED
    BY <2>1, <2>3, FieldSplit
<1>9. a.task = b.task /\ A(a) = A(b)
  <2>1. /\ a.task \in Strings /\ Len(a.task) \in Numerals /\ b.task \in Strings /\ Len(b.task) \in Numerals
        /\ A(a) \in Strings /\ A(b) \in Strings
    BY <1>1, <1>4, <1>5
  <2>2. Join(Emitted!Field(a.task), A(a)) = Join(Emitted!Field(b.task), A(b))
    BY <1>8 DEF T
  <2>3. QED
    BY <2>1, <2>2, FieldSplit
<1>10. a.attempt = b.attempt
  <2>1. /\ Emitted!AsText(a.attempt) \in Strings /\ Len(Emitted!AsText(a.attempt)) \in Numerals
        /\ Emitted!AsText(b.attempt) \in Strings /\ Len(Emitted!AsText(b.attempt)) \in Numerals
        /\ a.attempt \in Numerals /\ b.attempt \in Numerals
    BY <1>2, <1>4
  <2>2. <<>> \in Strings
    BY DEF Strings
  <2>3. Join(Emitted!Field(Emitted!AsText(a.attempt)), <<>>) = Join(Emitted!Field(Emitted!AsText(b.attempt)), <<>>)
    BY <1>9 DEF A
  <2>4. Emitted!AsText(a.attempt) = Emitted!AsText(b.attempt)
    BY <2>1, <2>2, <2>3, FieldSplit
  <2>5. QED
    BY <2>1, <2>4, SameNumber
<1>11. QED
  BY <1>4, <1>8, <1>9, <1>10

\* A thread inside the lock has it, and the last piece is the first of a line only while
\* its thread writes the rest.
Locked == {"diagnose", "write", "rest", "flush"}
Lines == [thread : Reporters, report : Nat, part : {"first", "last"}]

LinesInv ==
    /\ DOMAIN thread = Reporters
    /\ \A t \in Reporters : /\ DOMAIN thread[t] = {"at", "reports"} /\ thread[t].reports \in Nat
                            /\ thread[t].at \in Locked => lock = t
    /\ stdout \in Seq(Lines)
    /\ \A i \in 1 .. Len(stdout) : stdout[i].part = "first" /\ i < Len(stdout) =>
                                      stdout[i + 1] = [stdout[i] EXCEPT !.part = "last"]
    /\ \A t \in Reporters : thread[t].at = "rest" =>
          Len(stdout) > 0 /\ stdout[Len(stdout)] = Emitted!Piece(t, "first")
    /\ Len(stdout) > 0 /\ stdout[Len(stdout)].part = "first" =>
          \E t \in Reporters : thread[t].at = "rest"

\* Each identity is stored for the attempt it is of.
IdsInv ==
    /\ reported \subseteq AttemptRecords
    /\ DOMAIN stored = { Emitted!EventId(a) : a \in reported }
    /\ \A a \in reported : stored[Emitted!EventId(a)] = a

EmittedInv == LinesInv /\ IdsInv /\ Emitted!NothingDropped

LEMMA EmittedInit == ASSUME Emitted!RLEventsAssumption, Emitted!Init PROVE EmittedInv
<1>1. /\ thread = [t \in Reporters |-> [at |-> "run", reports |-> 0]]
      /\ stdout = <<>> /\ stored = << >> /\ reported = {}
      /\ size = [known |-> FALSE, accepted |-> FALSE, runner |-> 0]
  BY DEF Emitted!Init
<1>2. LinesInv
  <2>1. DOMAIN thread = Reporters /\ \A t \in Reporters : thread[t] = [at |-> "run", reports |-> 0]
    BY <1>1
  <2>2. \A t \in Reporters : DOMAIN thread[t] = {"at", "reports"} /\ thread[t].reports = 0
                             /\ thread[t].at = "run"
    BY <2>1
  <2>3. stdout \in Seq(Lines) /\ Len(stdout) = 0
    BY <1>1
  <2>4. QED
    BY <2>1, <2>2, <2>3 DEF LinesInv, Locked
<1>3. IdsInv
  BY <1>1 DEF IdsInv
<1>4. Emitted!NothingDropped
  BY <1>1 DEF Emitted!NothingDropped
<1>5. QED
  BY <1>2, <1>3, <1>4 DEF EmittedInv

\* A step of the identities: an attempt has no other's.
LEMMA IdsPreserved ==
    ASSUME Emitted!RLEventsAssumption, IdsInv, Emitted!Report PROVE IdsInv'
<1>1. PICK a \in AttemptRecords :
         /\ reported' = reported \cup {a}
         /\ stored' = IF Emitted!EventId(a) \in DOMAIN stored THEN stored
                      ELSE [id \in DOMAIN stored \cup {Emitted!EventId(a)} |->
                               IF id = Emitted!EventId(a) THEN a ELSE stored[id]]
  BY DEF Emitted!Report, AttemptRecords
<1>2. /\ reported \subseteq AttemptRecords
      /\ DOMAIN stored = { Emitted!EventId(b) : b \in reported }
      /\ \A b \in reported : stored[Emitted!EventId(b)] = b
  BY DEF IdsInv
<1>3. \A b \in reported : Emitted!EventId(b) = Emitted!EventId(a) => b = a
  BY <1>2, SameId
<1>4. CASE Emitted!EventId(a) \in DOMAIN stored
  <2>1. a \in reported
    BY <1>2, <1>3, <1>4
  <2>2. reported' = reported /\ stored' = stored
    BY <1>1, <1>4, <2>1
  <2>3. QED
    BY <1>2, <2>2 DEF IdsInv
<1>5. CASE Emitted!EventId(a) \notin DOMAIN stored
  <2>1. stored' = [id \in DOMAIN stored \cup {Emitted!EventId(a)} |->
                      IF id = Emitted!EventId(a) THEN a ELSE stored[id]]
    BY <1>1, <1>5
  <2>2. DOMAIN stored' = DOMAIN stored \cup {Emitted!EventId(a)}
    BY <2>1
  <2>3. DOMAIN stored' = { Emitted!EventId(b) : b \in reported' }
    BY <1>1, <1>2, <2>2
  <2>4. ASSUME NEW b \in reported' PROVE stored'[Emitted!EventId(b)] = b
    <3>1. CASE b = a
      BY <2>1, <3>1
    <3>2. CASE b # a
      <4>1. b \in reported /\ Emitted!EventId(b) # Emitted!EventId(a)
        BY <1>1, <1>3, <3>2
      <4>2. Emitted!EventId(b) \in DOMAIN stored
        BY <1>2, <4>1
      <4>3. QED
        BY <1>2, <2>1, <4>1, <4>2
    <3>3. QED
      BY <3>1, <3>2
  <2>5. reported' \subseteq AttemptRecords
    BY <1>1, <1>2
  <2>6. QED
    BY <2>3, <2>4, <2>5 DEF IdsInv
<1>6. QED
  BY <1>4, <1>5

LEMMA IdsHold == ASSUME IdsInv PROVE Emitted!AttemptsKept
<1>1. \A id \in DOMAIN stored : stored[id] \in reported
  BY DEF IdsInv
<1>2. \A a \in reported : \E id \in DOMAIN stored : stored[id] = a
  BY DEF IdsInv
<1>3. QED
  BY <1>1, <1>2 DEF Emitted!AttemptsKept

\* The runner's text of a number is no longer than what is measured for it here.
LEMMA TextsFit ==
    ASSUME NEW n \in (-30 .. 30) \X (1 .. 17)
    PROVE  /\ Emitted!RunnerLength(n) \in Int
           /\ Emitted!PythonLength(n) + Emitted!Growth(n) \in Int
           /\ Emitted!RunnerLength(n) <= Emitted!PythonLength(n) + Emitted!Growth(n)
           /\ Emitted!PythonLength(n) \in Int /\ Emitted!Growth(n) \in Int
<1>1. PICK e \in -30 .. 30, d \in 1 .. 17 : n = <<e, d>>
  OBVIOUS
<1>2. Emitted!Exponent(n) = e /\ Emitted!Figures(n) = d
  BY <1>1 DEF Emitted!Exponent, Emitted!Figures
<1>3. PICK m \in Nat : m = Emitted!Mantissa(n)
  BY <1>2 DEF Emitted!Mantissa
<1>4. PICK p : p = Emitted!Plain(n)
  OBVIOUS
<1>5. p = IF e < 0 THEN 1 - e + d ELSE IF d <= e + 1 THEN e + 1 ELSE d + 1
  BY <1>2, <1>4 DEF Emitted!Plain
<1>6. p \in Int
  BY <1>5
<1>7. Emitted!Scientific(n) = m + 4
  BY <1>3 DEF Emitted!Scientific
<1>8. PICK l : l = Emitted!PythonLength(n)
  OBVIOUS
<1>9. l = IF ~(e \in -4 .. 15) THEN m + 4 ELSE p + (IF d <= e + 1 THEN 2 ELSE 0)
  BY <1>2, <1>4, <1>7, <1>8 DEF Emitted!PythonLength, Emitted!PythonPlain
<1>10. PICK g : g = Emitted!Growth(n)
  OBVIOUS
<1>11. g = IF ~(e \in -4 .. 15) /\ e \in -6 .. 20 THEN (IF 0 < p - l THEN p - l ELSE 0) ELSE 0
  BY <1>2, <1>4, <1>8, <1>10 DEF Emitted!Growth, Emitted!PythonPlain, Emitted!MaxOf
<1>12. PICK r : r = Emitted!RunnerLength(n)
  OBVIOUS
<1>13. r = IF e \in -6 .. 20 THEN p ELSE IF e \in -9 .. -7 THEN m + 3 ELSE m + 4
  BY <1>2, <1>4, <1>7, <1>12 DEF Emitted!RunnerLength
<1>14. l \in Int /\ g \in Int /\ r \in Int
  BY <1>6, <1>9, <1>11, <1>13
<1>15. r <= l + g
  BY <1>6, <1>9, <1>11, <1>13
<1>16. QED
  BY <1>8, <1>10, <1>12, <1>14, <1>15

\* An event is encoded.
LEMMA SizesPreserved ==
    ASSUME Emitted!RLEventsAssumption, Emitted!Encode PROVE Emitted!NothingDropped'
<1>1. PICK n \in Numbers, m \in Numbers, rest \in MaxBytes - 60 .. MaxBytes :
         size' = [known |-> TRUE, accepted |-> rest + Emitted!Here(n, m) <= MaxBytes,
                  runner |-> rest + Emitted!Runner(n, m)]
  BY DEF Emitted!Encode
<1>2. n \in (-30 .. 30) \X (1 .. 17) /\ m \in (-30 .. 30) \X (1 .. 17) /\ MaxBytes \in Nat
  BY DEF Emitted!RLEventsAssumption
<1>3. Emitted!Runner(n, m) \in Int /\ Emitted!Here(n, m) \in Int
      /\ Emitted!Runner(n, m) <= Emitted!Here(n, m)
  <2>1. PICK a \in Int : a = Emitted!RunnerLength(n)
    BY <1>2, TextsFit
  <2>2. PICK b \in Int : b = Emitted!RunnerLength(m)
    BY <1>2, TextsFit
  <2>3. PICK c \in Int : c = Emitted!PythonLength(n)
    BY <1>2, TextsFit
  <2>4. PICK d \in Int : d = Emitted!PythonLength(m)
    BY <1>2, TextsFit
  <2>5. PICK e \in Int : e = Emitted!Growth(n)
    BY <1>2, TextsFit
  <2>6. PICK f \in Int : f = Emitted!Growth(m)
    BY <1>2, TextsFit
  <2>7. a <= c + e
    BY <1>2, <2>1, <2>3, <2>5, TextsFit
  <2>8. b <= d + f
    BY <1>2, <2>2, <2>4, <2>6, TextsFit
  <2>9. Emitted!Runner(n, m) = a + b /\ Emitted!Here(n, m) = c + d + e + f
    BY <2>1, <2>2, <2>3, <2>4, <2>5, <2>6 DEF Emitted!Runner, Emitted!Here
  <2>10. QED
    BY <2>7, <2>8, <2>9
<1>4. PICK h : h = (rest + Emitted!Here(n, m) <= MaxBytes)
  OBVIOUS
<1>5. size'.accepted = h /\ size'.runner = rest + Emitted!Runner(n, m)
  BY <1>1, <1>4
<1>6. h => rest + Emitted!Runner(n, m) <= MaxBytes
  <2>1. PICK a \in Int : a = Emitted!Runner(n, m)
    BY <1>3
  <2>2. PICK b \in Int : b = Emitted!Here(n, m)
    BY <1>3
  <2>3. a <= b
    BY <1>3, <2>1, <2>2
  <2>4. h => rest + b <= MaxBytes
    BY <1>4, <2>2
  <2>5. h => rest + a <= MaxBytes
    BY <1>2, <2>3, <2>4
  <2>6. QED
    BY <2>1, <2>5
<1>7. QED
  BY <1>5, <1>6 DEF Emitted!NothingDropped

\* A step that writes nothing.
LEMMA LinesQuiet ==
    ASSUME LinesInv, NEW t \in Reporters, NEW c, thread' = [thread EXCEPT ![t] = c],
           DOMAIN c = {"at", "reports"}, c.reports \in Nat, c.at # "rest", thread[t].at # "rest",
           c.at \in Locked => lock' = t,
           \A u \in Reporters \ {t} : thread[u].at \in Locked => lock' = u, stdout' = stdout
    PROVE  LinesInv'
<1>1. DOMAIN thread = Reporters
  BY DEF LinesInv
<1>2. DOMAIN thread' = Reporters /\ thread'[t] = c /\ \A u \in Reporters \ {t} : thread'[u] = thread[u]
  BY <1>1
<1>3. \A u \in Reporters : /\ DOMAIN thread'[u] = {"at", "reports"} /\ thread'[u].reports \in Nat
                           /\ thread'[u].at \in Locked => lock' = u
  BY <1>2 DEF LinesInv
<1>4. \A u \in Reporters : thread'[u].at = "rest" =>
         Len(stdout) > 0 /\ stdout[Len(stdout)] = Emitted!Piece(u, "first")'
  <2>1. SUFFICES ASSUME NEW u \in Reporters, thread'[u].at = "rest"
                 PROVE  Len(stdout) > 0 /\ stdout[Len(stdout)] = Emitted!Piece(u, "first")'
    OBVIOUS
  <2>2. u # t /\ thread'[u] = thread[u]
    BY <1>2, <2>1
  <2>3. Len(stdout) > 0 /\ stdout[Len(stdout)] = Emitted!Piece(u, "first")
    BY <2>1, <2>2 DEF LinesInv
  <2>4. Emitted!Piece(u, "first")' = Emitted!Piece(u, "first")
    BY <2>2 DEF Emitted!Piece
  <2>5. QED
    BY <2>3, <2>4
<1>5. Len(stdout) > 0 /\ stdout[Len(stdout)].part = "first" => \E u \in Reporters : thread'[u].at = "rest"
  <2>1. SUFFICES ASSUME Len(stdout) > 0, stdout[Len(stdout)].part = "first"
                 PROVE  \E u \in Reporters : thread'[u].at = "rest"
    OBVIOUS
  <2>2. PICK u \in Reporters : thread[u].at = "rest"
    BY <2>1 DEF LinesInv
  <2>3. thread'[u] = thread[u]
    BY <1>2, <2>2
  <2>4. QED
    BY <2>2, <2>3
<1>6. /\ stdout \in Seq(Lines)
      /\ \A i \in 1 .. Len(stdout) : stdout[i].part = "first" /\ i < Len(stdout) =>
                                        stdout[i + 1] = [stdout[i] EXCEPT !.part = "last"]
  BY DEF LinesInv
<1>7. QED
  BY <1>2, <1>3, <1>4, <1>5, <1>6 DEF LinesInv

\* Scoring, taking the lock, a diagnostic and releasing the lock write no line.
LEMMA LinesScore ==
    ASSUME LinesInv, NEW t \in Reporters, Emitted!Score(t) PROVE LinesInv'
<1>1. DOMAIN thread = Reporters /\ DOMAIN thread[t] = {"at", "reports"} /\ thread[t].reports \in Nat
  BY DEF LinesInv
<1>2. thread[t].at = "run" /\ lock' = lock /\ stdout' = stdout
  BY DEF Emitted!Score
<1>3. PICK c : /\ thread' = [thread EXCEPT ![t] = c]
               /\ c = [thread[t] EXCEPT !.at = "scored"]
                  \/ c = [thread[t] EXCEPT !.reports = thread[t].reports + 1]
  <2>1. \/ thread' = [thread EXCEPT ![t] = [thread[t] EXCEPT !.at = "scored"]]
        \/ thread' = [thread EXCEPT ![t] = [thread[t] EXCEPT !.reports = thread[t].reports + 1]]
    BY DEF Emitted!Score, Emitted!At
  <2>2. QED
    BY <2>1
<1>4. DOMAIN c = {"at", "reports"} /\ c.reports \in Nat /\ c.at \in {"scored", "run"}
  BY <1>1, <1>2, <1>3
<1>5. \A u \in Reporters \ {t} : thread[u].at \in Locked => lock' = u
  BY <1>2 DEF LinesInv
<1>6. QED
  BY <1>2, <1>3, <1>4, <1>5, LinesQuiet DEF Locked

LEMMA LinesAcquire ==
    ASSUME LinesInv, Emitted!RLEventsAssumption, NEW t \in Reporters,
           Emitted!Acquire(t) \/ Emitted!Diagnose(t)
    PROVE  LinesInv'
<1>1. DOMAIN thread = Reporters /\ DOMAIN thread[t] = {"at", "reports"} /\ thread[t].reports \in Nat
      /\ "free" \notin Reporters
  BY DEF LinesInv, Emitted!RLEventsAssumption
<1>2. /\ thread[t].at # "rest" /\ stdout' = stdout
      /\ \/ lock = "free" /\ lock' = t
         \/ thread[t].at = "diagnose" /\ lock' = lock
  BY DEF Emitted!Acquire, Emitted!Diagnose
<1>3. PICK place \in {"write", "diagnose"} : thread' = [thread EXCEPT ![t].at = place]
  BY DEF Emitted!Acquire, Emitted!Diagnose, Emitted!At
<1>4. PICK c : c = [thread[t] EXCEPT !.at = place]
  OBVIOUS
<1>5. DOMAIN c = {"at", "reports"} /\ c.reports \in Nat /\ c.at # "rest"
  BY <1>1, <1>3, <1>4
<1>6. thread' = [thread EXCEPT ![t] = c]
  BY <1>3, <1>4
<1>7. \A u \in Reporters : thread[u].at \in Locked => lock = u
  BY DEF LinesInv
<1>8. lock' = t
  BY <1>2, <1>7 DEF Locked
<1>9. \A u \in Reporters \ {t} : thread[u].at \in Locked => lock' = u
  BY <1>1, <1>2, <1>7, <1>8 DEF Locked
<1>10. QED
  BY <1>2, <1>5, <1>6, <1>8, <1>9, LinesQuiet

LEMMA LinesRelease ==
    ASSUME LinesInv, NEW t \in Reporters, Emitted!Release(t) PROVE LinesInv'
<1>1. DOMAIN thread = Reporters /\ thread[t].reports \in Nat
  BY DEF LinesInv
<1>2. thread[t].at = "flush" /\ stdout' = stdout
  BY DEF Emitted!Release
<1>3. PICK c : c = [at |-> "run", reports |-> thread[t].reports + 1]
  OBVIOUS
<1>4. thread' = [thread EXCEPT ![t] = c]
  BY <1>3 DEF Emitted!Release
<1>5. DOMAIN c = {"at", "reports"} /\ c.reports \in Nat /\ c.at = "run"
  BY <1>1, <1>3
<1>6. \A u \in Reporters : thread[u].at \in Locked => lock = u
  BY DEF LinesInv
<1>7. \A u \in Reporters \ {t} : thread[u].at \in Locked => lock' = u
  BY <1>2, <1>6 DEF Locked
<1>8. QED
  BY <1>2, <1>4, <1>5, <1>7, LinesQuiet DEF Locked

\* A piece is written: the first of a line after a whole one, the last after its first.
LEMMA LinesWrite ==
    ASSUME LinesInv, NEW t \in Reporters, Emitted!WritePiece(t) PROVE LinesInv'
<1>1. /\ DOMAIN thread = Reporters /\ DOMAIN thread[t] = {"at", "reports"}
      /\ thread[t].reports \in Nat /\ stdout \in Seq(Lines)
  BY DEF LinesInv
<1>2. PICK piece : piece = IF thread[t].at = "write" THEN "first" ELSE "last"
  OBVIOUS
<1>3. PICK place : place = IF thread[t].at = "write" THEN "rest" ELSE "flush"
  OBVIOUS
<1>4. /\ thread[t].at \in {"write", "rest"} /\ lock' = lock
      /\ thread' = [thread EXCEPT ![t].at = place]
      /\ stdout' = Append(stdout, Emitted!Piece(t, piece))
  BY <1>2, <1>3 DEF Emitted!WritePiece, Emitted!At
<1>5. lock = t /\ \A u \in Reporters \ {t} : thread[u].at \notin Locked
  BY <1>4 DEF LinesInv, Locked
<1>6. /\ DOMAIN thread' = Reporters /\ \A u \in Reporters \ {t} : thread'[u] = thread[u]
      /\ DOMAIN thread'[t] = {"at", "reports"} /\ thread'[t].reports = thread[t].reports
      /\ thread'[t].at = place
  BY <1>1, <1>4
<1>7. \A u \in Reporters : /\ DOMAIN thread'[u] = {"at", "reports"} /\ thread'[u].reports \in Nat
                           /\ thread'[u].at \in Locked => lock' = u
  BY <1>1, <1>4, <1>5, <1>6 DEF LinesInv
<1>8. PICK line : line = Emitted!Piece(t, piece)
  OBVIOUS
<1>9. line \in Lines /\ line.part = piece
      /\ line = [thread |-> t, report |-> thread[t].reports, part |-> piece]
  BY <1>1, <1>2, <1>8 DEF Emitted!Piece, Lines
<1>10. PICK n \in Nat : n = Len(stdout)
  BY <1>1
<1>11. /\ stdout' \in Seq(Lines) /\ Len(stdout') = n + 1 /\ stdout'[n + 1] = line
       /\ \A i \in 1 .. n : stdout'[i] = stdout[i]
  BY <1>1, <1>4, <1>8, <1>9, <1>10
<1>12. n > 0 /\ stdout[n].part = "first" => line = [stdout[n] EXCEPT !.part = "last"]
  <2>1. SUFFICES ASSUME n > 0, stdout[n].part = "first"
                 PROVE  line = [stdout[n] EXCEPT !.part = "last"]
    OBVIOUS
  <2>2. PICK u \in Reporters : thread[u].at = "rest"
    BY <1>10, <2>1 DEF LinesInv
  <2>3. thread[t].at = "rest"
    BY <1>5, <2>2 DEF Locked
  <2>4. stdout[n] = [thread |-> t, report |-> thread[t].reports, part |-> "first"] /\ piece = "last"
    BY <1>2, <1>10, <2>3 DEF LinesInv, Emitted!Piece
  <2>5. QED
    BY <1>9, <2>4
<1>13. \A i \in 1 .. n : stdout[i].part = "first" /\ i < n =>
                            stdout[i + 1] = [stdout[i] EXCEPT !.part = "last"]
  BY <1>10 DEF LinesInv
<1>14. \A i \in 1 .. n + 1 : stdout'[i].part = "first" /\ i < n + 1 =>
                                stdout'[i + 1] = [stdout'[i] EXCEPT !.part = "last"]
  <2>1. SUFFICES ASSUME NEW i \in 1 .. n + 1, stdout'[i].part = "first", i < n + 1
                 PROVE  stdout'[i + 1] = [stdout'[i] EXCEPT !.part = "last"]
    OBVIOUS
  <2>2. i \in 1 .. n /\ stdout'[i] = stdout[i]
    BY <1>11, <2>1
  <2>3. CASE i = n
    <3>1. n > 0 /\ stdout[n].part = "first" /\ stdout'[i + 1] = line
      BY <1>11, <2>1, <2>2, <2>3
    <3>2. QED
      BY <1>12, <2>2, <2>3, <3>1
  <2>4. CASE i # n
    <3>1. i < n /\ i + 1 \in 1 .. n
      BY <2>2, <2>4
    <3>2. stdout'[i + 1] = stdout[i + 1]
      BY <1>11, <3>1
    <3>3. QED
      BY <1>13, <2>1, <2>2, <3>1, <3>2
  <2>5. QED
    BY <2>3, <2>4
<1>15. \A u \in Reporters : thread'[u].at = "rest" =>
          Len(stdout') > 0 /\ stdout'[Len(stdout')] = Emitted!Piece(u, "first")'
  <2>1. SUFFICES ASSUME NEW u \in Reporters, thread'[u].at = "rest"
                 PROVE  Len(stdout') > 0 /\ stdout'[Len(stdout')] = Emitted!Piece(u, "first")'
    OBVIOUS
  <2>2. u = t
    BY <1>5, <1>6, <2>1 DEF Locked
  <2>3. piece = "first"
    BY <1>2, <1>3, <1>6, <2>1, <2>2
  <2>4. Emitted!Piece(u, "first")' = line
    BY <1>6, <1>9, <2>2, <2>3 DEF Emitted!Piece
  <2>5. QED
    BY <1>11, <2>4
<1>16. Len(stdout') > 0 /\ stdout'[Len(stdout')].part = "first" =>
          \E u \in Reporters : thread'[u].at = "rest"
  <2>1. SUFFICES ASSUME stdout'[Len(stdout')].part = "first"
                 PROVE  \E u \in Reporters : thread'[u].at = "rest"
    OBVIOUS
  <2>2. piece = "first"
    BY <1>9, <1>11, <2>1
  <2>3. place = "rest"
    BY <1>2, <1>3, <2>2
  <2>4. QED
    BY <1>6, <2>3
<1>17. \A i \in 1 .. Len(stdout') : stdout'[i].part = "first" /\ i < Len(stdout') =>
                                       stdout'[i + 1] = [stdout'[i] EXCEPT !.part = "last"]
  BY <1>11, <1>14
<1>18. QED
  BY <1>6, <1>7, <1>11, <1>15, <1>16, <1>17 DEF LinesInv

LEMMA EmittedPreserved ==
    ASSUME Emitted!RLEventsAssumption, EmittedInv, [Emitted!Next]_(Emitted!vars) PROVE EmittedInv'
<1>1. LinesInv /\ IdsInv /\ Emitted!NothingDropped
  BY DEF EmittedInv
<1>2. CASE UNCHANGED Emitted!vars
  <2>1. /\ thread' = thread /\ lock' = lock /\ stdout' = stdout
        /\ stored' = stored /\ reported' = reported /\ size' = size
    BY <1>2 DEF Emitted!vars
  <2>2. LinesInv'
    BY <1>1, <2>1 DEF LinesInv, Emitted!Piece
  <2>3. IdsInv' /\ Emitted!NothingDropped'
    BY <1>1, <2>1 DEF IdsInv, Emitted!NothingDropped
  <2>4. QED
    BY <2>2, <2>3 DEF EmittedInv
<1>3. ASSUME NEW t \in Reporters,
             \/ Emitted!Score(t) \/ Emitted!Acquire(t) \/ Emitted!Diagnose(t)
             \/ Emitted!WritePiece(t) \/ Emitted!Release(t)
      PROVE  EmittedInv'
  <2>1. stored' = stored /\ reported' = reported /\ size' = size
    BY <1>3 DEF Emitted!Score, Emitted!Acquire, Emitted!Diagnose, Emitted!WritePiece, Emitted!Release
  <2>2. LinesInv'
    BY <1>1, <1>3, LinesScore, LinesAcquire, LinesWrite, LinesRelease
  <2>3. IdsInv' /\ Emitted!NothingDropped'
    BY <1>1, <2>1 DEF IdsInv, Emitted!NothingDropped
  <2>4. QED
    BY <2>2, <2>3 DEF EmittedInv
<1>4. CASE Emitted!Report
  <2>1. thread' = thread /\ lock' = lock /\ stdout' = stdout /\ size' = size
    BY <1>4 DEF Emitted!Report
  <2>2. LinesInv' /\ Emitted!NothingDropped'
    BY <1>1, <2>1 DEF LinesInv, Emitted!Piece, Emitted!NothingDropped
  <2>3. QED
    BY <1>1, <1>4, <2>2, IdsPreserved DEF EmittedInv
<1>5. CASE Emitted!Encode
  <2>1. thread' = thread /\ lock' = lock /\ stdout' = stdout /\ stored' = stored /\ reported' = reported
    BY <1>5 DEF Emitted!Encode
  <2>2. LinesInv'
    BY <1>1, <2>1 DEF LinesInv, Emitted!Piece
  <2>3. IdsInv'
    BY <1>1, <2>1 DEF IdsInv
  <2>4. QED
    BY <1>5, <2>2, <2>3, SizesPreserved DEF EmittedInv
<1>6. QED
  BY <1>2, <1>3, <1>4, <1>5 DEF Emitted!Next

LEMMA EmittedHold ==
    ASSUME EmittedInv PROVE Emitted!LinesWhole /\ Emitted!AttemptsKept /\ Emitted!NothingDropped
BY IdsHold DEF EmittedInv, LinesInv, Emitted!LinesWhole

\* A line is whole whatever thread writes next, no two attempts have one identity, and an
\* event that is accepted here is not dropped by the runner for its size
\* (_rl_events.py:163-167, 272-289, 353-380).
THEOREM EventsSound ==
    ASSUME Emitted!RLEventsAssumption
    PROVE  Emitted!Spec => [](Emitted!LinesWhole /\ Emitted!AttemptsKept /\ Emitted!NothingDropped)
<1>1. Emitted!Init => EmittedInv
  BY EmittedInit
<1>2. EmittedInv /\ [Emitted!Next]_(Emitted!vars) => EmittedInv'
  BY EmittedPreserved
<1>3. EmittedInv => Emitted!LinesWhole /\ Emitted!AttemptsKept /\ Emitted!NothingDropped
  BY EmittedHold
<1>4. QED
  BY <1>1, <1>2, <1>3, PTL DEF Emitted!Spec

-----------------------------------------------------------------------------
(* AgentCalls.  The entrypoint's second attempt of a completion comes after *)
(* a refusal, which is final and costs nothing, or blindly, after an       *)
(* expired result or a closed broker, which its driver remembers: with any *)
(* other error it has lost its session.                                    *)

Phases  == {"none", "run", "capture", "send", "reply", "poll", "raised", "yielded", "returned",
            "dead"}
Errors  == {"refused", "expired", "unavailable", "unknown"}
Flags   == BOOLEAN
Drivers == [phase : Phases,
            at : 1 .. Len(Program) + 1, attempt : 1 .. 2, page : 0 .. JournalPages,
            failed : Flags, error : Errors \cup {""},
            answers : Seq(Calls!Identities), again : SUBSET (1 .. Len(Program))]
Records == [state : Calls!States, paid : 0 .. 1]

Refused(k) == record[k].state \in {"rejected", "cancelled"}

\* What lets a session use the second key of a call; and some session, at an identity.
MayUse(c, at) == Refused(<<at, 1>>) \/ at \in c.again
Blindly(at) == \E e \in Calls!Sessions : at \in driver[e].again
AfterRefusal(k) == k[2] = 2 => Refused(<<k[1], 1>>) \/ Blindly(k[1])

\* An answer of the first attempt, or of the second where the session may use that.
AnswerSound(c, i, k) ==
    \/ k = <<i, 1>> /\ record[k].state \in {"completed", "expired"}
    \/ k = <<i, 2>> /\ MayUse(c, i)

Asking(c) == c.phase \in {"capture", "send", "reply", "poll"} \/ (c.phase = "run" /\ ~c.failed)

DriverSound(c) ==
    /\ c.phase \notin {"returned", "dead"} => c.at \in 1 .. Len(Program)
    /\ c.phase = "none" => c.attempt = 1
    /\ Len(c.answers) = c.at - 1
    /\ \A i \in 1 .. Len(c.answers) : AnswerSound(c, i, c.answers[i])
    /\ Asking(c) => (c.attempt = 2 => MayUse(c, c.at))
    /\ c.phase = "raised" /\ c.error = "refused" => Refused(<<c.at, c.attempt>>)
    /\ c.phase = "raised" /\ c.error = "unknown" /\ Program[c.at] = "broker" => c.failed
    /\ c.phase = "raised" => c.error # ""
    /\ c.phase = "yielded" => record[<<c.at, c.attempt>>].state # "absent"

RecordSound(k) ==
    /\ record[k].state # "absent" => AfterRefusal(k)
    /\ record[k].paid > 0 => record[k].state \in {"dispatched", "completed", "unknown", "expired"}

CallsInv ==
    /\ session \in 0 .. MaxDrivers /\ segment \in {"active", "waiting", "continued"}
    /\ record \in [Calls!Identities -> Records]
    /\ driver \in [Calls!Sessions -> Drivers]
    /\ admissions \subseteq Calls!Sessions \X Calls!Identities
    /\ \A d \in Calls!Sessions : /\ DriverSound(driver[d])
                                 /\ d > session => driver[d].phase = "none"
    /\ \A a \in admissions : AfterRefusal(a[2])
    /\ \A k \in Calls!Identities : RecordSound(k)

\* A driver moves.
LEMMA DriverMoves ==
    ASSUME CallsInv, NEW d \in Calls!Sessions, NEW c \in Drivers, DriverSound(c),
           driver[d].again \subseteq c.again,
           driver' = [driver EXCEPT ![d] = c], record' = record, segment' = segment,
           \/ session' = session /\ driver[d].phase # "none"
           \/ session' = d /\ d = session + 1,
           \/ admissions' = admissions
           \/ admissions' = admissions \cup {<<d, <<c.at, c.attempt>>>>} /\ c.phase = "reply"
    PROVE  CallsInv'
<1>1. /\ session \in 0 .. MaxDrivers /\ segment \in {"active", "waiting", "continued"}
      /\ record \in [Calls!Identities -> Records] /\ driver \in [Calls!Sessions -> Drivers]
      /\ admissions \subseteq Calls!Sessions \X Calls!Identities
  BY DEF CallsInv
<1>2. session' \in 0 .. MaxDrivers
  BY <1>1 DEF Calls!Sessions
<1>3. driver' \in [Calls!Sessions -> Drivers]
  BY <1>1
<1>4. ASSUME NEW e \in Calls!Sessions
      PROVE  DriverSound(driver[e])' /\ (e > session' => driver'[e].phase = "none")
  <2>1. driver'[e] = IF e = d THEN c ELSE driver[e]
    BY <1>1
  <2>2. DriverSound(driver'[e])
    BY <2>1 DEF CallsInv
  <2>3. DriverSound(driver[e])'
    BY <2>2 DEF DriverSound, AnswerSound, Asking, MayUse, Refused
  <2>4. e > session' => driver'[e].phase = "none"
    <3>1. SUFFICES ASSUME e > session' PROVE driver'[e].phase = "none"
      OBVIOUS
    <3>2. e # d /\ e > session
      BY <1>1, <3>1 DEF Calls!Sessions, CallsInv
    <3>3. QED
      BY <2>1, <3>2 DEF CallsInv
  <2>5. QED
    BY <2>3, <2>4
<1>5. \A at : Blindly(at) => Blindly(at)'
  <2>1. \A e \in Calls!Sessions : driver[e].again \subseteq driver'[e].again
    BY <1>1
  <2>2. QED
    BY <2>1 DEF Blindly
<1>6. \A k \in Calls!Identities : AfterRefusal(k) => AfterRefusal(k)'
  BY <1>5 DEF AfterRefusal, Refused
<1>7. /\ admissions' \subseteq Calls!Sessions \X Calls!Identities
      /\ \A a \in admissions' : AfterRefusal(a[2])'
  <2>1. \A a \in admissions : a[2] \in Calls!Identities /\ AfterRefusal(a[2])'
    BY <1>1, <1>6 DEF CallsInv
  <2>2. CASE admissions' = admissions
    BY <1>1, <2>1, <2>2
  <2>3. CASE admissions' = admissions \cup {<<d, <<c.at, c.attempt>>>>} /\ c.phase = "reply"
    <3>1. c.at \in 1 .. Len(Program) /\ c.attempt \in 1 .. 2
      BY <2>3 DEF DriverSound, Drivers
    <3>2. c.attempt = 2 => Refused(<<c.at, 1>>) \/ Blindly(c.at)'
      <4>1. driver'[d] = c
        BY <1>1
      <4>2. c.attempt = 2 => Refused(<<c.at, 1>>) \/ c.at \in c.again
        BY <2>3 DEF DriverSound, Asking, MayUse
      <4>3. QED
        BY <4>1, <4>2 DEF Blindly
    <3>3. AfterRefusal(<<c.at, c.attempt>>)'
      BY <3>2 DEF AfterRefusal, Refused
    <3>4. <<c.at, c.attempt>> \in Calls!Identities
      BY <3>1 DEF Calls!Identities
    <3>5. QED
      BY <1>1, <2>1, <2>3, <3>3, <3>4
  <2>4. QED
    BY <2>2, <2>3
<1>8. \A k \in Calls!Identities : RecordSound(k)'
  BY <1>6 DEF CallsInv, RecordSound
<1>9. QED
  BY <1>1, <1>2, <1>3, <1>4, <1>7, <1>8 DEF CallsInv

\* The service moves a call on: what was refused stays refused, what was completed may expire.
LEMMA RecordMoves ==
    ASSUME Calls!AgentCallsAssumption, CallsInv, NEW k \in Calls!Identities, NEW v \in Records,
           record' = [record EXCEPT ![k] = v], driver' = driver, session' = session,
           segment' \in {"active", "waiting", "continued"}, admissions' \subseteq admissions,
           v.state # "absent", ~Refused(k), record[k].state # "absent" \/ AfterRefusal(k),
           record[k].state \in {"completed", "expired"} => v.state \in {"completed", "expired"},
           v.paid > 0 => v.state \in {"dispatched", "completed", "unknown", "expired"}
    PROVE  CallsInv'
<1>1. /\ session \in 0 .. MaxDrivers
      /\ record \in [Calls!Identities -> Records] /\ driver \in [Calls!Sessions -> Drivers]
      /\ admissions \subseteq Calls!Sessions \X Calls!Identities
  BY DEF CallsInv
<1>2. \A j \in Calls!Identities : record'[j] = IF j = k THEN v ELSE record[j]
  BY <1>1
<1>3. /\ \A j \in Calls!Identities : Refused(j) => Refused(j)'
      /\ \A j \in Calls!Identities : record[j].state # "absent" => record'[j].state # "absent"
      /\ \A j \in Calls!Identities : record[j].state \in {"completed", "expired"}
                                        => record'[j].state \in {"completed", "expired"}
  BY <1>2 DEF Refused
<1>4. ASSUME NEW j \in Calls!Identities, AfterRefusal(j) PROVE AfterRefusal(j)'
  <2>1. <<j[1], 1>> \in Calls!Identities
    BY DEF Calls!Identities
  <2>2. QED
    BY <1>3, <1>4, <2>1 DEF AfterRefusal, Blindly
<1>5. ASSUME NEW d \in Calls!Sessions PROVE DriverSound(driver[d])'
  <2>1. PICK c \in Drivers : c = driver[d] /\ DriverSound(c)
    BY <1>1 DEF CallsInv
  <2>2. /\ c.at \in 1 .. Len(Program) + 1 /\ c.attempt \in 1 .. 2 /\ Len(Program) \in Nat
        /\ \A i \in 1 .. Len(c.answers) : i \in 1 .. Len(Program)
    <3>1. Program \in Seq(Calls!Kinds)
      BY DEF Calls!AgentCallsAssumption
    <3>2. Len(Program) \in Nat
      BY <3>1
    <3>3. c.at \in 1 .. Len(Program) + 1 /\ c.attempt \in 1 .. 2 /\ Len(c.answers) = c.at - 1
      BY <2>1 DEF Drivers, DriverSound
    <3>4. QED
      BY <3>2, <3>3
  <2>3. \A i \in 1 .. Len(Program), n \in 1 .. 2 : <<i, n>> \in Calls!Identities
    BY DEF Calls!Identities
  <2>4. \A i \in 1 .. Len(c.answers) : AnswerSound(c, i, c.answers[i])'
    <3>. TAKE i \in 1 .. Len(c.answers)
    <3>1. AnswerSound(c, i, c.answers[i])
      BY <2>1 DEF DriverSound
    <3>2. <<i, 1>> \in Calls!Identities
      <4>1. i \in 1 .. Len(Program) /\ 1 \in 1 .. 2
        BY <2>2
      <4>2. QED
        BY <2>3, <4>1
    <3>3. QED
      BY <1>3, <3>1, <3>2 DEF AnswerSound, MayUse
  <2>5. c.phase \notin {"returned", "dead"} => <<c.at, c.attempt>> \in Calls!Identities
    BY <2>1, <2>2, <2>3 DEF DriverSound
  <2>6. Asking(c) => (c.attempt = 2 => MayUse(c, c.at)')
    <3>1. c.phase \notin {"returned", "dead"} => <<c.at, 1>> \in Calls!Identities
      <4>1. c.phase \notin {"returned", "dead"} => c.at \in 1 .. Len(Program)
        BY <2>1 DEF DriverSound
      <4>2. 1 \in 1 .. 2
        OBVIOUS
      <4>3. QED
        BY <2>3, <4>1, <4>2
    <3>2. Asking(c) => c.phase \notin {"returned", "dead"}
      BY DEF Asking
    <3>3. Asking(c) => (c.attempt = 2 => MayUse(c, c.at))
      BY <2>1 DEF DriverSound
    <3>4. MayUse(c, c.at) /\ <<c.at, 1>> \in Calls!Identities => MayUse(c, c.at)'
      BY <1>3 DEF MayUse
    <3>5. QED
      BY <3>1, <3>2, <3>3, <3>4
  <2>7. c.phase = "raised" /\ c.error = "refused" => Refused(<<c.at, c.attempt>>)'
    BY <1>3, <2>1, <2>5 DEF DriverSound
  <2>8. c.phase = "yielded" => record'[<<c.at, c.attempt>>].state # "absent"
    BY <1>3, <2>1, <2>5 DEF DriverSound
  <2>9. DriverSound(c)'
    BY <2>1, <2>4, <2>6, <2>7, <2>8 DEF DriverSound, Asking
  <2>10. QED
    BY <2>1, <2>9 DEF DriverSound, Asking, AnswerSound, MayUse
<1>6. ASSUME NEW a \in admissions' PROVE AfterRefusal(a[2])'
  BY <1>1, <1>4 DEF CallsInv
<1>7. ASSUME NEW j \in Calls!Identities PROVE RecordSound(j)'
  <2>1. RecordSound(j)
    BY DEF CallsInv
  <2>2. AfterRefusal(j)' \/ record'[j].state = "absent"
    BY <1>2, <1>4, <2>1 DEF RecordSound
  <2>3. record'[j].paid > 0 => record'[j].state \in {"dispatched", "completed", "unknown", "expired"}
    BY <1>2, <2>1 DEF RecordSound
  <2>4. QED
    BY <2>2, <2>3 DEF RecordSound
<1>8. record' \in [Calls!Identities -> Records]
  BY <1>1
<1>9. QED
  BY <1>1, <1>5, <1>6, <1>7, <1>8 DEF CallsInv

\* A record in another state.
InState(r, state) == [r EXCEPT !.state = state]

LEMMA Settled ==
    ASSUME NEW r \in Records, NEW state \in Calls!States
    PROVE  LET v == InState(r, state) IN v \in Records /\ v.state = state /\ v.paid = r.paid
  BY DEF Records, InState

\* What is known of a driver at a call.
LEMMA DriverTypes ==
    ASSUME Calls!AgentCallsAssumption, CallsInv, NEW d \in Calls!Sessions
    PROVE  /\ driver \in [Calls!Sessions -> Drivers] /\ driver[d] \in Drivers /\ DriverSound(driver[d])
           /\ driver[d].phase \in Phases
           /\ driver[d].at \in 1 .. Len(Program) + 1 /\ driver[d].attempt \in 1 .. 2
           /\ driver[d].page \in 0 .. JournalPages /\ driver[d].failed \in BOOLEAN
           /\ driver[d].answers \in Seq(Calls!Identities)
           /\ driver[d].error \in Errors \cup {""} /\ driver[d].again \in SUBSET (1 .. Len(Program))
           /\ Len(Program) \in Nat \ {0} /\ JournalPages \in Nat \ {0}
           /\ driver[d].phase \notin {"returned", "dead"} =>
                 /\ driver[d].at \in 1 .. Len(Program) /\ Calls!Identity(d) \in Calls!Identities
                 /\ Calls!Kind(d) \in Calls!Kinds
<1>1. driver \in [Calls!Sessions -> Drivers] /\ DriverSound(driver[d])
  BY DEF CallsInv
<1>2. driver[d] \in Drivers
  BY <1>1
<1>3. Program \in Seq(Calls!Kinds) /\ Program # <<>> /\ JournalPages \in Nat \ {0}
  BY DEF Calls!AgentCallsAssumption
<1>4. Len(Program) \in Nat \ {0}
  BY <1>3
<1>5. /\ driver[d].phase \in Phases
      /\ driver[d].at \in 1 .. Len(Program) + 1 /\ driver[d].attempt \in 1 .. 2
      /\ driver[d].page \in 0 .. JournalPages
      /\ driver[d].answers \in Seq(Calls!Identities)
      /\ driver[d].error \in Errors \cup {""} /\ driver[d].again \in SUBSET (1 .. Len(Program))
  BY <1>2 DEF Drivers
<1>6. driver[d].failed \in BOOLEAN
  BY <1>2, Zenon DEF Drivers, Flags
<1>7. ASSUME driver[d].phase \notin {"returned", "dead"}
      PROVE  /\ driver[d].at \in 1 .. Len(Program) /\ Calls!Identity(d) \in Calls!Identities
             /\ Calls!Kind(d) \in Calls!Kinds
  <2>1. driver[d].at \in 1 .. Len(Program)
    BY <1>1, <1>7 DEF DriverSound
  <2>2. Calls!Identity(d) \in Calls!Identities
    BY <1>5, <2>1 DEF Calls!Identity, Calls!Identities
  <2>3. Calls!Kind(d) \in Calls!Kinds
    BY <1>3, <2>1 DEF Calls!Kind
  <2>4. QED
    BY <2>1, <2>2, <2>3
<1>8. QED
  BY <1>1, <1>2, <1>3, <1>4, <1>5, <1>6, <1>7

\* A driver with another phase.
LEMMA InPhase ==
    ASSUME NEW w \in Drivers, NEW phase \in Phases
    PROVE  \E c \in Drivers : /\ c = [w EXCEPT !.phase = phase] /\ c.phase = phase
                              /\ c.at = w.at /\ c.attempt = w.attempt /\ c.failed = w.failed
                              /\ c.answers = w.answers /\ c.error = w.error /\ c.again = w.again
<1>. DEFINE v == [w EXCEPT !.phase = phase]
<1>1. /\ v \in Drivers /\ v.phase = phase /\ v.at = w.at /\ v.attempt = w.attempt
      /\ v.failed = w.failed /\ v.answers = w.answers /\ v.error = w.error /\ v.again = w.again
  BY DEF Drivers
<1>2. QED
  BY <1>1, Zenon

\* A driver with an error to raise, and one with another answer, at its next call.
Raising(w, error, failed) == [w EXCEPT !.phase = "raised", !.error = error, !.failed = failed]
Answered(w, answers, at, phase) ==
    [w EXCEPT !.answers = answers, !.at = at, !.attempt = 1, !.page = 0, !.phase = phase]

LEMMA WithError ==
    ASSUME NEW w \in Drivers, NEW error \in Errors,
           NEW failed \in Flags
    PROVE  LET v == Raising(w, error, failed)
           IN  /\ v \in Drivers /\ v.phase = "raised" /\ v.error = error /\ v.failed = failed
               /\ v.at = w.at /\ v.attempt = w.attempt /\ v.answers = w.answers
               /\ v.again = w.again
  BY DEF Drivers, Phases, Errors, Raising

LEMMA WithAnswer ==
    ASSUME NEW w \in Drivers, NEW phase \in Phases, NEW at \in 1 .. Len(Program) + 1,
           NEW answers \in Seq(Calls!Identities), JournalPages \in Nat
    PROVE  LET v == Answered(w, answers, at, phase)
           IN  /\ v \in Drivers /\ v.phase = phase /\ v.at = at /\ v.attempt = 1
               /\ v.answers = answers /\ v.again = w.again
<1>1. 0 \in 0 .. JournalPages /\ 1 \in 1 .. 2
  OBVIOUS
<1>2. QED
  BY <1>1 DEF Drivers, Answered

\* A driver that lost its session, one that tries another attempt, one at another page.
Failing(w) == [w EXCEPT !.failed = TRUE]
Again(w, again) == [w EXCEPT !.phase = "run", !.attempt = 2, !.again = again]
AtPage(w, page) == [w EXCEPT !.page = page, !.phase = "poll"]
SamePlace(v, w) == /\ v.phase = w.phase /\ v.at = w.at /\ v.attempt = w.attempt
                   /\ v.error = w.error /\ v.answers = w.answers /\ v.again = w.again

LEMMA WithFailure ==
    ASSUME NEW w \in Drivers
    PROVE  LET v == Failing(w) IN v \in Drivers /\ v.failed /\ SamePlace(v, w)
  BY DEF Drivers, Flags, Failing, SamePlace

LEMMA AnotherAttempt ==
    ASSUME NEW w \in Drivers, NEW again \in SUBSET (1 .. Len(Program))
    PROVE  LET v == Again(w, again)
           IN  /\ v \in Drivers /\ v.phase = "run" /\ v.attempt = 2 /\ v.again = again
               /\ v.at = w.at /\ v.failed = w.failed /\ v.answers = w.answers
<1>1. 2 \in 1 .. 2 /\ "run" \in Phases
  BY DEF Phases
<1>2. QED
  BY <1>1 DEF Drivers, Again

LEMMA ToNextPage ==
    ASSUME NEW w \in Drivers, NEW page \in 0 .. JournalPages
    PROVE  LET v == AtPage(w, page)
           IN  /\ v \in Drivers /\ v.phase = "poll"
               /\ v.at = w.at /\ v.attempt = w.attempt /\ v.answers = w.answers
               /\ v.again = w.again
  BY DEF Drivers, Phases, AtPage

\* A driver goes to a place where it has nothing new to account for.
LEMMA DriverGoes ==
    ASSUME Calls!AgentCallsAssumption, CallsInv, NEW d \in Calls!Sessions, NEW phase \in Phases,
           record' = record, segment' = segment, Calls!Goto(d, phase),
           \/ session' = session /\ driver[d].phase # "none"
           \/ session' = d /\ d = session + 1 /\ phase = "run",
           \/ admissions' = admissions
           \/ admissions' = admissions \cup {<<d, Calls!Identity(d)>>} /\ phase = "reply",
           driver[d].phase \notin {"returned", "dead", "yielded"},
           \/ phase = "dead"
           \/ phase = "run" /\ driver[d].phase = "none"
           \/ phase \in {"capture", "send", "reply", "poll"} /\ Asking(driver[d])
           \/ phase = "yielded" /\ record[Calls!Identity(d)].state # "absent"
    PROVE  CallsInv'
<1>1. /\ driver[d] \in Drivers /\ DriverSound(driver[d]) /\ driver \in [Calls!Sessions -> Drivers]
  BY DriverTypes
<1>2. PICK c \in Drivers : /\ c = [driver[d] EXCEPT !.phase = phase] /\ c.phase = phase
                           /\ c.at = driver[d].at /\ c.attempt = driver[d].attempt
                           /\ c.failed = driver[d].failed /\ c.answers = driver[d].answers
                           /\ c.error = driver[d].error /\ c.again = driver[d].again
  BY <1>1, InPhase
<1>3. driver' = [driver EXCEPT ![d] = c]
  BY <1>1, <1>2 DEF Calls!Goto
<1>4. DriverSound(c)
  <2>1. phase = "run" => c.attempt = 1
    BY <1>1, <1>2 DEF DriverSound, Asking
  <2>2. Asking(c) => (c.attempt = 2 => MayUse(c, c.at))
    <3>1. phase \in {"capture", "send", "reply", "poll"} => Asking(driver[d])
      OBVIOUS
    <3>2. Asking(driver[d]) /\ driver[d].attempt = 2 => MayUse(driver[d], driver[d].at)
      BY <1>1 DEF DriverSound
    <3>3. Asking(c) => phase = "run" \/ Asking(driver[d])
      BY <1>2, <3>1 DEF Asking
    <3>4. QED
      BY <1>2, <2>1, <3>2, <3>3 DEF MayUse
  <2>3. c.phase = "yielded" => record[<<c.at, c.attempt>>].state # "absent"
    BY <1>2 DEF Calls!Identity
  <2>4. QED
    BY <1>1, <1>2, <2>2, <2>3 DEF DriverSound, AnswerSound, MayUse
<1>5. QED
  BY <1>2, <1>3, <1>4, DriverMoves DEF Calls!Identity

\* A driver's call raises an error.
LEMMA DriverRaises ==
    ASSUME Calls!AgentCallsAssumption, CallsInv, NEW d \in Calls!Sessions,
           NEW error \in Errors,
           record' = record, segment' = segment, session' = session, admissions' = admissions,
           driver[d].phase \notin {"none", "returned", "dead", "yielded"},
           error = "refused" => Refused(Calls!Identity(d)),
           \/ Calls!Raise(d, error)
           \/ driver' = [driver EXCEPT ![d].phase = "raised", ![d].error = error, ![d].failed = TRUE]
    PROVE  CallsInv'
<1>1. /\ driver[d] \in Drivers /\ DriverSound(driver[d]) /\ driver \in [Calls!Sessions -> Drivers]
      /\ driver[d].failed \in BOOLEAN
  BY DriverTypes
<1>2. PICK failed \in Flags :
          /\ driver' = [driver EXCEPT ![d].phase = "raised", ![d].error = error, ![d].failed = failed]
          /\ error = "unknown" /\ Program[driver[d].at] = "broker" => failed
  <2>1. PICK failed \in Flags :
            failed = (driver[d].failed \/ Calls!FailsSession(Calls!Kind(d), error))
    BY Zenon DEF Flags
  <2>2. error = "unknown" /\ Program[driver[d].at] = "broker" => failed
    BY <2>1 DEF Calls!FailsSession, Calls!Kind
  <2>3. CASE Calls!Raise(d, error)
    <3>1. driver' = [driver EXCEPT ![d].phase = "raised", ![d].error = error, ![d].failed = failed]
      BY <2>1, <2>3, Zenon DEF Calls!Raise
    <3>2. QED
      BY <2>2, <3>1
  <2>4. TRUE \in Flags
    BY DEF Flags
  <2>5. QED
    BY <2>3, <2>4, Zenon
<1>3. PICK c \in Drivers :
          /\ c = Raising(driver[d], error, failed)
          /\ c.phase = "raised" /\ c.error = error /\ c.failed = failed
          /\ c.at = driver[d].at /\ c.attempt = driver[d].attempt /\ c.answers = driver[d].answers
          /\ c.again = driver[d].again
  <2>1. driver[d] \in Drivers
    BY <1>1
  <2>2. LET v == Raising(driver[d], error, failed)
        IN  /\ v \in Drivers /\ v.phase = "raised" /\ v.error = error /\ v.failed = failed
            /\ v.at = driver[d].at /\ v.attempt = driver[d].attempt
            /\ v.answers = driver[d].answers /\ v.again = driver[d].again
    BY <2>1, WithError
  <2>3. QED
    BY <2>2, Zenon
<1>4. driver' = [driver EXCEPT ![d] = c]
  BY <1>1, <1>2, <1>3 DEF Raising
<1>5. DriverSound(c)
  <2>1. \A i \in 1 .. Len(c.answers) : AnswerSound(c, i, c.answers[i])
    BY <1>1, <1>3 DEF DriverSound, AnswerSound, MayUse
  <2>2. c.error # "" /\ ~Asking(c)
    BY <1>3 DEF Asking, Errors
  <2>3. c.error = "refused" => Refused(<<c.at, c.attempt>>)
    BY <1>3 DEF Calls!Identity
  <2>4. /\ c.phase \notin {"returned", "dead"} => c.at \in 1 .. Len(Program)
        /\ Len(c.answers) = c.at - 1
    BY <1>1, <1>3 DEF DriverSound
  <2>5. c.error = "unknown" /\ Program[c.at] = "broker" => c.failed
    BY <1>2, <1>3
  <2>6. QED
    BY <1>3, <2>1, <2>2, <2>3, <2>4, <2>5 DEF DriverSound
<1>6. QED
  BY <1>3, <1>4, <1>5, DriverMoves

\* A call returns to the entrypoint.
LEMMA DriverAnswered ==
    ASSUME Calls!AgentCallsAssumption, CallsInv, NEW d \in Calls!Sessions, Calls!Answer(d),
           record' = record, segment' = segment, session' = session, admissions' = admissions,
           driver[d].phase \in {"reply", "poll"}, record[Calls!Identity(d)].state = "completed"
    PROVE  CallsInv'
<1>1. /\ driver[d] \in Drivers /\ DriverSound(driver[d]) /\ driver \in [Calls!Sessions -> Drivers]
      /\ driver[d].at \in 1 .. Len(Program) /\ driver[d].attempt \in 1 .. 2
      /\ driver[d].answers \in Seq(Calls!Identities) /\ Calls!Identity(d) \in Calls!Identities
      /\ Len(Program) \in Nat \ {0} /\ JournalPages \in Nat \ {0}
  BY DriverTypes
<1>2. PICK at \in 2 .. Len(Program) + 1 : at = driver[d].at + 1
  BY <1>1
<1>3. PICK phase \in {"run", "returned"} :
          phase = IF driver[d].at = Len(Program) THEN "returned" ELSE "run"
  <2>1. CASE driver[d].at = Len(Program)
    BY <2>1
  <2>2. CASE driver[d].at # Len(Program)
    BY <2>2
  <2>3. QED
    BY <2>1, <2>2
<1>4. PICK answers \in Seq(Calls!Identities) : answers = Append(driver[d].answers, Calls!Identity(d))
  <2>1. driver[d].answers \in Seq(Calls!Identities) /\ Calls!Identity(d) \in Calls!Identities
    BY <1>1
  <2>2. Append(driver[d].answers, Calls!Identity(d)) \in Seq(Calls!Identities)
    BY <2>1
  <2>3. QED
    BY <2>2, Zenon
<1>5. /\ Len(answers) = Len(driver[d].answers) + 1 /\ Len(driver[d].answers) \in Nat
      /\ \A i \in 1 .. Len(driver[d].answers) : answers[i] = driver[d].answers[i]
      /\ answers[Len(driver[d].answers) + 1] = Calls!Identity(d)
  BY <1>1, <1>4
<1>6. at \in 1 .. Len(Program) + 1 /\ JournalPages \in Nat /\ phase \in Phases
  BY <1>1, <1>2 DEF Phases
<1>7. PICK c \in Drivers :
          /\ c = Answered(driver[d], answers, at, phase)
          /\ c.phase = phase /\ c.at = at /\ c.attempt = 1 /\ c.answers = answers
          /\ c.again = driver[d].again
  <2>1. driver[d] \in Drivers
    BY <1>1
  <2>2. LET v == Answered(driver[d], answers, at, phase)
        IN  /\ v \in Drivers /\ v.phase = phase /\ v.at = at /\ v.attempt = 1
            /\ v.answers = answers /\ v.again = driver[d].again
    BY <1>6, <2>1, WithAnswer
  <2>3. QED
    BY <2>2, Zenon
<1>8. driver' = [driver EXCEPT ![d] = c]
  <2>1. driver' = [driver EXCEPT ![d] = Answered(driver[d], answers, at, phase)]
    BY <1>2, <1>3, <1>4 DEF Calls!Answer, Answered
  <2>2. QED
    BY <1>7, <2>1
<1>9. /\ Len(driver[d].answers) = driver[d].at - 1
      /\ driver[d].attempt = 2 => MayUse(driver[d], driver[d].at)
  BY <1>1 DEF DriverSound, Asking
<1>10. AnswerSound(c, driver[d].at, Calls!Identity(d))
  BY <1>1, <1>7, <1>9 DEF AnswerSound, MayUse, Calls!Identity
<1>11. ASSUME NEW i \in 1 .. Len(answers) PROVE AnswerSound(c, i, answers[i])
  <2>1. CASE i \in 1 .. Len(driver[d].answers)
    BY <1>1, <1>5, <1>7, <2>1 DEF DriverSound, AnswerSound, MayUse
  <2>2. CASE i = driver[d].at
    BY <1>5, <1>9, <1>10, <2>2
  <2>3. QED
    BY <1>1, <1>5, <1>9, <2>1, <2>2
<1>12. DriverSound(c)
  <2>1. c.phase \notin {"returned", "dead"} => c.at \in 1 .. Len(Program)
    BY <1>1, <1>2, <1>3, <1>7
  <2>2. Len(c.answers) = c.at - 1
    BY <1>1, <1>2, <1>5, <1>7, <1>9
  <2>3. c.phase # "none" /\ c.phase # "raised" /\ c.phase # "yielded" /\ c.attempt # 2
    BY <1>3, <1>7
  <2>4. \A i \in 1 .. Len(c.answers) : AnswerSound(c, i, c.answers[i])
    BY <1>7, <1>11
  <2>5. QED
    BY <2>1, <2>2, <2>3, <2>4 DEF DriverSound
<1>13. QED
  BY <1>7, <1>8, <1>12, DriverMoves

\* The steps of a driver.
LEMMA CallsStart ==
    ASSUME Calls!AgentCallsAssumption, CallsInv, NEW d \in Calls!Sessions, Calls!Start(d)
    PROVE  CallsInv'
<1>1. /\ d = session + 1 /\ session' = d /\ Calls!Goto(d, "run")
      /\ segment' = segment /\ record' = record /\ admissions' = admissions
  BY DEF Calls!Start
<1>2. driver[d].phase = "none"
  BY <1>1 DEF CallsInv, Calls!Sessions
<1>3. "run" \in Phases
  BY DEF Phases
<1>4. QED
  BY <1>1, <1>2, <1>3, DriverGoes

LEMMA CallsAuthorityLost ==
    ASSUME Calls!AgentCallsAssumption, CallsInv, NEW d \in Calls!Sessions, Calls!AuthorityLost(d)
    PROVE  CallsInv'
<1>1. /\ driver' = [driver EXCEPT ![d].failed = TRUE]
      /\ driver[d].phase \in {"run", "capture", "send", "reply", "poll", "raised"}
      /\ session' = session /\ segment' = segment /\ record' = record /\ admissions' = admissions
  BY DEF Calls!AuthorityLost, Calls!Alive
<1>2. driver \in [Calls!Sessions -> Drivers] /\ driver[d] \in Drivers /\ DriverSound(driver[d])
  BY DriverTypes
<1>3. PICK c \in Drivers : c = Failing(driver[d]) /\ c.failed /\ SamePlace(c, driver[d])
  <2>1. LET v == Failing(driver[d]) IN v \in Drivers /\ v.failed /\ SamePlace(v, driver[d])
    BY <1>2, WithFailure
  <2>2. QED
    BY <2>1, Zenon
<1>4. driver' = [driver EXCEPT ![d] = c]
  BY <1>1, <1>2, <1>3 DEF Failing
<1>5. DriverSound(c)
  BY <1>1, <1>2, <1>3 DEF DriverSound, Asking, AnswerSound, MayUse, SamePlace
<1>6. QED
  BY <1>1, <1>3, <1>4, <1>5, DriverMoves DEF SamePlace

LEMMA CallsCrash ==
    ASSUME Calls!AgentCallsAssumption, CallsInv, NEW d \in Calls!Sessions, Calls!Crash(d)
    PROVE  CallsInv'
<1>1. "dead" \in Phases
  BY DEF Phases
<1>2. QED
  BY <1>1, DriverGoes DEF Calls!Crash, Calls!Alive

LEMMA CallsCatch ==
    ASSUME Calls!AgentCallsAssumption, CallsInv, NEW d \in Calls!Sessions, Calls!Catch(d)
    PROVE  CallsInv'
<1>1. /\ session' = session /\ segment' = segment /\ record' = record /\ admissions' = admissions
      /\ driver[d].phase = "raised"
  BY DEF Calls!Catch
<1>2. CASE Calls!Goto(d, "dead")
  <2>1. "dead" \in Phases
    BY DEF Phases
  <2>2. QED
    BY <1>1, <1>2, <2>1, DriverGoes
<1>3. CASE /\ Calls!Kind(d) = "broker" /\ driver[d].attempt = 1
           /\ driver' = [driver EXCEPT ![d].phase = "run", ![d].attempt = 2,
                                       ![d].again = @ \cup Calls!Blind(d)]
  <2>1. /\ driver \in [Calls!Sessions -> Drivers] /\ driver[d] \in Drivers
        /\ DriverSound(driver[d]) /\ driver[d].at \in 1 .. Len(Program)
        /\ driver[d].error \in Errors \cup {""} /\ driver[d].again \in SUBSET (1 .. Len(Program))
    BY <1>1, DriverTypes
  <2>2. PICK again \in SUBSET (1 .. Len(Program)) : again = driver[d].again \cup Calls!Blind(d)
    BY <2>1 DEF Calls!Blind
  <2>3. PICK c \in Drivers : /\ c = Again(driver[d], again) /\ c.phase = "run" /\ c.attempt = 2
                             /\ c.at = driver[d].at /\ c.failed = driver[d].failed
                             /\ c.answers = driver[d].answers /\ c.again = again
    <3>1. LET v == Again(driver[d], again)
          IN  /\ v \in Drivers /\ v.phase = "run" /\ v.attempt = 2 /\ v.again = again
              /\ v.at = driver[d].at /\ v.failed = driver[d].failed
              /\ v.answers = driver[d].answers
      BY <2>1, <2>2, AnotherAttempt
    <3>2. QED
      BY <3>1, Zenon
  <2>4. driver' = [driver EXCEPT ![d] = c]
    BY <1>3, <2>1, <2>2, <2>3 DEF Again
  <2>5. driver[d].error = "refused" => Refused(<<driver[d].at, 1>>)
    BY <1>1, <1>3, <2>1 DEF DriverSound
  <2>6. driver[d].error = "unknown" => driver[d].failed
    BY <1>1, <1>3, <2>1 DEF DriverSound, Calls!Kind
  <2>7. driver[d].error \in {"expired", "unavailable"} /\ ~driver[d].failed => c.at \in c.again
    BY <2>2, <2>3 DEF Calls!Blind
  <2>8. Asking(c) => (c.attempt = 2 => MayUse(c, c.at))
    <3>1. driver[d].error \in Errors
      BY <1>1, <2>1 DEF DriverSound
    <3>2. QED
      BY <2>3, <2>5, <2>6, <2>7, <3>1 DEF Asking, MayUse, Errors
  <2>9. DriverSound(c)
    BY <2>1, <2>2, <2>3, <2>8, <1>1 DEF DriverSound, AnswerSound, MayUse
  <2>10. QED
    BY <1>1, <2>2, <2>3, <2>4, <2>9, DriverMoves
<1>4. QED
  BY <1>2, <1>3 DEF Calls!Catch

LEMMA CallsBegin ==
    ASSUME Calls!AgentCallsAssumption, CallsInv, NEW d \in Calls!Sessions, Calls!BeginCall(d)
    PROVE  CallsInv'
<1>1. /\ session' = session /\ segment' = segment /\ record' = record /\ admissions' = admissions
      /\ driver[d].phase = "run"
  BY DEF Calls!BeginCall
<1>2. CASE ~driver[d].failed /\ Calls!Goto(d, IF Calls!Kind(d) = "model" THEN "send" ELSE "capture")
  <2>1. PICK phase \in Phases : phase \in {"send", "capture"} /\ Calls!Goto(d, phase)
    BY <1>2 DEF Phases
  <2>2. QED
    BY <1>1, <1>2, <2>1, DriverGoes DEF Asking
<1>3. CASE \E error \in {"unavailable", "unknown"} : Calls!Raise(d, error)
  BY <1>1, <1>3, DriverRaises DEF Errors
<1>4. QED
  BY <1>2, <1>3 DEF Calls!BeginCall, Calls!Refuses, Calls!StatusUnread,
     Calls!Unavailable

LEMMA CallsCapture ==
    ASSUME Calls!AgentCallsAssumption, CallsInv, NEW d \in Calls!Sessions, Calls!Capture(d)
    PROVE  CallsInv'
<1>1. /\ session' = session /\ segment' = segment /\ record' = record /\ admissions' = admissions
      /\ driver[d].phase = "capture"
  BY DEF Calls!Capture
<1>2. "send" \in Phases /\ "unknown" \in Errors
  BY DEF Phases, Errors
<1>3. CASE Calls!Goto(d, "send")
  BY <1>1, <1>2, <1>3, DriverGoes DEF Asking
<1>4. CASE driver' = [driver EXCEPT ![d].phase = "raised", ![d].error = "unknown",
                                    ![d].failed = TRUE]
  BY <1>1, <1>2, <1>4, DriverRaises
<1>5. QED
  BY <1>3, <1>4 DEF Calls!Capture

LEMMA CallsSend ==
    ASSUME Calls!AgentCallsAssumption, CallsInv, NEW d \in Calls!Sessions, Calls!Send(d)
    PROVE  CallsInv'
<1>1. "reply" \in Phases
  BY DEF Phases
<1>2. QED
  BY <1>1, DriverGoes DEF Calls!Send, Asking

\* What a driver makes of a receipt.
LEMMA CallsReceipt ==
    ASSUME Calls!AgentCallsAssumption, CallsInv, NEW d \in Calls!Sessions,
           driver[d].phase \in {"reply", "poll"},
           session' = session, segment' = segment, record' = record, admissions' = admissions,
           Calls!ReadReceipt(d, record[Calls!Identity(d)].state)
    PROVE  CallsInv'
<1>1. PICK state : state = record[Calls!Identity(d)].state /\ Calls!ReadReceipt(d, state)
  OBVIOUS
<1>2. CASE state = "completed" /\ Calls!Completed(d)
  <2>1. CASE Calls!MorePages(d) /\ driver' = [driver EXCEPT ![d].page = @ + 1, ![d].phase = "poll"]
    <3>1. /\ driver \in [Calls!Sessions -> Drivers] /\ driver[d] \in Drivers
          /\ DriverSound(driver[d]) /\ driver[d].page \in 0 .. JournalPages
          /\ JournalPages \in Nat \ {0}
      BY DriverTypes
    <3>2. PICK page \in 0 .. JournalPages : page = driver[d].page + 1
      BY <2>1, <3>1 DEF Calls!MorePages
    <3>3. PICK c \in Drivers : /\ c = AtPage(driver[d], page) /\ c.phase = "poll"
                               /\ c.at = driver[d].at /\ c.attempt = driver[d].attempt
                               /\ c.answers = driver[d].answers /\ c.again = driver[d].again
      <4>1. LET v == AtPage(driver[d], page)
            IN  /\ v \in Drivers /\ v.phase = "poll"
                /\ v.at = driver[d].at /\ v.attempt = driver[d].attempt
                /\ v.answers = driver[d].answers /\ v.again = driver[d].again
        BY <3>1, ToNextPage
      <4>2. QED
        BY <4>1, Zenon
    <3>4. driver' = [driver EXCEPT ![d] = c]
      BY <2>1, <3>1, <3>2, <3>3 DEF AtPage
    <3>5. DriverSound(c)
      BY <3>1, <3>3 DEF DriverSound, Asking, AnswerSound, MayUse
    <3>6. QED
      BY <3>3, <3>4, <3>5, DriverMoves
  <2>2. CASE Calls!Goto(d, "yielded")
    <3>1. "yielded" \in Phases
      BY DEF Phases
    <3>2. QED
      BY <1>1, <1>2, <2>2, <3>1, DriverGoes
  <2>3. CASE Calls!Answer(d)
    BY <1>1, <1>2, <2>3, DriverAnswered
  <2>4. QED
    BY <1>2, <2>1, <2>2, <2>3 DEF Calls!Completed
<1>3. CASE state \in {"rejected", "cancelled"} /\ Calls!Raise(d, "refused")
  <2>1. "refused" \in Errors /\ Refused(Calls!Identity(d))
    BY <1>1, <1>3 DEF Errors, Refused
  <2>2. QED
    BY <1>3, <2>1, DriverRaises
<1>4. CASE \E error \in {"expired", "unknown"} : Calls!Raise(d, error)
  BY <1>4, DriverRaises DEF Errors
<1>5. CASE /\ state \in {"waiting", "dispatched"}
           /\ Calls!Goto(d, IF Calls!Kind(d) = "wait" THEN "yielded" ELSE "poll")
  <2>1. PICK phase \in Phases : phase \in {"yielded", "poll"} /\ Calls!Goto(d, phase)
    BY <1>5 DEF Phases
  <2>2. record[Calls!Identity(d)].state # "absent" /\ Asking(driver[d])
    BY <1>1, <1>5 DEF Asking
  <2>3. QED
    BY <2>1, <2>2, DriverGoes
<1>6. QED
  BY <1>1, <1>2, <1>3, <1>4, <1>5 DEF Calls!ReadReceipt

LEMMA CallsReply ==
    ASSUME Calls!AgentCallsAssumption, CallsInv, NEW d \in Calls!Sessions,
           Calls!Reply(d) \/ Calls!LoseAnswer(d) \/ Calls!Poll(d)
    PROVE  CallsInv'
<1>1. /\ session' = session /\ segment' = segment /\ record' = record /\ admissions' = admissions
      /\ driver[d].phase \in {"reply", "poll"}
  BY DEF Calls!Reply, Calls!LoseAnswer, Calls!Poll
<1>2. CASE \E error \in {"unavailable", "unknown"} : Calls!Raise(d, error)
  BY <1>1, <1>2, DriverRaises DEF Errors
<1>3. CASE Calls!ReadReceipt(d, record[Calls!Identity(d)].state)
  BY <1>1, <1>3, CallsReceipt
<1>4. QED
  BY <1>2, <1>3 DEF Calls!Reply, Calls!LoseAnswer, Calls!NoAnswer, Calls!Unavailable,
     Calls!Poll

\* Nothing but an admission's arrival happens.
LEMMA CallsSame ==
    ASSUME CallsInv, UNCHANGED <<session, segment, record, driver>>, admissions' \subseteq admissions
    PROVE  CallsInv'
<1>1. \A d \in Calls!Sessions : DriverSound(driver[d])'
  BY DEF CallsInv, DriverSound, AnswerSound, Asking, MayUse, Refused
<1>2. \A a \in admissions' : AfterRefusal(a[2])'
  BY DEF CallsInv, AfterRefusal, Refused, Blindly
<1>3. \A k \in Calls!Identities : RecordSound(k)'
  BY DEF CallsInv, RecordSound, AfterRefusal, Refused, Blindly
<1>4. QED
  BY <1>1, <1>2, <1>3 DEF CallsInv

\* The steps of the service.
LEMMA CallsAdmit ==
    ASSUME Calls!AgentCallsAssumption, CallsInv, NEW admission \in admissions,
           Calls!Admit(admission[1], admission[2])
    PROVE  CallsInv'
<1>1. PICK d \in Calls!Sessions, k \in Calls!Identities : admission = <<d, k>>
  BY DEF CallsInv
<1>2. /\ session' = session /\ driver' = driver /\ admissions' \subseteq admissions
      /\ AfterRefusal(k) /\ RecordSound(k) /\ record \in [Calls!Identities -> Records]
      /\ segment \in {"active", "waiting", "continued"}
  BY <1>1 DEF Calls!Admit, CallsInv
<1>3. CASE UNCHANGED <<record, segment>>
  BY <1>2, <1>3, CallsSame
<1>4. ASSUME record[k].state = "absent", NEW state \in {"waiting", "completed"},
             record' = [record EXCEPT ![k].state = state], segment' \in {"active", "waiting", "continued"}
      PROVE  CallsInv'
  <2>1. record[k] \in Records /\ record[k].paid = 0
    BY <1>2, <1>4 DEF RecordSound, Records
  <2>2. PICK v \in Records : v = InState(record[k], state) /\ v.state = state /\ v.paid = 0
    <3>1. LET v == InState(record[k], state) IN v \in Records /\ v.state = state /\ v.paid = 0
      BY <2>1, Settled DEF Calls!States
    <3>2. QED
      BY <3>1, Zenon
  <2>3. record' = [record EXCEPT ![k] = v]
    BY <1>2, <1>4, <2>2 DEF InState
  <2>4. v.state # "absent" /\ ~(v.paid > 0)
    BY <1>4, <2>2
  <2>5. ~Refused(k) /\ record[k].state \notin {"completed", "expired"}
    BY <1>4 DEF Refused
  <2>6. QED
    BY <1>2, <1>4, <2>3, <2>4, <2>5, RecordMoves
<1>5. QED
  BY <1>1, <1>2, <1>3, <1>4 DEF Calls!Admit

\* A record that was known takes another state.
LEMMA RecordSettles ==
    ASSUME Calls!AgentCallsAssumption, CallsInv, NEW k \in Calls!Identities,
           NEW state \in {"rejected", "cancelled", "completed", "unknown", "expired"},
           Calls!Set(k, state), driver' = driver, session' = session, admissions' = admissions,
           segment' \in {"active", "waiting", "continued"},
           \/ record[k].state = "waiting"
           \/ record[k].state = "dispatched" /\ state \in {"completed", "unknown"}
           \/ record[k].state = "completed" /\ state = "expired"
    PROVE  CallsInv'
<1>1. record \in [Calls!Identities -> Records] /\ record[k] \in Records /\ RecordSound(k)
  BY DEF CallsInv
<1>2. PICK v \in Records : /\ v = InState(record[k], state) /\ v.state = state
                           /\ v.paid = record[k].paid
  <2>1. LET v == InState(record[k], state)
        IN  v \in Records /\ v.state = state /\ v.paid = record[k].paid
    BY <1>1, Settled DEF Calls!States
  <2>2. QED
    BY <2>1, Zenon
<1>3. record' = [record EXCEPT ![k] = v]
  BY <1>1, <1>2 DEF Calls!Set, InState
<1>4. v.paid > 0 => v.state \in {"dispatched", "completed", "unknown", "expired"}
  BY <1>1, <1>2 DEF RecordSound
<1>5. QED
  BY <1>2, <1>3, <1>4, RecordMoves DEF Refused

LEMMA CallsWork ==
    ASSUME Calls!AgentCallsAssumption, CallsInv, NEW k \in Calls!Identities,
           Calls!Dispatch(k) \/ Calls!Settle(k) \/ Calls!Expire(k) \/ Calls!Wake(k)
    PROVE  CallsInv'
<1>1. /\ session' = session /\ driver' = driver /\ admissions' = admissions
      /\ segment' \in {"active", "waiting", "continued"}
  BY DEF Calls!Dispatch, Calls!Settle, Calls!Expire, Calls!Wake, Calls!Work, CallsInv
<1>2. CASE Calls!Dispatch(k)
  <2>1. /\ record \in [Calls!Identities -> Records] /\ record[k] \in Records
        /\ RecordSound(k) /\ record[k].state = "waiting"
    BY <1>2 DEF CallsInv, Calls!Dispatch
  <2>2. record[k].paid = 0
    BY <2>1 DEF RecordSound, Records
  <2>3. PICK v \in Records : v = [state |-> "dispatched", paid |-> 1]
    <3>1. [state |-> "dispatched", paid |-> 1] \in Records
      BY DEF Records, Calls!States
    <3>2. QED
      BY <3>1, Zenon
  <2>4. record' = [record EXCEPT ![k] = v]
    BY <1>2, <2>2, <2>3 DEF Calls!Dispatch
  <2>5. v.state = "dispatched"
    BY <2>3
  <2>6. QED
    BY <1>1, <2>1, <2>4, <2>5, RecordMoves DEF Refused
<1>3. CASE \E state \in {"rejected", "cancelled"} :
               record[k].state = "waiting" /\ Calls!Set(k, state)
  BY <1>1, <1>3, RecordSettles
<1>4. CASE \E state \in {"completed", "unknown"} :
               record[k].state = "dispatched" /\ Calls!Set(k, state)
  BY <1>1, <1>4, RecordSettles
<1>5. CASE record[k].state = "completed" /\ Calls!Set(k, "expired")
  BY <1>1, <1>5, RecordSettles
<1>6. CASE record[k].state = "waiting" /\ Calls!Set(k, "completed")
  BY <1>1, <1>6, RecordSettles
<1>7. QED
  BY <1>2, <1>3, <1>4, <1>5, <1>6 DEF Calls!Settle, Calls!Expire, Calls!Wake

NoDriver == [phase |-> "none", at |-> 1, attempt |-> 1, page |-> 0, failed |-> FALSE,
             error |-> "", answers |-> <<>>, again |-> {}]

\* Initially no driver has started and no call is known.
LEMMA CallsInit ==
    ASSUME Calls!AgentCallsAssumption, Calls!Init
    PROVE  CallsInv
<1>1. /\ session = 0 /\ segment = "active" /\ admissions = {}
      /\ record = [k \in Calls!Identities |-> [state |-> "absent", paid |-> 0]]
      /\ driver = [d \in Calls!Sessions |-> NoDriver]
  BY DEF Calls!Init, NoDriver
<1>2. Len(Program) \in Nat \ {0} /\ JournalPages \in Nat \ {0} /\ MaxDrivers \in Nat \ {0}
  <2>1. Program \in Seq(Calls!Kinds) /\ Program # <<>>
    BY DEF Calls!AgentCallsAssumption
  <2>2. Len(Program) \in Nat \ {0}
    BY <2>1
  <2>3. QED
    BY <2>2 DEF Calls!AgentCallsAssumption
<1>3. PICK none \in Drivers :
          /\ none = NoDriver
          /\ none.phase = "none" /\ none.at = 1 /\ none.attempt = 1 /\ none.answers = <<>>
  <2>1. /\ 1 \in 1 .. Len(Program) + 1 /\ 1 \in 1 .. 2 /\ 0 \in 0 .. JournalPages
        /\ <<>> \in Seq(Calls!Identities) /\ {} \in SUBSET (1 .. Len(Program))
    BY <1>2
  <2>2. NoDriver \in Drivers
    BY <2>1 DEF Drivers, Phases, Flags, NoDriver
  <2>3. /\ NoDriver.phase = "none" /\ NoDriver.at = 1 /\ NoDriver.attempt = 1
        /\ NoDriver.answers = <<>>
    BY DEF NoDriver
  <2>4. QED
    BY <2>2, <2>3, Zenon
<1>4. PICK absent \in Records :
          absent = [state |-> "absent", paid |-> 0] /\ absent.state = "absent" /\ absent.paid = 0
  <2>1. [state |-> "absent", paid |-> 0] \in Records
    BY DEF Records, Calls!States
  <2>2. QED
    BY <2>1
<1>5. driver = [d \in Calls!Sessions |-> none] /\ record = [k \in Calls!Identities |-> absent]
  BY <1>1, <1>3, <1>4
<1>6. DriverSound(none)
  <2>1. Len(none.answers) = 0 /\ 1 .. 0 = {} /\ none.at \in 1 .. Len(Program)
    BY <1>2, <1>3
  <2>2. QED
    BY <1>3, <2>1 DEF DriverSound, Asking
<1>7. \A k \in Calls!Identities : RecordSound(k)
  BY <1>4, <1>5 DEF RecordSound
<1>8. QED
  BY <1>1, <1>2, <1>3, <1>5, <1>6, <1>7 DEF CallsInv

\* Every step of the drivers, the journal and the service keeps the invariant.
LEMMA CallsPreserved ==
    ASSUME Calls!AgentCallsAssumption, CallsInv, [Calls!Next]_(Calls!vars)
    PROVE  CallsInv'
<1>1. CASE Calls!Next
  BY <1>1, CallsStart, CallsAuthorityLost, CallsCrash, CallsCatch, CallsBegin, CallsCapture,
     CallsSend, CallsReply, CallsAdmit, CallsWork DEF Calls!Next
<1>2. CASE UNCHANGED Calls!vars
  BY <1>2, CallsSame DEF Calls!vars
<1>3. QED
  BY <1>1, <1>2

\* A completion is paid under both of its keys only where a session asked blindly.
LEMMA CallsPaidOnce ==
    ASSUME Calls!AgentCallsAssumption, CallsInv
    PROVE  Calls!PaidOnce
<1>. SUFFICES ASSUME NEW at \in 1 .. Len(Program),
                     record[<<at, 1>>].paid > 0, record[<<at, 2>>].paid > 0
              PROVE  \E d \in Calls!Sessions : at \in driver[d].again
  BY DEF Calls!PaidOnce
<1>1. <<at, 1>> \in Calls!Identities /\ <<at, 2>> \in Calls!Identities
  BY DEF Calls!Identities
<1>2. RecordSound(<<at, 1>>) /\ RecordSound(<<at, 2>>)
  BY <1>1 DEF CallsInv
<1>3. ~Refused(<<at, 1>>) /\ AfterRefusal(<<at, 2>>)
  BY <1>2 DEF RecordSound, Refused
<1>4. QED
  BY <1>3 DEF AfterRefusal, Blindly

\* Two sessions have the same answers, up to those one of them asked blindly for.
LEMMA CallsAgree ==
    ASSUME Calls!AgentCallsAssumption, CallsInv
    PROVE  Calls!RepliesAgree
<1>. SUFFICES ASSUME NEW d \in Calls!Sessions, NEW e \in Calls!Sessions,
                     NEW i \in DOMAIN driver[d].answers \cap DOMAIN driver[e].answers,
                     driver[d].answers[i] # driver[e].answers[i]
              PROVE  i \in driver[d].again \cup driver[e].again
  BY DEF Calls!RepliesAgree
<1>1. /\ DriverSound(driver[d]) /\ DriverSound(driver[e])
      /\ driver[d].answers \in Seq(Calls!Identities) /\ driver[e].answers \in Seq(Calls!Identities)
  BY DriverTypes
<1>2. i \in 1 .. Len(driver[d].answers) /\ i \in 1 .. Len(driver[e].answers)
  BY <1>1
<1>3. /\ AnswerSound(driver[d], i, driver[d].answers[i])
      /\ AnswerSound(driver[e], i, driver[e].answers[i])
  BY <1>1, <1>2 DEF DriverSound
<1>4. QED
  BY <1>3 DEF AnswerSound, MayUse, Refused

\* A driver that yielded left its call known.
LEMMA CallsLeave ==
    ASSUME CallsInv
    PROVE  Calls!LeavesRecorded
  BY DEF CallsInv, DriverSound, Calls!LeavesRecorded, Calls!Identity

\* A completion is paid under two keys, and two sessions are answered differently, only where a
\* session that was told of an expired result or a closed broker asked again under another key,
\* and a driver that leaves its segment leaves the call it waits for known to the journal
\* (_agent_broker.py, _agent_models.py, _agent.py): for every program, number of pages and of
\* sessions.
THEOREM CallsSound ==
    ASSUME Calls!AgentCallsAssumption
    PROVE  Calls!Spec => [](Calls!PaidOnce /\ Calls!RepliesAgree /\ Calls!LeavesRecorded)
<1>1. Calls!Init => CallsInv
  BY CallsInit
<1>2. CallsInv /\ [Calls!Next]_(Calls!vars) => CallsInv'
  BY CallsPreserved
<1>3. CallsInv => Calls!PaidOnce /\ Calls!RepliesAgree /\ Calls!LeavesRecorded
  BY CallsPaidOnce, CallsAgree, CallsLeave
<1>4. QED
  BY <1>1, <1>2, <1>3, PTL DEF Calls!Spec

-----------------------------------------------------------------------------
(* Assistant.  A driver that answers reads the file of the last accepted   *)
(* checkpoint, which stays as it is until the answer is recorded.          *)

Turn    == [run : 1 .. MaxTalks, size : Nat]
Workers == [at : {"off", "claim", "read", "call", "save", "upload", "checkpoint", "complete",
                  "finish", "conflict", "unusable"}, messages : Seq(Turn), size : Nat]
Requested   == [messages : Seq(Turn), size : Nat]

Recalled  == Talk!Recent(restorable, Talk!Task)
ThisTurn  == [run |-> run, size |-> Talk!Task + worker.size]
Answering == {"read", "call", "save", "upload", "checkpoint", "complete", "unusable"}

\* The last items of t.
Latest(s, t) == Len(s) <= Len(t) /\ \A i \in 1 .. Len(s) : s[i] = t[Len(t) - Len(s) + i]

TalkTypes ==
    /\ tasks \in [1 .. MaxTalks -> Sizes] /\ run \in 1 .. MaxTalks + 1
    /\ conversation \in Seq(Turn) /\ restorable \in Seq(Turn) /\ captured \in Seq(Turn)
    /\ turns \in Seq(Turn) /\ answer \in {"none", "started", "recorded"}
    /\ worker \in Workers /\ paid \in Seq(Requested) /\ deaths \in 0 .. MaxDeaths

TalkInv ==
    /\ TalkTypes
    /\ worker.at # "off" \/ paid # <<>> \/ answer # "none"
          => run \in 1 .. MaxTalks /\ Talk!Fits(<<>>, Talk!Task)
    /\ worker.at \in Answering => answer = "started"
    /\ worker.at = "finish" => answer = "recorded"
    /\ paid # <<>> => answer # "none"
    /\ paid # <<>> /\ answer = "started" => paid[1].messages = Recalled
    /\ worker.at \in {"off", "claim", "read", "call", "finish"} => conversation = restorable
    /\ worker.at \in {"call", "save"} => worker.messages = Recalled
    /\ worker.at \in {"upload", "checkpoint", "complete"} => conversation = Append(Recalled, ThisTurn)
    /\ worker.at = "complete" => captured = conversation
    /\ worker.at # "conflict"
    /\ Latest(restorable, turns)
    /\ turns # <<>> => restorable # <<>>

\* A set of numbers has a least one.
LEMMA LeastOf ==
    ASSUME NEW D, D \subseteq Nat, D # {}
    PROVE  \E x \in D : \A y \in D : x <= y
<1>. DEFINE R == {ss \in Nat \X Nat : ss[1] < ss[2]}
<1>1. IsWellFoundedOn(R, Nat)
  BY NatLessThanWellFounded, Zenon DEF OpToRel
<1>2. PICK x \in D : \A y \in D : <<y, x>> \notin R
  <2>. HIDE DEF R
  <2>. QED
    BY <1>1, WFMin, Zenon
<1>3. ASSUME NEW y \in D  PROVE x <= y
  <2>1. x \in Nat /\ y \in Nat /\ <<y, x>> \notin R
    BY <1>2
  <2>2. QED
    BY <2>1
<1>4. QED
  BY <1>3

\* The last items of the last items, and of two sequences that grow by the same one.
LEMMA LatestOfLatest ==
    ASSUME NEW S, NEW r \in Seq(S), NEW s \in Seq(S), NEW t \in Seq(S), Latest(r, s), Latest(s, t)
    PROVE  Latest(r, t)
<1>1. Len(r) \in Nat /\ Len(s) \in Nat /\ Len(t) \in Nat /\ Len(r) <= Len(s) /\ Len(s) <= Len(t)
  BY DEF Latest
<1>2. ASSUME NEW i \in 1 .. Len(r)  PROVE r[i] = t[Len(t) - Len(r) + i]
  <2>1. PICK j \in 1 .. Len(s) : j = Len(s) - Len(r) + i
    <3>1. Len(s) - Len(r) + i \in 1 .. Len(s)
      BY <1>1
    <3>2. QED
      BY <3>1, Zenon
  <2>2. r[i] = s[j] /\ s[j] = t[Len(t) - Len(s) + j]
    BY <2>1 DEF Latest
  <2>3. Len(t) - Len(s) + j = Len(t) - Len(r) + i
    BY <1>1, <2>1
  <2>4. QED
    BY <2>2, <2>3
<1>3. QED
  BY <1>1, <1>2 DEF Latest

LEMMA LatestAppend ==
    ASSUME NEW S, NEW s \in Seq(S), NEW t \in Seq(S), NEW x \in S, Latest(s, t)
    PROVE  Latest(Append(s, x), Append(t, x))
<1>1. /\ Len(s) \in Nat /\ Len(t) \in Nat /\ Len(s) <= Len(t)
      /\ Len(Append(s, x)) = Len(s) + 1 /\ Len(Append(t, x)) = Len(t) + 1
  BY DEF Latest
<1>2. ASSUME NEW i \in 1 .. Len(s) + 1
      PROVE  Append(s, x)[i] = Append(t, x)[Len(t) - Len(s) + i]
  <2>1. CASE i = Len(s) + 1
    BY <1>1, <2>1
  <2>2. CASE i \in 1 .. Len(s)
    <3>1. PICK j \in 1 .. Len(t) : j = Len(t) - Len(s) + i
      <4>1. Len(t) - Len(s) + i \in 1 .. Len(t)
        BY <1>1, <2>2
      <4>2. QED
        BY <4>1, Zenon
    <3>2. s[i] = t[j]
      BY <2>2, <3>1 DEF Latest
    <3>3. QED
      BY <1>1, <2>2, <3>1, <3>2
  <2>3. QED
    BY <1>1, <2>1, <2>2
<1>3. Len(t) + 1 - (Len(s) + 1) = Len(t) - Len(s)
  BY <1>1
<1>4. ASSUME NEW a, NEW b, a = Append(s, x), b = Append(t, x)  PROVE Latest(a, b)
  <2>1. Len(a) = Len(s) + 1 /\ Len(b) = Len(t) + 1
    BY <1>1, <1>4
  <2>2. ASSUME NEW i \in 1 .. Len(a)  PROVE a[i] = b[Len(b) - Len(a) + i]
    <3>1. i \in 1 .. Len(s) + 1 /\ Len(b) - Len(a) = Len(t) - Len(s)
      BY <1>1, <2>1
    <3>2. Append(s, x)[i] = Append(t, x)[Len(t) - Len(s) + i]
      BY <1>2, <3>1
    <3>3. QED
      BY <1>4, <3>1, <3>2, Zenon
  <2>3. QED
    BY <1>1, <2>1, <2>2 DEF Latest
<1>5. QED
  BY <1>4

\* The last items of a sequence are a suffix of it.
LEMMA LatestIsSuffix ==
    ASSUME NEW S, NEW s \in Seq(S), NEW t \in Seq(S), Latest(s, t)
    PROVE  Talk!IsSuffix(s, t)
<1>1. /\ Len(s) \in Nat /\ Len(t) \in Nat /\ Len(s) <= Len(t)
  BY DEF Latest
<1>. DEFINE u == Talk!Reverse(s)
            v == Talk!Reverse(t)
<1>2. u \in Seq(S) /\ Len(u) = Len(s) /\ \A i \in 1 .. Len(s) : u[i] = s[Len(s) - i + 1]
  <2>1. u = [i \in 1 .. Len(s) |-> s[Len(s) - i + 1]]
    BY DEF Talk!Reverse
  <2>2. \A i \in 1 .. Len(s) : s[Len(s) - i + 1] \in S
    BY <1>1
  <2>3. QED
    BY <1>1, <2>1, <2>2
<1>3. v \in Seq(S) /\ Len(v) = Len(t) /\ \A i \in 1 .. Len(t) : v[i] = t[Len(t) - i + 1]
  <2>1. v = [i \in 1 .. Len(t) |-> t[Len(t) - i + 1]]
    BY DEF Talk!Reverse
  <2>2. \A i \in 1 .. Len(t) : t[Len(t) - i + 1] \in S
    BY <1>1
  <2>3. QED
    BY <1>1, <2>1, <2>2
<1>4. ASSUME NEW i \in 1 .. Len(s)  PROVE u[i] = v[i]
  <2>1. PICK j \in 1 .. Len(s) : j = Len(s) - i + 1
    <3>1. Len(s) - i + 1 \in 1 .. Len(s)
      BY <1>1
    <3>2. QED
      BY <3>1, Zenon
  <2>2. s[j] = t[Len(t) - Len(s) + j]
    BY DEF Latest
  <2>3. Len(t) - Len(s) + j = Len(t) - i + 1 /\ i \in 1 .. Len(t)
    BY <1>1, <2>1
  <2>4. QED
    BY <1>2, <1>3, <2>1, <2>2, <2>3
<1>5. Talk!IsPrefix(u, v)
  <2>. HIDE DEF u, v
  <2>1. SubSeq(u, 1, Len(u)) = SubSeq(v, 1, Len(u))
    BY <1>1, <1>2, <1>3, <1>4
  <2>2. QED
    BY <1>1, <1>2, <1>3, <2>1 DEF Talk!IsPrefix
<1>6. QED
  BY <1>5 DEF Talk!IsSuffix

\* A request holds the most recent turns.
LEMMA RecentLatest ==
    ASSUME NEW h \in Seq(Turn), NEW text, Talk!Fits(<<>>, text)
    PROVE  Talk!Recent(h, text) \in Seq(Turn) /\ Latest(Talk!Recent(h, text), h)
<1>. DEFINE D == { k \in 0 .. Len(h) : Talk!Fits(SubSeq(h, k + 1, Len(h)), text) }
            m == Talk!Min(D)
<1>1. Len(h) \in Nat
  OBVIOUS
<1>2. Len(h) \in D
  <2>1. SubSeq(h, Len(h) + 1, Len(h)) = <<>>
    BY <1>1
  <2>2. Len(h) \in 0 .. Len(h)
    BY <1>1
  <2>3. Talk!Fits(SubSeq(h, Len(h) + 1, Len(h)), text)
    BY <2>1, Zenon
  <2>4. QED
    BY <2>2, <2>3, Zenon
<1>3. m \in D
  <2>1. \E x \in D : \A y \in D : x <= y
    <3>. HIDE DEF D
    <3>1. D \subseteq Nat /\ D # {}
      BY <1>1, <1>2 DEF D
    <3>2. QED
      BY <3>1, LeastOf
  <2>. HIDE DEF D
  <2>2. QED
    BY <2>1 DEF Talk!Min
<1>4. Talk!Recent(h, text) = SubSeq(h, m + 1, Len(h))
  BY DEF Talk!Recent
<1>. HIDE DEF m
<1>5. m \in 0 .. Len(h)
  BY <1>3
<1>6. /\ SubSeq(h, m + 1, Len(h)) \in Seq(Turn)
      /\ Len(SubSeq(h, m + 1, Len(h))) = Len(h) - m
      /\ \A i \in 1 .. Len(h) - m : SubSeq(h, m + 1, Len(h))[i] = h[m + i]
  BY <1>1, <1>5
<1>7. PICK r \in Seq(Turn) : /\ r = SubSeq(h, m + 1, Len(h)) /\ Len(r) = Len(h) - m
                             /\ \A i \in 1 .. Len(h) - m : r[i] = h[m + i]
  BY <1>6, Zenon
<1>8. Latest(r, h)
  <2>1. Len(r) <= Len(h) /\ Len(h) - Len(r) = m
    BY <1>1, <1>5, <1>7
  <2>2. QED
    BY <1>7, <2>1 DEF Latest
<1>9. QED
  BY <1>4, <1>7, <1>8

Places == {"off", "claim", "read", "call", "save", "upload", "checkpoint", "complete", "finish",
           "conflict", "unusable"}

\* A worker at another place.
LEMMA WorkerAt ==
    ASSUME NEW w \in Workers, NEW place \in Places
    PROVE  \E v \in Workers : /\ v = [w EXCEPT !.at = place] /\ v.at = place
                              /\ v.messages = w.messages /\ v.size = w.size
<1>. DEFINE v == [w EXCEPT !.at = place]
<1>1. v \in Workers /\ v.at = place /\ v.messages = w.messages /\ v.size = w.size
  BY DEF Workers, Places
<1>2. QED
  BY <1>1, Zenon

\* What is known of a worker, and of one that goes to another place.
LEMMA TalkFacts ==
    ASSUME Talk!AssistantAssumption, TalkInv
    PROVE  /\ worker \in Workers /\ worker.at \in Places /\ worker.messages \in Seq(Turn)
           /\ worker.size \in Nat
           /\ run \in 1 .. MaxTalks + 1 /\ MaxTalks \in Nat
           /\ run \in 1 .. MaxTalks => Talk!Task \in Sizes /\ Talk!Task \in Nat
           /\ worker.at # "off" => ThisTurn \in Turn
           /\ Talk!Idle \in Workers /\ Talk!Idle.at = "off"
<1>1. worker \in Workers /\ run \in 1 .. MaxTalks + 1 /\ MaxTalks \in Nat /\ Sizes \subseteq Nat
  BY DEF TalkInv, TalkTypes, Talk!AssistantAssumption
<1>2. worker.at \in Places /\ worker.messages \in Seq(Turn) /\ worker.size \in Nat
  BY <1>1 DEF Workers, Places
<1>3. run \in 1 .. MaxTalks => Talk!Task \in Sizes /\ Talk!Task \in Nat
  BY <1>1 DEF TalkInv, TalkTypes, Talk!Task
<1>4. worker.at # "off" => ThisTurn \in Turn
  <2>1. SUFFICES ASSUME worker.at # "off" PROVE ThisTurn \in Turn
    OBVIOUS
  <2>2. run \in 1 .. MaxTalks
    BY <2>1 DEF TalkInv
  <2>3. Talk!Task + worker.size \in Nat
    BY <1>2, <1>3, <2>2
  <2>4. QED
    BY <2>2, <2>3 DEF ThisTurn, Turn
<1>5. Talk!Idle \in Workers /\ Talk!Idle.at = "off"
  BY DEF Talk!Idle, Workers
<1>6. QED
  BY <1>1, <1>2, <1>3, <1>4, <1>5

\* The steps.
LEMMA TalkStarts ==
    ASSUME Talk!AssistantAssumption, TalkInv, Talk!Starts
    PROVE  TalkInv'
<1>1. /\ worker.at = "off" /\ run <= MaxTalks
      /\ UNCHANGED <<tasks, conversation, restorable, captured, turns, deaths, answer, paid>>
  BY DEF Talk!Starts
<1>2. run \in 1 .. MaxTalks
  BY <1>1, TalkFacts DEF Talk!Starts
<1>3. CASE Talk!Fits(<<>>, Talk!Task)
  <2>1. run' = run /\ Talk!At("claim")
    BY <1>3 DEF Talk!Starts
  <2>2. PICK v \in Workers : v = worker' /\ v.at = "claim"
    <3>1. worker \in Workers /\ "claim" \in Places
      BY TalkFacts DEF Places
    <3>2. QED
      BY <2>1, <3>1, WorkerAt DEF Talk!At
  <2>3. Talk!Task' = Talk!Task /\ Recalled' = Recalled
    BY <1>1, <2>1 DEF Talk!Task, Recalled
  <2>4. QED
    BY <1>1, <1>2, <1>3, <2>1, <2>2, <2>3 DEF TalkInv, TalkTypes, Answering
<1>4. CASE ~Talk!Fits(<<>>, Talk!Task)
  <2>1. run' = run + 1 /\ worker' = worker
    BY <1>4 DEF Talk!Starts
  <2>2. paid = <<>> /\ answer = "none"
    BY <1>4 DEF TalkInv
  <2>3. run' \in 1 .. MaxTalks + 1
    BY <1>2, <2>1, TalkFacts
  <2>4. QED
    BY <1>1, <2>1, <2>2, <2>3 DEF TalkInv, TalkTypes, Answering
<1>5. QED
  BY <1>3, <1>4

LEMMA TalkClaims ==
    ASSUME Talk!AssistantAssumption, TalkInv, Talk!Claims
    PROVE  TalkInv'
<1>1. /\ worker.at = "claim" /\ UNCHANGED <<tasks, run, conversation, restorable, captured, turns,
                                            deaths, paid>>
  BY DEF Talk!Claims
<1>2. PICK place \in Places : /\ Talk!At(place)
                              /\ \/ place = "finish" /\ answer = "recorded" /\ answer' = answer
                                 \/ place = "read" /\ answer # "recorded" /\ answer' = "started"
  BY DEF Talk!Claims, Places
<1>3. PICK v \in Workers : v = worker' /\ v.at = place
  <2>1. worker \in Workers
    BY TalkFacts
  <2>2. QED
    BY <1>2, <2>1, WorkerAt DEF Talk!At
<1>4. Talk!Task' = Talk!Task /\ Recalled' = Recalled
  BY <1>1 DEF Talk!Task, Recalled
<1>5. paid # <<>> => answer \in {"started", "recorded"}
  BY DEF TalkInv, TalkTypes
<1>6. QED
  BY <1>1, <1>2, <1>3, <1>4, <1>5 DEF TalkInv, TalkTypes, Answering

LEMMA TalkReads ==
    ASSUME Talk!AssistantAssumption, TalkInv, Talk!Reads
    PROVE  TalkInv'
<1>1. /\ worker.at = "read" /\ UNCHANGED <<tasks, run, conversation, restorable, captured, turns,
                                            deaths, paid, answer>>
      /\ worker' = [worker EXCEPT !.at = "call", !.messages = Talk!Recent(conversation, Talk!Task)]
  BY DEF Talk!Reads, Talk!After
<1>2. conversation = restorable /\ restorable \in Seq(Turn) /\ Talk!Fits(<<>>, Talk!Task)
  BY <1>1 DEF TalkInv, TalkTypes
<1>3. PICK m \in Seq(Turn) : m = Recalled /\ m = Talk!Recent(conversation, Talk!Task)
  BY <1>2, RecentLatest DEF Recalled
<1>4. worker' \in Workers /\ worker'.at = "call" /\ worker'.messages = m
  <2>1. worker \in Workers
    BY TalkFacts
  <2>2. worker' = [worker EXCEPT !.at = "call", !.messages = m]
    BY <1>1, <1>3
  <2>3. QED
    BY <2>1, <2>2 DEF Workers
<1>5. Talk!Task' = Talk!Task /\ Recalled' = Recalled
  BY <1>1 DEF Talk!Task, Recalled
<1>6. QED
  BY <1>1, <1>3, <1>4, <1>5 DEF TalkInv, TalkTypes, Answering

LEMMA TalkCalls ==
    ASSUME Talk!AssistantAssumption, TalkInv, Talk!Calls
    PROVE  TalkInv'
<1>1. /\ worker.at = "call" /\ UNCHANGED <<tasks, run, conversation, restorable, captured, turns,
                                            deaths, answer>>
  BY DEF Talk!Calls
<1>2. /\ worker \in Workers /\ worker.messages \in Seq(Turn) /\ worker.messages = Recalled
      /\ answer = "started" /\ Sizes \subseteq Nat /\ paid \in Seq(Requested)
  BY <1>1, TalkFacts DEF TalkInv, TalkTypes, Answering, Talk!AssistantAssumption
<1>3. Talk!Task' = Talk!Task /\ Recalled' = Recalled
  BY <1>1 DEF Talk!Task, Recalled
<1>4. PICK number \in Nat, place \in {"unusable", "save"} :
          /\ worker' = [worker EXCEPT !.at = place, !.size = number]
          /\ paid' \in Seq(Requested) /\ paid' # <<>> /\ paid'[1].messages = Recalled
  <2>1. CASE paid = <<>>
    <3>1. PICK number \in Sizes \cup {0} :
              /\ paid' = <<[messages |-> worker.messages, size |-> number]>>
              /\ worker' = [worker EXCEPT !.at = IF number = 0 THEN "unusable" ELSE "save",
                                          !.size = number]
      BY <2>1 DEF Talk!Calls, Talk!NoText, Talk!After
    <3>2. number \in Nat
      BY <1>2, <3>1
    <3>3. PICK p \in Requested : /\ p = [messages |-> worker.messages, size |-> number]
                             /\ p.messages = Recalled
      <4>1. [messages |-> worker.messages, size |-> number] \in Requested
        BY <1>2, <3>2 DEF Requested
      <4>2. QED
        BY <1>2, <4>1
    <3>4. paid' \in Seq(Requested) /\ paid' # <<>> /\ paid'[1].messages = Recalled
      BY <3>1, <3>3
    <3>5. PICK place \in {"unusable", "save"} :
              place = IF number = 0 THEN "unusable" ELSE "save"
      BY Zenon
    <3>6. QED
      BY <3>1, <3>2, <3>4, <3>5
  <2>2. CASE paid # <<>>
    <3>1. paid' = paid /\ paid[1].messages = Recalled
      BY <1>1, <1>2, <2>2 DEF Talk!Calls, TalkInv
    <3>2. PICK number \in Nat : number = paid[1].size
      <4>1. paid[1] \in Requested
        BY <1>2, <2>2
      <4>2. QED
        BY <4>1 DEF Requested
    <3>3. PICK place \in {"unusable", "save"} :
              place = IF number = 0 THEN "unusable" ELSE "save"
      BY Zenon
    <3>4. worker' = [worker EXCEPT !.at = place, !.size = number]
      BY <1>2, <2>2, <3>1, <3>2, <3>3 DEF Talk!Calls, Talk!NoText, Talk!After
    <3>5. QED
      BY <1>2, <2>2, <3>1, <3>4
  <2>3. QED
    BY <2>1, <2>2
<1>5. worker' \in Workers /\ worker'.at = place /\ worker'.messages = worker.messages
  BY <1>2, <1>4 DEF Workers
<1>6. QED
  BY <1>1, <1>2, <1>3, <1>4, <1>5 DEF TalkInv, TalkTypes, Answering

\* A turn that is being answered is kept as it is.
LEMMA TalkGoesOn ==
    ASSUME Talk!AssistantAssumption, TalkInv, NEW place \in Places, Talk!At(place),
           UNCHANGED <<tasks, run, restorable, answer, paid, turns, deaths>>,
           \/ worker.at = "save" /\ place = "upload" /\ captured' = captured
              /\ conversation' = Append(Recalled, ThisTurn)
           \/ worker.at = "upload" /\ place = "checkpoint" /\ captured' = captured
              /\ conversation' = conversation
           \/ worker.at = "checkpoint" /\ place = "complete" /\ captured' = conversation
              /\ conversation' = conversation
    PROVE  TalkInv'
<1>1. /\ worker \in Workers /\ conversation \in Seq(Turn) /\ captured \in Seq(Turn)
      /\ restorable \in Seq(Turn) /\ Talk!Fits(<<>>, Talk!Task) /\ ThisTurn \in Turn
      /\ answer = "started" /\ run \in 1 .. MaxTalks
  BY TalkFacts DEF TalkInv, TalkTypes, Answering
<1>2. PICK v \in Workers : v = worker' /\ v.at = place /\ v.size = worker.size
  BY <1>1, WorkerAt DEF Talk!At
<1>3. Talk!Task' = Talk!Task /\ Recalled' = Recalled
  BY DEF Talk!Task, Recalled
<1>4. ThisTurn' = ThisTurn
  BY <1>2, <1>3 DEF ThisTurn
<1>5. Append(Recalled, ThisTurn) \in Seq(Turn)
  <2>1. Recalled \in Seq(Turn)
    BY <1>1, RecentLatest DEF Recalled
  <2>2. QED
    BY <1>1, <2>1
<1>6. conversation' = Append(Recalled, ThisTurn) /\ conversation' \in Seq(Turn)
  BY <1>1, <1>5 DEF TalkInv
<1>7. captured' \in Seq(Turn) /\ (place = "complete" => captured' = conversation')
  BY <1>1
<1>8. QED
  BY <1>1, <1>2, <1>3, <1>4, <1>6, <1>7 DEF TalkInv, TalkTypes, Answering

LEMMA TalkSteps ==
    ASSUME Talk!AssistantAssumption, TalkInv, Talk!Saves \/ Talk!Uploads \/ Talk!Checkpoints
    PROVE  TalkInv'
<1>1. "upload" \in Places /\ "checkpoint" \in Places /\ "complete" \in Places
  BY DEF Places
<1>2. CASE Talk!Saves
  <2>1. worker.at = "save" /\ Talk!At("upload") /\ worker.messages = Recalled
    BY <1>2 DEF Talk!Saves, Talk!After, TalkInv
  <2>2. conversation' = Append(Recalled, ThisTurn)
    BY <1>2, <2>1 DEF Talk!Saves, ThisTurn
  <2>3. QED
    BY <1>1, <1>2, <2>1, <2>2, TalkGoesOn DEF Talk!Saves
<1>3. CASE Talk!Uploads
  BY <1>1, <1>3, TalkGoesOn DEF Talk!Uploads, Talk!After
<1>4. CASE Talk!Checkpoints
  BY <1>1, <1>4, TalkGoesOn DEF Talk!Checkpoints, Talk!After
<1>5. QED
  BY <1>2, <1>3, <1>4

LEMMA TalkCompletes ==
    ASSUME Talk!AssistantAssumption, TalkInv, Talk!Completes
    PROVE  TalkInv'
<1>1. /\ worker.at = "complete" /\ Talk!At("finish") /\ answer' = "recorded"
      /\ restorable' = captured /\ turns' = Append(turns, ThisTurn)
      /\ UNCHANGED <<tasks, run, conversation, captured, paid, deaths>>
  BY DEF Talk!Completes, Talk!After, ThisTurn
<1>2. /\ captured = conversation /\ conversation = Append(Recalled, ThisTurn)
      /\ restorable \in Seq(Turn) /\ turns \in Seq(Turn) /\ conversation \in Seq(Turn)
      /\ Latest(restorable, turns) /\ Talk!Fits(<<>>, Talk!Task) /\ run \in 1 .. MaxTalks
  BY <1>1 DEF TalkInv, TalkTypes
<1>3. worker \in Workers /\ ThisTurn \in Turn /\ "finish" \in Places
  BY <1>1, TalkFacts DEF Places
<1>4. PICK v \in Workers : v = worker' /\ v.at = "finish"
  BY <1>1, <1>3, WorkerAt DEF Talk!At
<1>5. Recalled \in Seq(Turn) /\ Latest(Recalled, restorable)
  BY <1>2, RecentLatest DEF Recalled
<1>6. Latest(Recalled, turns)
  BY <1>2, <1>5, LatestOfLatest
<1>7. Latest(Append(Recalled, ThisTurn), Append(turns, ThisTurn))
  BY <1>2, <1>3, <1>5, <1>6, LatestAppend
<1>8. Latest(restorable, turns)' /\ restorable' = conversation'
  BY <1>1, <1>2, <1>7 DEF Latest
<1>9. restorable' # <<>> /\ turns' \in Seq(Turn)
  <2>1. Len(Append(Recalled, ThisTurn)) = Len(Recalled) + 1 /\ Len(Recalled) \in Nat
    BY <1>3, <1>5
  <2>2. Append(Recalled, ThisTurn) # <<>>
    BY <2>1
  <2>3. Append(turns, ThisTurn) \in Seq(Turn)
    BY <1>2, <1>3
  <2>4. QED
    BY <1>1, <1>2, <2>2, <2>3
<1>10. Talk!Task' = Talk!Task
  BY <1>1 DEF Talk!Task
<1>11. QED
  BY <1>1, <1>2, <1>4, <1>8, <1>9, <1>10 DEF TalkInv, TalkTypes, Answering

\* The driver is gone, and the next one finds the restorable file; or the run is over.
LEMMA TalkEnds ==
    ASSUME Talk!AssistantAssumption, TalkInv,
           Talk!Refuses \/ Talk!Finishes \/ Talk!Dies
    PROVE  TalkInv'
<1>1. /\ worker.at # "off" /\ worker' = Talk!Idle /\ UNCHANGED <<tasks, turns>>
      /\ deaths' \in 0 .. MaxDeaths
  BY DEF Talk!Refuses, Talk!Finishes, Talk!Dies, TalkInv, TalkTypes, Talk!AssistantAssumption
<1>2. /\ Talk!Idle \in Workers /\ Talk!Idle.at = "off" /\ run \in 1 .. MaxTalks /\ MaxTalks \in Nat
      /\ restorable \in Seq(Turn) /\ captured \in Seq(Turn) /\ conversation \in Seq(Turn)
  BY <1>1, TalkFacts DEF TalkInv, TalkTypes
<1>3. restorable' = restorable /\ conversation' = restorable /\ captured' \in Seq(Turn)
  BY <1>2 DEF Talk!Refuses, Talk!Finishes, Talk!Dies, TalkInv
<1>4. CASE UNCHANGED <<run, answer, paid>>
  <2>1. Talk!Task' = Talk!Task /\ Recalled' = Recalled
    BY <1>1, <1>3, <1>4 DEF Talk!Task, Recalled
  <2>2. QED
    BY <1>1, <1>2, <1>3, <1>4, <2>1 DEF TalkInv, TalkTypes, Answering
<1>5. CASE run' = run + 1 /\ answer' = "none" /\ paid' = <<>>
  <2>1. run' \in 1 .. MaxTalks + 1 /\ paid' \in Seq(Requested)
    BY <1>2, <1>5
  <2>2. QED
    BY <1>1, <1>2, <1>3, <1>5, <2>1 DEF TalkInv, TalkTypes, Answering
<1>6. QED
  BY <1>4, <1>5 DEF Talk!Refuses, Talk!Finishes, Talk!Dies

LEMMA TalkInit ==
    ASSUME Talk!AssistantAssumption, Talk!Init
    PROVE  TalkInv
<1>1. Talk!Idle \in Workers /\ Talk!Idle.at = "off"
  BY DEF Talk!Idle, Workers
<1>2. Latest(<<>>, <<>>)
  BY DEF Latest
<1>3. <<>> \in Seq(Turn) /\ <<>> \in Seq(Requested) /\ 1 \in 1 .. MaxTalks + 1 /\ 0 \in 0 .. MaxDeaths
  BY DEF Talk!AssistantAssumption
<1>4. QED
  BY <1>1, <1>2, <1>3 DEF Talk!Init, TalkInv, TalkTypes, Answering

\* Every step of the assistant keeps the invariant.
LEMMA TalkPreserved ==
    ASSUME Talk!AssistantAssumption, TalkInv, [Talk!Next]_(Talk!vars)
    PROVE  TalkInv'
<1>1. CASE Talk!Next
  BY <1>1, TalkStarts, TalkClaims, TalkReads, TalkCalls, TalkSteps, TalkCompletes, TalkEnds
     DEF Talk!Next
<1>2. CASE UNCHANGED Talk!vars
  <2>1. Talk!Task' = Talk!Task /\ Recalled' = Recalled /\ ThisTurn' = ThisTurn
    BY <1>2 DEF Talk!Task, Recalled, ThisTurn, Talk!vars
  <2>2. QED
    BY <1>2, <2>1 DEF Talk!vars, TalkInv, TalkTypes, Answering
<1>3. QED
  BY <1>1, <1>2

\* The saved conversation is the end of the recorded one.
LEMMA TalkKept == TalkInv => Talk!ConversationKept
<1>1. TalkInv => Talk!IsSuffix(restorable, turns)
  BY LatestIsSuffix DEF TalkInv, TalkTypes
<1>2. QED
  BY <1>1 DEF TalkInv, Talk!ConversationKept

\* However often the answer is attempted, its model call has the input of the first attempt
\* (managed_assistant.py:78-86); and the saved conversation holds the most recent turns that
\* were answered, the last one among them (managed_assistant.py:62-94).
THEOREM TalkRemembered ==
    ASSUME Talk!AssistantAssumption
    PROVE  Talk!Spec => [](Talk!AskedOnce /\ Talk!ConversationKept)
<1>1. Talk!Init => TalkInv
  BY TalkInit
<1>2. TalkInv /\ [Talk!Next]_(Talk!vars) => TalkInv'
  BY TalkPreserved
<1>3. TalkInv => Talk!AskedOnce /\ Talk!ConversationKept
  BY TalkKept DEF TalkInv, Talk!AskedOnce
<1>4. QED
  BY <1>1, <1>2, <1>3, PTL DEF Talk!Spec

-----------------------------------------------------------------------------
(* Pools.  A record is consistent at every moment, a decision is final,    *)
(* and what an older server leaves out of its price was never changed.     *)

Waits == {"never", "cheaper"}
Policies == {"recommend", "auto"}
PoolSettings == [terms : Rented!Terms, route : Flags, wait : Waits, killed : Flags,
                 policy : Policies, older : Flags]
Bursts == [state : Rented!BurstStates, decided : Int, applied : Int, priced : Flags]
ActOutcomes == {"none", "applied", "no_op", "failed"}
Sources == {"none", "server", "customer"}
Acts == [state : Rented!ActStates, decided : Int, outcome : ActOutcomes, recorded : Int, source : Sources,
         measured : Flags]
Pcs == {"idle", "sent", "applied", "returned", "raised", "refused"}
PoolCalls == [pc : Pcs, op : Rented!Ops \cup {Rented!NoOp}, held : Flags, n : 0 .. MaxPoolCalls]

BurstSound(b) ==
    /\ Rented!BurstConsistent(b)
    /\ b.decided # Rented!Never => b.decided <= minute

ActSound(a) ==
    /\ Rented!ActConsistent(a)
    /\ a.state \in {"approved", "applying", "uncertain", "applied", "failed"} => a.decided # Rented!Never
    /\ a.state \notin {"applied", "failed"} => a.outcome = "none"

\* What a caller was told holds, and stays so.
ToldSound(k) ==
    /\ k.held
    /\ k.op = <<"burst", "approve">> => burst.priced
    /\ k.op = <<"burst", "reject">> => burst.state = "rejected"
    /\ k.op = <<"act", "approve">> => act.state \notin {"pending", "rejected"}
    /\ k.op = <<"act", "reject">> => act.state = "rejected"

CallSound(k) ==
    /\ k.pc # "refused"
    /\ k.pc \in {"sent", "applied"} => k.op \in Rented!Ops
    /\ k.pc = "returned" => ToldSound(k)

PoolsInv ==
    /\ minute \in 0 .. ProposalLifetime + 1
    /\ pool \in PoolSettings /\ (pool.older => pool.terms = "platform")
    /\ burst \in Bursts /\ BurstSound(burst)
    /\ act \in Acts /\ ActSound(act)
    /\ callers \in [Rented!Callers -> PoolCalls] /\ pending \subseteq Rented!Ops
    /\ \A c \in Rented!Callers : CallSound(callers[c])

\* Records with some fields changed.
Decided(b, state, at, priced) == [b EXCEPT !.state = state, !.decided = at, !.priced = priced]
BurstIn(b, state, at) == [b EXCEPT !.state = state, !.applied = at]
ActDecided(a, state, at) == [a EXCEPT !.state = state, !.decided = at]
ActIn(a, state, outcome, at, source, measured) ==
    [a EXCEPT !.state = state, !.outcome = outcome, !.recorded = at, !.source = source,
              !.measured = measured]
Set4(p, route, wait, killed, policy) ==
    [p EXCEPT !.route = route, !.wait = wait, !.killed = killed, !.policy = policy]
CallIn(k, pc) == [k EXCEPT !.pc = pc]
CallTold(k, pc, held) == [k EXCEPT !.pc = pc, !.held = held]

LEMMA BurstFields ==
    ASSUME NEW b \in Bursts, NEW state \in Rented!BurstStates, NEW at \in Int, NEW priced \in Flags
    PROVE  LET v == Decided(b, state, at, priced)
           IN  /\ v \in Bursts /\ v.state = state /\ v.decided = at /\ v.priced = priced
               /\ v.applied = b.applied
  BY DEF Bursts, Decided

LEMMA BurstMoved ==
    ASSUME NEW b \in Bursts, NEW state \in Rented!BurstStates, NEW at \in Int
    PROVE  LET v == BurstIn(b, state, at)
           IN  /\ v \in Bursts /\ v.state = state /\ v.applied = at /\ v.priced = b.priced
               /\ v.decided = b.decided
  BY DEF Bursts, BurstIn

LEMMA ActFields ==
    ASSUME NEW a \in Acts, NEW state \in Rented!ActStates, NEW at \in Int
    PROVE  LET v == ActDecided(a, state, at)
           IN  /\ v \in Acts /\ v.state = state /\ v.decided = at /\ v.outcome = a.outcome
               /\ v.recorded = a.recorded /\ v.source = a.source /\ v.measured = a.measured
  BY DEF Acts, ActDecided

LEMMA ActFinished ==
    ASSUME NEW a \in Acts, NEW state \in Rented!ActStates, NEW at \in Int, NEW measured \in Flags,
           NEW outcome \in ActOutcomes, NEW source \in Sources
    PROVE  LET v == ActIn(a, state, outcome, at, source, measured)
           IN  /\ v \in Acts /\ v.state = state /\ v.decided = a.decided /\ v.outcome = outcome
               /\ v.recorded = at /\ v.source = source /\ v.measured = measured
  BY DEF Acts, ActIn

LEMMA PoolFields ==
    ASSUME NEW p \in PoolSettings, NEW route \in Flags, NEW wait \in Waits,
           NEW killed \in Flags, NEW policy \in Policies
    PROVE  LET v == Set4(p, route, wait, killed, policy)
           IN  v \in PoolSettings /\ v.terms = p.terms /\ v.older = p.older
  BY DEF PoolSettings, Set4

LEMMA CallFields ==
    ASSUME NEW k \in PoolCalls, NEW pc \in Pcs
    PROVE  LET v == CallIn(k, pc) IN v \in PoolCalls /\ v.pc = pc /\ v.op = k.op
  BY DEF PoolCalls, CallIn

LEMMA CallAnswered ==
    ASSUME NEW k \in PoolCalls, NEW pc \in Pcs, NEW held \in Flags
    PROVE  LET v == CallTold(k, pc, held)
           IN  v \in PoolCalls /\ v.pc = pc /\ v.held = held /\ v.op = k.op
  BY DEF PoolCalls, CallTold

\* What a step of the server does to the records and the settings.
BurstOn ==
    /\ burst' \in Bursts /\ BurstSound(burst)'
    /\ burst.priced => burst'.priced
    /\ burst.state = "rejected" => burst'.state = "rejected"
ActOn ==
    /\ act' \in Acts /\ ActSound(act)'
    /\ act.state \notin {"pending", "rejected"} => act'.state \notin {"pending", "rejected"}
    /\ act.state = "rejected" => act'.state = "rejected"
PoolOn == pool' \in PoolSettings /\ (pool'.older => pool'.terms = "platform")

\* A step of the server and of one caller.
LEMMA PoolsMove ==
    ASSUME PoolsInv, minute' \in 0 .. ProposalLifetime + 1, BurstOn, ActOn, PoolOn,
           pending' \subseteq Rented!Ops,
           \/ callers' = callers
           \/ \E c \in Rented!Callers, v \in PoolCalls :
                 callers' = [callers EXCEPT ![c] = v] /\ CallSound(v)'
    PROVE  PoolsInv'
<1>1. callers \in [Rented!Callers -> PoolCalls]
  BY DEF PoolsInv
<1>2. \A k : CallSound(k) => CallSound(k)'
  BY DEF CallSound, ToldSound, BurstOn, ActOn
<1>3. callers' \in [Rented!Callers -> PoolCalls] /\ \A c \in Rented!Callers : CallSound(callers[c])'
  <2>1. CASE callers' = callers
    <3>1. \A c \in Rented!Callers : CallSound(callers[c])
      BY DEF PoolsInv
    <3>2. ASSUME NEW c \in Rented!Callers PROVE CallSound(callers[c])'
      <4>1. PICK k : k = callers[c]
        OBVIOUS
      <4>2. CallSound(k)'
        BY <1>2, <3>1, <4>1
      <4>3. QED
        BY <2>1, <4>1, <4>2 DEF CallSound, ToldSound
    <3>3. QED
      BY <1>1, <2>1, <3>2
  <2>2. CASE \E c \in Rented!Callers, v \in PoolCalls :
                callers' = [callers EXCEPT ![c] = v] /\ CallSound(v)'
    <3>1. PICK c \in Rented!Callers, v \in PoolCalls :
              callers' = [callers EXCEPT ![c] = v] /\ CallSound(v)'
      BY <2>2
    <3>2. ASSUME NEW d \in Rented!Callers PROVE CallSound(callers[d])'
      <4>1. PICK k : k = callers'[d]
        OBVIOUS
      <4>2. CallSound(k)'
        <5>1. CASE d = c
          BY <1>1, <3>1, <4>1, <5>1
        <5>2. CASE d # c
          <6>1. k = callers[d] /\ CallSound(callers[d])
            BY <1>1, <3>1, <4>1, <5>2 DEF PoolsInv
          <6>2. QED
            BY <1>2, <6>1
        <5>3. QED
          BY <5>1, <5>2
      <4>3. QED
        BY <4>1, <4>2 DEF CallSound, ToldSound
    <3>3. QED
      BY <1>1, <3>1, <3>2
  <2>3. QED
    BY <2>1, <2>2
<1>4. QED
  BY <1>3 DEF PoolsInv, BurstOn, ActOn, PoolOn

\* The records stay as they are.
LEMMA BurstStays ==
    ASSUME PoolsInv, Rented!PoolsAssumption, burst' = burst, minute' \in Int, minute' >= minute
    PROVE  BurstOn
<1>1. burst \in Bursts /\ BurstSound(burst) /\ minute \in Int
  BY DEF PoolsInv, Rented!PoolsAssumption
<1>2. burst.decided \in Int
  BY <1>1 DEF Bursts
<1>3. QED
  BY <1>1, <1>2 DEF BurstOn, BurstSound, Rented!BurstConsistent

LEMMA ActStays ==
    ASSUME PoolsInv, act' = act
    PROVE  ActOn
  BY DEF PoolsInv, ActOn, ActSound, Rented!ActConsistent, Rented!OutcomeConsistent

LEMMA PoolStays ==
    ASSUME PoolsInv, pool' = pool
    PROVE  PoolOn
  BY DEF PoolsInv, PoolOn

\* A change takes effect.
LEMMA BurstApplied ==
    ASSUME PoolsInv, Rented!PoolsAssumption, minute' = minute,
           NEW choice \in {"approve", "reject", "read"}, burst' = Rented!DecideBurst(choice)
    PROVE  BurstOn
<1>1. /\ burst \in Bursts /\ BurstSound(burst) /\ minute \in Nat /\ ProposalLifetime \in Nat
      /\ burst.decided \in Int
  BY DEF PoolsInv, Rented!PoolsAssumption, Bursts
<1>2. PICK priced \in Flags :
         priced <=> (burst.state \in {"approved", "applying", "applied"} \/ burst.priced)
  BY Zenon DEF Flags
<1>3. priced <=> burst.priced
  BY <1>1, <1>2 DEF BurstSound, Rented!BurstConsistent
<1>4. CASE choice = "read" \/ burst.state # "pending" \/ minute >= ProposalLifetime
  <2>1. Rented!Decide(burst, choice) = burst
    BY <1>4 DEF Rented!Decide
  <2>2. burst' = [burst EXCEPT !.priced =
                      burst.state \in {"approved", "applying", "applied"} \/ burst.priced]
    BY <2>1 DEF Rented!DecideBurst
  <2>3. burst.priced \in BOOLEAN
    BY <1>1, Zenon DEF Bursts, Flags
  <2>4. (burst.state \in {"approved", "applying", "applied"} \/ burst.priced) = burst.priced
    BY <1>2, <1>3, <2>3, Zenon
  <2>5. burst' = [burst EXCEPT !.priced = burst.priced]
    BY <2>2, <2>4, Zenon
  <2>6. burst' = burst
    BY <1>1, <2>5 DEF Bursts
  <2>7. QED
    BY <1>1, <2>6, BurstStays
<1>5. ASSUME choice # "read", burst.state = "pending", ~(minute >= ProposalLifetime)
      PROVE  BurstOn
  <2>1. PICK state \in Rented!BurstStates, now \in Flags :
            /\ state = IF choice = "approve" THEN "approved" ELSE "rejected"
            /\ now = (choice = "approve" \/ burst.priced)
            /\ burst' = Decided(burst, state, minute, now)
    <3>1. CASE choice = "approve"
      <4>1. Rented!Decide(burst, choice) = [burst EXCEPT !.state = "approved", !.decided = minute]
        BY <1>5, <3>1 DEF Rented!Decide
      <4>2. PICK row : row = [burst EXCEPT !.state = "approved", !.decided = minute]
        OBVIOUS
      <4>3. row.state = "approved" /\ row = Rented!Decide(burst, choice)
        BY <1>1, <4>1, <4>2 DEF Bursts
      <4>4. burst' = [row EXCEPT !.priced = TRUE]
        <5>1. burst' = [row EXCEPT !.priced =
                            row.state \in {"approved", "applying", "applied"} \/ row.priced]
          BY <4>3, Zenon DEF Rented!DecideBurst
        <5>2. (row.state \in {"approved", "applying", "applied"} \/ row.priced) = TRUE
          BY <4>3, Zenon
        <5>3. QED
          BY <5>1, <5>2, Zenon
      <4>5. [row EXCEPT !.priced = TRUE] = Decided(burst, "approved", minute, TRUE)
        BY <4>2 DEF Decided
      <4>6. TRUE \in Flags /\ "approved" \in Rented!BurstStates
        BY DEF Flags, Rented!BurstStates
      <4>7. (choice = "approve" \/ burst.priced) = TRUE
        BY <3>1, Zenon
      <4>8. QED
        BY <3>1, <4>4, <4>5, <4>6, <4>7
    <3>2. CASE choice # "approve"
      <4>1. Rented!Decide(burst, choice) = [burst EXCEPT !.state = "rejected", !.decided = minute]
        BY <1>5, <3>2 DEF Rented!Decide
      <4>2. PICK row : row = [burst EXCEPT !.state = "rejected", !.decided = minute]
        OBVIOUS
      <4>3. row.state = "rejected" /\ row = Rented!Decide(burst, choice) /\ row.priced = burst.priced
        BY <1>1, <4>1, <4>2 DEF Bursts
      <4>4. ~burst.priced
        BY <1>1, <1>5 DEF BurstSound, Rented!BurstConsistent
      <4>5. burst' = [row EXCEPT !.priced = FALSE]
        <5>1. burst' = [row EXCEPT !.priced =
                            row.state \in {"approved", "applying", "applied"} \/ row.priced]
          BY <4>3, Zenon DEF Rented!DecideBurst
        <5>2. (row.state \in {"approved", "applying", "applied"} \/ row.priced) = FALSE
          BY <4>3, <4>4, Zenon
        <5>3. QED
          BY <5>1, <5>2, Zenon
      <4>6. [row EXCEPT !.priced = FALSE] = Decided(burst, "rejected", minute, FALSE)
        BY <4>2 DEF Decided
      <4>7. FALSE \in Flags /\ "rejected" \in Rented!BurstStates
        BY DEF Flags, Rented!BurstStates
      <4>8. (choice = "approve" \/ burst.priced) = FALSE
        BY <3>2, <4>4, Zenon
      <4>9. QED
        BY <3>2, <4>5, <4>6, <4>7, <4>8
    <3>3. QED
      BY <3>1, <3>2
  <2>2. /\ burst' \in Bursts /\ burst'.state = state /\ burst'.decided = minute
        /\ burst'.priced = now /\ burst'.applied = burst.applied
    BY <1>1, <2>1, BurstFields
  <2>3. ~burst.priced /\ burst.applied = Rented!Never
    BY <1>1, <1>5 DEF BurstSound, Rented!BurstConsistent
  <2>4. (state = "approved" /\ now) \/ (state = "rejected" /\ ~now)
    <3>1. CASE choice = "approve"
      <4>1. state = "approved"
        BY <2>1, <3>1
      <4>2. now
        BY <2>1, <3>1, Zenon
      <4>3. QED
        BY <4>1, <4>2
    <3>2. CASE choice # "approve"
      <4>1. state = "rejected"
        BY <2>1, <3>2
      <4>2. ~now
        BY <2>1, <2>3, <3>2, Zenon
      <4>3. QED
        BY <4>1, <4>2
    <3>3. QED
      BY <3>1, <3>2
  <2>5. BurstSound(burst')
    BY <1>1, <1>5, <2>2, <2>3, <2>4 DEF BurstSound, Rented!BurstConsistent, Rented!Never
  <2>6. BurstSound(burst)'
    BY <2>5 DEF BurstSound, Rented!BurstConsistent
  <2>7. QED
    BY <1>5, <2>2, <2>3, <2>6 DEF BurstOn
<1>6. QED
  BY <1>4, <1>5

LEMMA ActApplied ==
    ASSUME PoolsInv, Rented!PoolsAssumption,
           NEW choice \in {"approve", "reject", "read"}, act' = Rented!Decide(act, choice)
    PROVE  ActOn
<1>1. act \in Acts /\ ActSound(act) /\ minute \in Nat
  BY DEF PoolsInv, Rented!PoolsAssumption
<1>2. CASE act' = act
  BY <1>2, ActStays
<1>3. ASSUME act' # act
      PROVE  ActOn
  <2>1. PICK state \in Rented!ActStates :
            state \in {"approved", "rejected"} /\ act' = ActDecided(act, state, minute)
    <3>1. "approved" \in Rented!ActStates /\ "rejected" \in Rented!ActStates
      BY DEF Rented!ActStates, Rented!BurstStates
    <3>2. QED
      BY <1>3, <3>1 DEF Rented!Decide, ActDecided
  <2>2. act.state = "pending"
    BY <1>3 DEF Rented!Decide
  <2>3. PICK a \in Acts : /\ a = act' /\ a.state = state /\ a.decided = minute
                          /\ a.outcome = act.outcome
    <3>1. minute \in Int
      BY <1>1
    <3>2. /\ ActDecided(act, state, minute) \in Acts
          /\ ActDecided(act, state, minute).state = state
          /\ ActDecided(act, state, minute).decided = minute
          /\ ActDecided(act, state, minute).outcome = act.outcome
      BY <1>1, <3>1, ActFields
    <3>3. QED
      BY <2>1, <3>2, Zenon
  <2>4. ActSound(a)
    BY <1>1, <2>1, <2>2, <2>3 DEF ActSound, Rented!ActConsistent, Rented!Never
  <2>5. QED
    BY <2>1, <2>2, <2>3, <2>4 DEF ActOn, ActSound, Rented!ActConsistent, Rented!OutcomeConsistent
<1>4. QED
  BY <1>2, <1>3

LEMMA PoolApplied ==
    ASSUME PoolsInv, NEW op \in Rented!Ops, Rented!Apply(op)
    PROVE  PoolOn
<1> DEFINE route == IF op[1] = "route" THEN op[2] # "off" ELSE pool.route
           wait == IF op[1] = "wait" THEN op[2] ELSE pool.wait
           killed == IF op[1] = "kill" THEN op[2] = "on" ELSE pool.killed
           policy == IF op[1] = "policy" THEN op[2] ELSE pool.policy
<1>1. pool \in PoolSettings /\ (pool.older => pool.terms = "platform")
  BY DEF PoolsInv
<1>2. /\ pool.route \in Flags /\ pool.killed \in Flags
      /\ pool.wait \in Waits /\ pool.policy \in Policies
  BY <1>1 DEF PoolSettings
<1>3. route \in Flags
  <2>1. (op[2] # "off") \in Flags
    BY Zenon DEF Flags
  <2>2. QED
    BY <1>2, <2>1, Zenon
<1>4. killed \in Flags
  <2>1. (op[2] = "on") \in Flags
    BY Zenon DEF Flags
  <2>2. QED
    BY <1>2, <2>1, Zenon
<1>5. wait \in Waits
  <2>1. op[1] = "wait" => op[2] \in Waits
    BY DEF Rented!Ops, Waits
  <2>2. QED
    BY <1>2, <2>1, Zenon
<1>6. policy \in Policies
  <2>1. op[1] = "policy" => op[2] \in Policies
    BY DEF Rented!Ops, Policies
  <2>2. QED
    BY <1>2, <2>1, Zenon
<1>7. pool' = Set4(pool, route, wait, killed, policy)
  BY <1>1 DEF Rented!Apply, PoolSettings, Set4
<1> HIDE DEF route, wait, killed, policy
<1>8. /\ pool' \in PoolSettings /\ pool'.terms = pool.terms /\ pool'.older = pool.older
  <2>1. LET v == Set4(pool, route, wait, killed, policy)
        IN  v \in PoolSettings /\ v.terms = pool.terms /\ v.older = pool.older
    BY <1>1, <1>3, <1>4, <1>5, <1>6, PoolFields
  <2>2. QED
    BY <1>7, <2>1
<1>9. QED
  BY <1>1, <1>8 DEF PoolOn

LEMMA PoolsApply ==
    ASSUME PoolsInv, Rented!PoolsAssumption, NEW op \in Rented!Ops, Rented!Apply(op), minute' = minute
    PROVE  BurstOn /\ ActOn /\ PoolOn
<1>1. minute \in Int
  BY DEF PoolsInv, Rented!PoolsAssumption
<1>2. BurstOn
  <2>1. CASE op[1] = "burst"
    <3>1. op[2] \in {"approve", "reject", "read"} /\ burst' = Rented!DecideBurst(op[2])
      BY <2>1 DEF Rented!Ops, Rented!Apply
    <3>2. QED
      BY <3>1, BurstApplied
  <2>2. CASE op[1] # "burst"
    BY <1>1, <2>2, BurstStays DEF Rented!Apply
  <2>3. QED
    BY <2>1, <2>2
<1>3. ActOn
  <2>1. CASE op[1] = "act"
    <3>1. op[2] \in {"approve", "reject", "read"} /\ act' = Rented!Decide(act, op[2])
      BY <2>1 DEF Rented!Ops, Rented!Apply
    <3>2. QED
      BY <3>1, ActApplied
  <2>2. CASE op[1] # "act"
    BY <2>2, ActStays DEF Rented!Apply
  <2>3. QED
    BY <2>1, <2>2
<1>4. QED
  BY <1>2, <1>3, PoolApplied

LEMMA MinuteTyped ==
    ASSUME PoolsInv, Rented!PoolsAssumption
    PROVE  minute \in Int /\ minute >= 0 /\ ProposalLifetime \in Int
  BY DEF PoolsInv, Rented!PoolsAssumption

LEMMA TickKeeps ==
    ASSUME PoolsInv, Rented!PoolsAssumption, Rented!Tick
    PROVE  PoolsInv'
<1>1. minute' \in 0 .. ProposalLifetime + 1 /\ minute' \in Int /\ minute' >= minute
  BY MinuteTyped DEF Rented!Tick
<1>2. burst' = burst /\ act' = act /\ pool' = pool /\ callers' = callers /\ pending' = pending
  BY DEF Rented!Tick
<1>3. BurstOn /\ ActOn /\ PoolOn
  BY <1>1, <1>2, BurstStays, ActStays, PoolStays
<1>4. pending \subseteq Rented!Ops
  BY DEF PoolsInv
<1>5. QED
  BY <1>1, <1>2, <1>3, <1>4, PoolsMove

LEMMA BurstMovesKeeps ==
    ASSUME PoolsInv, Rented!PoolsAssumption, Rented!BurstMoves
    PROVE  PoolsInv'
<1>1. /\ burst \in Bursts /\ BurstSound(burst) /\ minute \in Int /\ minute >= 0
      /\ pending \subseteq Rented!Ops /\ minute \in 0 .. ProposalLifetime + 1
  BY MinuteTyped DEF PoolsInv
<1>2. /\ minute' = minute /\ act' = act /\ pool' = pool /\ callers' = callers /\ pending' = pending
  BY DEF Rented!BurstMoves
<1>3. burst.applied \in Int /\ burst.decided \in Int
  BY <1>1 DEF Bursts
<1>4. PICK state \in Rented!BurstStates, at \in Int :
          /\ burst' = BurstIn(burst, state, at)
          /\ \/ burst.state = "approved" /\ state = "applying" /\ at = burst.applied
             \/ burst.state \in {"approved", "applying"} /\ state = "no_op" /\ at = burst.applied
             \/ burst.state = "applying" /\ state = "applied" /\ at = minute
             \/ burst.state \in {"pending", "approved"} /\ state = "expired" /\ at = burst.applied
  <2>1. {"applying", "no_op", "applied", "expired"} \subseteq Rented!BurstStates
    BY DEF Rented!BurstStates
  <2>2. CASE burst.state = "applying" /\ burst' = [burst EXCEPT !.state = "applied", !.applied = minute]
    BY <1>1, <2>1, <2>2 DEF BurstIn
  <2>3. \A state : [burst EXCEPT !.state = state] = BurstIn(burst, state, burst.applied)
    BY <1>1 DEF Bursts, BurstIn
  <2>4. CASE burst.state = "approved" /\ burst' = [burst EXCEPT !.state = "applying"]
    BY <1>3, <2>1, <2>3, <2>4
  <2>5. CASE burst.state \in {"approved", "applying"} /\ burst' = [burst EXCEPT !.state = "no_op"]
    BY <1>3, <2>1, <2>3, <2>5
  <2>6. CASE burst.state \in {"pending", "approved"} /\ burst' = [burst EXCEPT !.state = "expired"]
    BY <1>3, <2>1, <2>3, <2>6
  <2>7. QED
    BY <2>2, <2>4, <2>5, <2>6 DEF Rented!BurstMoves
<1>5. PICK b \in Bursts : /\ b = burst' /\ b.state = state /\ b.applied = at
                          /\ b.priced = burst.priced /\ b.decided = burst.decided
  <2>1. LET v == BurstIn(burst, state, at)
        IN  /\ v \in Bursts /\ v.state = state /\ v.applied = at /\ v.priced = burst.priced
            /\ v.decided = burst.decided
    BY <1>1, BurstMoved
  <2>2. QED
    BY <1>4, <2>1, Zenon
<1>6. BurstSound(b)
  BY <1>1, <1>3, <1>4, <1>5 DEF BurstSound, Rented!BurstConsistent, Rented!Never
<1>7. BurstOn
  BY <1>2, <1>4, <1>5, <1>6 DEF BurstOn, BurstSound, Rented!BurstConsistent
<1>8. ActOn /\ PoolOn
  BY <1>2, ActStays, PoolStays
<1>9. QED
  BY <1>1, <1>2, <1>7, <1>8, PoolsMove

LEMMA ActMovesKeeps ==
    ASSUME PoolsInv, Rented!PoolsAssumption, Rented!ActMoves
    PROVE  PoolsInv'
<1>1. /\ act \in Acts /\ ActSound(act) /\ minute \in Int /\ minute >= 0
      /\ pending \subseteq Rented!Ops /\ minute \in 0 .. ProposalLifetime + 1
  BY MinuteTyped DEF PoolsInv
<1>2. /\ minute' = minute /\ burst' = burst /\ pool' = pool /\ callers' = callers
      /\ pending' = pending
  BY DEF Rented!ActMoves
<1>3. /\ act.recorded \in Int /\ act.decided \in Int /\ act.outcome \in ActOutcomes
      /\ act.source \in Sources /\ act.measured \in Flags
  BY <1>1 DEF Acts
<1>4. PICK state \in Rented!ActStates, at \in Int, measured \in Flags, outcome \in ActOutcomes,
           source \in Sources :
          /\ act' = ActIn(act, state, outcome, at, source, measured)
          /\ \/ /\ \/ act.state = "approved" /\ state \in {"applying", "no_op"}
                   \/ act.state = "applying" /\ state = "uncertain"
                   \/ act.state \in {"pending", "approved"} /\ state = "expired"
                /\ outcome = act.outcome /\ at = act.recorded /\ source = act.source
                /\ measured = act.measured
             \/ /\ act.state \in {"applying", "uncertain"} /\ state \in {"applied", "failed"}
                /\ outcome = state /\ at = minute /\ source = "server"
  <2>1. {"applying", "no_op", "uncertain", "expired", "applied", "failed"} \subseteq Rented!ActStates
    BY DEF Rented!ActStates, Rented!BurstStates
  <2>2. \A state : [act EXCEPT !.state = state]
                     = ActIn(act, state, act.outcome, act.recorded, act.source, act.measured)
    BY <1>1 DEF Acts, ActIn
  <2>3. CASE act.state = "approved" /\ act' = [act EXCEPT !.state = "applying"]
    BY <1>3, <2>1, <2>2, <2>3
  <2>4. CASE act.state = "approved" /\ act' = [act EXCEPT !.state = "no_op"]
    BY <1>3, <2>1, <2>2, <2>4
  <2>5. CASE act.state = "applying" /\ act' = [act EXCEPT !.state = "uncertain"]
    BY <1>3, <2>1, <2>2, <2>5
  <2>6. CASE act.state \in {"pending", "approved"} /\ act' = [act EXCEPT !.state = "expired"]
    BY <1>3, <2>1, <2>2, <2>6
  <2>7. CASE /\ act.state \in {"applying", "uncertain"}
             /\ \E result \in {"applied", "failed"}, measured \in BOOLEAN :
                  act' = [act EXCEPT !.state = result, !.outcome = result, !.recorded = minute,
                                     !.source = "server", !.measured = measured]
    <3>1. PICK result \in {"applied", "failed"}, measured \in Flags :
              act' = ActIn(act, result, result, minute, "server", measured)
      BY <2>7, Zenon DEF ActIn, Flags
    <3>2. result \in ActOutcomes /\ "server" \in Sources
      BY DEF ActOutcomes, Sources
    <3>3. QED
      BY <1>1, <2>1, <2>7, <3>1, <3>2
  <2>8. QED
    BY <2>3, <2>4, <2>5, <2>6, <2>7 DEF Rented!ActMoves
<1>5. PICK a \in Acts : /\ a = act' /\ a.state = state /\ a.decided = act.decided
                        /\ a.outcome = outcome /\ a.recorded = at /\ a.source = source
                        /\ a.measured = measured
  <2>1. LET v == ActIn(act, state, outcome, at, source, measured)
        IN  /\ v \in Acts /\ v.state = state /\ v.decided = act.decided /\ v.outcome = outcome
            /\ v.recorded = at /\ v.source = source /\ v.measured = measured
    BY <1>1, ActFinished
  <2>2. QED
    BY <1>4, <2>1, Zenon
<1>6. ActSound(a)
  BY <1>1, <1>3, <1>4, <1>5
     DEF ActSound, Rented!ActConsistent, Rented!OutcomeConsistent, Rented!Never
<1>7. ActOn
  <2>1. act.state \in {"pending", "rejected"} \/ a.state \notin {"pending", "rejected"}
    BY <1>4, <1>5
  <2>2. act.state # "rejected"
    BY <1>4
  <2>3. QED
    BY <1>5, <1>6, <2>1, <2>2 DEF ActOn, ActSound, Rented!ActConsistent, Rented!OutcomeConsistent
<1>8. BurstOn /\ PoolOn
  BY <1>1, <1>2, BurstStays, PoolStays
<1>9. QED
  BY <1>1, <1>2, <1>7, <1>8, PoolsMove

LEMMA TermsChangeKeeps ==
    ASSUME PoolsInv, Rented!PoolsAssumption, Rented!TermsChange
    PROVE  PoolsInv'
<1>1. /\ minute' = minute /\ burst' = burst /\ act' = act /\ callers' = callers
      /\ pending' = pending
  BY DEF Rented!TermsChange
<1>2. /\ minute \in Int /\ minute >= 0 /\ pending \subseteq Rented!Ops
      /\ minute \in 0 .. ProposalLifetime + 1 /\ pool \in PoolSettings
  BY MinuteTyped DEF PoolsInv
<1>3. PoolOn
  <2>1. PICK terms \in Rented!Terms : pool' = [pool EXCEPT !.terms = terms]
    BY DEF Rented!TermsChange
  <2>2. pool' \in PoolSettings /\ pool'.older = pool.older
    BY <1>2, <2>1 DEF PoolSettings
  <2>3. ~pool.older
    BY DEF Rented!TermsChange
  <2>4. QED
    BY <2>2, <2>3, Zenon DEF PoolOn
<1>4. BurstOn /\ ActOn
  BY <1>1, <1>2, BurstStays, ActStays
<1>5. QED
  BY <1>1, <1>2, <1>3, <1>4, PoolsMove

LEMMA AppliedLateKeeps ==
    ASSUME PoolsInv, Rented!PoolsAssumption, Rented!AppliedLate
    PROVE  PoolsInv'
<1>1. pending \subseteq Rented!Ops /\ minute \in 0 .. ProposalLifetime + 1
  BY DEF PoolsInv
<1>2. PICK op \in Rented!Ops : Rented!Apply(op) /\ pending' = pending \ {op}
  BY <1>1 DEF Rented!AppliedLate
<1>3. minute' = minute /\ callers' = callers
  BY DEF Rented!AppliedLate
<1>4. BurstOn /\ ActOn /\ PoolOn
  BY <1>2, <1>3, PoolsApply
<1>5. QED
  BY <1>1, <1>2, <1>3, <1>4, PoolsMove

LEMMA CallerTyped ==
    ASSUME PoolsInv, NEW c \in Rented!Callers
    PROVE  callers[c] \in PoolCalls /\ CallSound(callers[c])
  BY DEF PoolsInv

\* A step of one caller that leaves the server as it is.
LEMMA CallerMoves ==
    ASSUME PoolsInv, Rented!PoolsAssumption, NEW c \in Rented!Callers, NEW v \in PoolCalls,
           CallSound(v), callers' = [callers EXCEPT ![c] = v],
           minute' = minute, burst' = burst, act' = act, pool' = pool, pending' \subseteq Rented!Ops
    PROVE  PoolsInv'
<1>1. minute \in 0 .. ProposalLifetime + 1 /\ minute \in Int
  BY MinuteTyped DEF PoolsInv
<1>2. BurstOn /\ ActOn /\ PoolOn
  BY <1>1, BurstStays, ActStays, PoolStays
<1>3. CallSound(v)'
  BY DEF CallSound, ToldSound
<1>4. QED
  BY <1>1, <1>2, <1>3, PoolsMove

LEMMA ArrivesKeeps ==
    ASSUME PoolsInv, Rented!PoolsAssumption, NEW c \in Rented!Callers, Rented!Arrives(c)
    PROVE  PoolsInv'
<1>1. pending \subseteq Rented!Ops /\ minute \in 0 .. ProposalLifetime + 1
  BY DEF PoolsInv
<1>2. minute' = minute /\ pending' = pending /\ callers[c].pc = "sent" /\ Rented!Apply(callers[c].op)
  BY DEF Rented!Arrives
<1>3. PICK op \in Rented!Ops : op = callers[c].op
  BY <1>2, CallerTyped DEF CallSound
<1>4. BurstOn /\ ActOn /\ PoolOn
  BY <1>2, <1>3, PoolsApply
<1>5. callers' = [callers EXCEPT ![c] = CallIn(callers[c], "applied")]
  BY DEF Rented!Arrives, CallIn
<1>6. PICK v \in PoolCalls : v = CallIn(callers[c], "applied") /\ v.pc = "applied" /\ v.op = op
  <2>1. "applied" \in Pcs
    BY DEF Pcs
  <2>2. LET v == CallIn(callers[c], "applied")
        IN v \in PoolCalls /\ v.pc = "applied" /\ v.op = callers[c].op
    BY <2>1, CallerTyped, CallFields
  <2>3. QED
    BY <1>3, <2>2, Zenon
<1>7. CallSound(v)'
  BY <1>6 DEF CallSound
<1>8. QED
  BY <1>1, <1>2, <1>4, <1>5, <1>6, <1>7, PoolsMove

LEMMA BeginsKeeps ==
    ASSUME PoolsInv, Rented!PoolsAssumption, NEW c \in Rented!Callers, Rented!Begins(c)
    PROVE  PoolsInv'
<1>1. pending \subseteq Rented!Ops /\ callers[c] \in PoolCalls /\ callers \in [Rented!Callers -> PoolCalls]
  BY CallerTyped DEF PoolsInv
<1>2. PICK op \in Rented!Ops :
          callers' = [callers EXCEPT ![c] = [pc |-> "sent", op |-> op, held |-> FALSE,
                                             n |-> callers[c].n + 1]]
  BY <1>1 DEF Rented!Begins
<1>3. PICK v : v = [pc |-> "sent", op |-> op, held |-> FALSE, n |-> callers[c].n + 1]
  OBVIOUS
<1>4. v \in PoolCalls
  <2>1. callers[c].n + 1 \in 0 .. MaxPoolCalls
    BY <1>1 DEF PoolCalls, Rented!PoolsAssumption, Rented!Begins
  <2>2. "sent" \in Pcs /\ FALSE \in Flags
    BY DEF Pcs, Flags
  <2>3. QED
    BY <1>3, <2>1, <2>2 DEF PoolCalls
<1>5. v.pc = "sent" /\ v.op = op
  BY <1>3
<1>6. CallSound(v)
  BY <1>5 DEF CallSound
<1>7. QED
  BY <1>1, <1>2, <1>3, <1>4, <1>6, CallerMoves DEF Rented!Begins

LEMMA FailsKeeps ==
    ASSUME PoolsInv, Rented!PoolsAssumption, NEW c \in Rented!Callers,
           Rented!Refused(c) \/ Rented!Unanswered(c)
    PROVE  PoolsInv'
<1>1. /\ pending \subseteq Rented!Ops /\ callers[c] \in PoolCalls /\ CallSound(callers[c])
      /\ callers \in [Rented!Callers -> PoolCalls]
  BY CallerTyped DEF PoolsInv
<1>2. /\ minute' = minute /\ burst' = burst /\ act' = act /\ pool' = pool
      /\ callers[c].pc \in {"sent", "applied"}
  BY DEF Rented!Refused, Rented!Unanswered
<1>3. pending' \subseteq Rented!Ops
  BY <1>1 DEF Rented!Refused, Rented!Unanswered, CallSound
<1>4. callers' = [callers EXCEPT ![c] = CallIn(callers[c], "raised")]
  BY DEF Rented!Refused, Rented!Unanswered, CallIn
<1>5. PICK v \in PoolCalls : v = CallIn(callers[c], "raised") /\ v.pc = "raised"
  <2>1. "raised" \in Pcs
    BY DEF Pcs
  <2>2. LET v == CallIn(callers[c], "raised") IN v \in PoolCalls /\ v.pc = "raised"
    BY <1>1, <2>1, CallFields
  <2>3. QED
    BY <2>2, Zenon
<1>6. CallSound(v)
  BY <1>5 DEF CallSound
<1>7. QED
  BY <1>2, <1>3, <1>4, <1>5, <1>6, CallerMoves

\* What can be asked for.
LEMMA OpsAre ==
    ASSUME NEW op \in Rented!Ops
    PROVE  /\ op = <<op[1], op[2]>>
           /\ \/ op[1] \in {"burst", "act"} /\ op[2] \in {"approve", "reject", "read"}
              \/ op[1] = "route" /\ op[2] \in {"platform", "byoc", "private", "off"}
              \/ op[1] = "wait" /\ op[2] \in {"never", "cheaper"}
              \/ op[1] = "kill" /\ op[2] \in {"on", "off"}
              \/ op[1] = "policy" /\ op[2] \in {"recommend", "auto"}
  BY DEF Rented!Ops, Rented!Terms

\* The record that an answer shows can be read.
LEMMA AlwaysReadable ==
    ASSUME PoolsInv, NEW op
    PROVE  Rented!Readable(op)
  BY DEF PoolsInv, BurstSound, ActSound, Rented!Readable

LEMMA SettingsConfirmed ==
    ASSUME PoolsInv, NEW op \in Rented!Ops, op[1] \in {"wait", "kill", "policy"}
    PROVE  /\ Rented!Holds(op) = Rented!SettingConfirmed(op)
           /\ Rented!Confirmed(op) = Rented!SettingConfirmed(op)
           /\ Rented!SettingConfirmed(op) \in BOOLEAN
<1>1. op[1] = "wait" \/ op[1] = "kill" \/ op[1] = "policy"
  OBVIOUS
<1>2. op[2] # "read" /\ op[1] \notin {"burst", "act", "route"}
  BY OpsAre
<1>3. /\ op # <<"burst", "approve">> /\ op # <<"burst", "reject">> /\ op # <<"act", "approve">>
      /\ op # <<"act", "reject">> /\ op # <<"route", "off">>
  BY <1>2
<1>4. Rented!Holds(op) = Rented!SettingConfirmed(op)
  BY <1>2, <1>3, Zenon DEF Rented!Holds
<1>5. Rented!Confirmed(op) = Rented!SettingConfirmed(op)
  BY <1>2, Zenon DEF Rented!Confirmed
<1>6. Rented!SettingConfirmed(op) \in BOOLEAN
  <2>1. CASE op[1] = "wait"
    <3>1. Rented!SettingConfirmed(op) = (pool.wait = op[2])
      BY <2>1 DEF Rented!SettingConfirmed
    <3>2. QED
      BY <3>1, Zenon
  <2>2. CASE op[1] = "kill"
    <3>1. Rented!SettingConfirmed(op) = (pool.killed = (op[2] = "on"))
      BY <2>2 DEF Rented!SettingConfirmed
    <3>2. QED
      BY <3>1, Zenon
  <2>3. CASE op[1] = "policy"
    <3>1. Rented!SettingConfirmed(op) = (pool.policy = op[2])
      BY <2>3 DEF Rented!SettingConfirmed
    <3>2. QED
      BY <3>1, Zenon
  <2>4. QED
    BY <1>1, <2>1, <2>2, <2>3
<1>7. QED
  BY <1>4, <1>5, <1>6

\* What an answer confirms is so, and a decision it confirms is final.
LEMMA ConfirmedIsSo ==
    ASSUME PoolsInv, NEW op \in Rented!Ops
    PROVE  /\ Rented!Holds(op) \in BOOLEAN
           /\ Rented!Confirmed(op) =>
                 /\ Rented!Holds(op)
                 /\ op = <<"burst", "approve">> => burst.priced
                 /\ op = <<"burst", "reject">> => burst.state = "rejected"
                 /\ op = <<"act", "approve">> => act.state \notin {"pending", "rejected"}
                 /\ op = <<"act", "reject">> => act.state = "rejected"
<1>1. op = <<op[1], op[2]>>
  BY OpsAre
<1>2. burst.priced \in BOOLEAN /\ pool.route \in BOOLEAN
  BY Zenon DEF PoolsInv, Bursts, PoolSettings, Flags
<1>3. CASE op[2] = "read"
  <2>1. Rented!Holds(op) = TRUE
    BY <1>3, OpsAre DEF Rented!Holds
  <2>2. QED
    BY <1>3, <2>1
<1>4. CASE op = <<"burst", "approve">>
  <2>1. Rented!Holds(op) = burst.priced
    BY <1>4 DEF Rented!Holds
  <2>2. Rented!Confirmed(op) => burst.state \in {"approved", "applying", "applied"}
    BY <1>4 DEF Rented!Confirmed, Rented!BurstConfirmed
  <2>3. Rented!Confirmed(op) => burst.priced
    BY <2>2 DEF PoolsInv, BurstSound, Rented!BurstConsistent
  <2>4. QED
    BY <1>2, <1>4, <2>1, <2>3
<1>5. CASE op = <<"burst", "reject">>
  <2>1. Rented!Holds(op) = (burst.state = "rejected")
    BY <1>5 DEF Rented!Holds
  <2>2. Rented!Confirmed(op) => burst.state = "rejected"
    BY <1>5 DEF Rented!Confirmed, Rented!BurstConfirmed
  <2>3. QED
    BY <1>5, <2>1, <2>2
<1>6. CASE op = <<"act", "approve">>
  <2>1. Rented!Holds(op) = (act.decided # Rented!Never /\ act.state # "rejected")
    BY <1>6 DEF Rented!Holds
  <2>2. Rented!Confirmed(op) => act.state \in {"approved", "applying", "uncertain", "applied"}
    BY <1>6 DEF Rented!Confirmed, Rented!ActConfirmed
  <2>3. Rented!Confirmed(op) => act.decided # Rented!Never
    BY <2>2 DEF PoolsInv, ActSound
  <2>4. QED
    BY <1>6, <2>1, <2>2, <2>3
<1>7. CASE op = <<"act", "reject">>
  <2>1. Rented!Holds(op) = (act.state = "rejected")
    BY <1>7 DEF Rented!Holds
  <2>2. Rented!Confirmed(op) => act.state = "rejected"
    BY <1>7 DEF Rented!Confirmed, Rented!ActConfirmed
  <2>3. QED
    BY <1>7, <2>1, <2>2
<1>8. CASE op = <<"route", "off">>
  <2>1. Rented!Holds(op) = ~pool.route
    BY <1>8 DEF Rented!Holds
  <2>2. Rented!Confirmed(op) => ~pool.route
    BY <1>8 DEF Rented!Confirmed, Rented!RouteConfirmed
  <2>3. QED
    BY <1>8, <2>1, <2>2
<1>9. CASE op[1] = "route" /\ op[2] \in Rented!Terms
  <2>1. op[2] # "read" /\ op[2] # "off"
    BY <1>9 DEF Rented!Terms
  <2>2. Rented!Holds(op) = (pool.route /\ pool.terms = op[2])
    BY <1>1, <1>9, <2>1 DEF Rented!Holds
  <2>3. Rented!Confirmed(op) = Rented!RouteConfirmed(op[2])
    BY <1>9, <2>1 DEF Rented!Confirmed
  <2>4. Rented!RouteConfirmed(op[2]) => pool.route /\ pool.terms = op[2]
    BY <2>1 DEF PoolsInv, Rented!RouteConfirmed, Rented!Older
  <2>5. Rented!Holds(op) \in BOOLEAN
    BY <2>2, Zenon
  <2>6. Rented!Confirmed(op) => Rented!Holds(op)
    BY <2>2, <2>3, <2>4, Zenon
  <2>7. QED
    BY <1>9, <2>5, <2>6
<1>10. CASE op[1] \in {"wait", "kill", "policy"}
  <2>1. Rented!Holds(op) = Rented!SettingConfirmed(op) /\ Rented!SettingConfirmed(op) \in BOOLEAN
    BY <1>10, SettingsConfirmed
  <2>2. Rented!Confirmed(op) = Rented!SettingConfirmed(op)
    BY <1>10, SettingsConfirmed
  <2>3. QED
    BY <1>10, <2>1, <2>2
<1>11. QED
  <2>1. \/ op[2] = "read"
        \/ op[1] \in {"burst", "act"} /\ op[2] \in {"approve", "reject"}
        \/ op[1] = "route" /\ op[2] = "off"
        \/ op[1] = "route" /\ op[2] \in Rented!Terms
        \/ op[1] \in {"wait", "kill", "policy"}
    BY OpsAre DEF Rented!Terms
  <2>2. op[1] \in {"burst", "act"} /\ op[2] \in {"approve", "reject"} =>
            \/ op = <<"burst", "approve">> \/ op = <<"burst", "reject">>
            \/ op = <<"act", "approve">> \/ op = <<"act", "reject">>
    BY <1>1
  <2>3. op[1] = "route" /\ op[2] = "off" => op = <<"route", "off">>
    BY <1>1
  <2>4. QED
    BY <1>3, <1>4, <1>5, <1>6, <1>7, <1>8, <1>9, <1>10, <2>1, <2>2, <2>3

LEMMA AnsweredKeeps ==
    ASSUME PoolsInv, Rented!PoolsAssumption, NEW c \in Rented!Callers, Rented!Answered(c)
    PROVE  PoolsInv'
<1>1. /\ pending \subseteq Rented!Ops /\ callers[c] \in PoolCalls /\ CallSound(callers[c])
      /\ callers \in [Rented!Callers -> PoolCalls]
  BY CallerTyped DEF PoolsInv
<1>2. /\ minute' = minute /\ burst' = burst /\ act' = act /\ pool' = pool /\ pending' = pending
      /\ callers[c].pc = "applied"
  BY DEF Rented!Answered
<1>3. PICK op \in Rented!Ops : op = callers[c].op
  BY <1>1, <1>2 DEF CallSound
<1>4. PICK pc \in Pcs : pc = IF Rented!Confirmed(op) THEN "returned" ELSE "raised"
  BY DEF Pcs
<1>5. PICK held \in Flags : held = Rented!Holds(op)
  BY ConfirmedIsSo, Zenon DEF Flags
<1>6. callers' = [callers EXCEPT ![c] = CallTold(callers[c], pc, held)]
  <2>1. Rented!Readable(op)
    BY AlwaysReadable
  <2>2. callers' = [callers EXCEPT ![c].pc = pc, ![c].held = held]
    BY <1>3, <1>4, <1>5, <2>1, Zenon DEF Rented!Answered
  <2>3. QED
    BY <1>1, <2>2 DEF CallTold
<1>7. PICK v \in PoolCalls : /\ v = CallTold(callers[c], pc, held) /\ v.pc = pc /\ v.held = held
                             /\ v.op = op
  <2>1. LET v == CallTold(callers[c], pc, held)
        IN v \in PoolCalls /\ v.pc = pc /\ v.held = held /\ v.op = callers[c].op
    BY <1>1, CallAnswered
  <2>2. QED
    BY <1>3, <2>1, Zenon
<1>8. CallSound(v)
  <2>1. v.pc # "refused" /\ v.pc \notin {"sent", "applied"}
    BY <1>4, <1>7
  <2>2. ASSUME v.pc = "returned" PROVE ToldSound(v)
    <3>1. Rented!Confirmed(op)
      BY <1>4, <1>7, <2>2
    <3>2. v.held = Rented!Holds(op) /\ v.op = op
      BY <1>5, <1>7
    <3>3. v.held
      BY <3>1, <3>2, ConfirmedIsSo, Zenon
    <3>4. QED
      BY <3>1, <3>2, <3>3, ConfirmedIsSo DEF ToldSound
  <2>3. QED
    BY <2>1, <2>2 DEF CallSound
<1>9. QED
  BY <1>1, <1>2, <1>6, <1>7, <1>8, CallerMoves

LEMMA PoolsInit == Rented!PoolsAssumption /\ Rented!Init => PoolsInv
<1> SUFFICES ASSUME Rented!PoolsAssumption, Rented!Init PROVE PoolsInv
  OBVIOUS
<1>1. minute \in 0 .. ProposalLifetime + 1 /\ pending \subseteq Rented!Ops
  BY DEF Rented!Init, Rented!PoolsAssumption
<1>2. pool \in PoolSettings /\ (pool.older => pool.terms = "platform")
  <2>1. PICK terms \in Rented!Terms, older \in Flags :
            /\ older => Rented!Older(terms)
            /\ pool = [terms |-> terms, route |-> FALSE, wait |-> "never", killed |-> FALSE,
                       policy |-> "recommend", older |-> older]
    BY Zenon DEF Rented!Init, Flags
  <2>2. FALSE \in Flags /\ "never" \in Waits /\ "recommend" \in Policies
    BY DEF Flags, Waits, Policies
  <2>3. pool \in PoolSettings
    BY <2>1, <2>2 DEF PoolSettings
  <2>4. pool.older = older /\ pool.terms = terms
    BY <2>1
  <2>5. QED
    BY <2>1, <2>3, <2>4 DEF Rented!Older
<1>3. burst \in Bursts /\ BurstSound(burst)
  BY DEF Rented!Init, Bursts, BurstSound, Flags, Rented!BurstConsistent, Rented!BurstStates,
         Rented!Never
<1>4. act \in Acts /\ ActSound(act)
  BY DEF Rented!Init, Acts, ActSound, Flags, ActOutcomes, Sources, Rented!ActConsistent,
         Rented!BurstStates, Rented!ActStates, Rented!Never
<1>5. callers \in [Rented!Callers -> PoolCalls] /\ \A c \in Rented!Callers : CallSound(callers[c])
  <2>1. PICK k : k = [pc |-> "idle", op |-> Rented!NoOp, held |-> FALSE, n |-> 0]
    OBVIOUS
  <2>2. k \in PoolCalls /\ CallSound(k)
    BY <2>1 DEF PoolCalls, Pcs, Flags, CallSound, Rented!PoolsAssumption
  <2>3. callers = [c \in Rented!Callers |-> k]
    BY <2>1 DEF Rented!Init
  <2>4. QED
    BY <2>2, <2>3
<1>6. QED
  BY <1>1, <1>2, <1>3, <1>4, <1>5 DEF PoolsInv

LEMMA PoolsPreserved ==
    ASSUME PoolsInv, Rented!PoolsAssumption, [Rented!Next]_(Rented!vars)
    PROVE  PoolsInv'
<1>1. CASE UNCHANGED Rented!vars
  <2>1. /\ minute' = minute /\ burst' = burst /\ act' = act /\ pool' = pool /\ callers' = callers
        /\ pending' = pending
    BY <1>1 DEF Rented!vars
  <2>2. minute \in 0 .. ProposalLifetime + 1 /\ minute \in Int /\ pending \subseteq Rented!Ops
    BY MinuteTyped DEF PoolsInv
  <2>3. BurstOn /\ ActOn /\ PoolOn
    BY <2>1, <2>2, BurstStays, ActStays, PoolStays
  <2>4. QED
    BY <2>1, <2>2, <2>3, PoolsMove
<1>2. CASE Rented!Tick
  BY <1>2, TickKeeps
<1>3. CASE Rented!BurstMoves
  BY <1>3, BurstMovesKeeps
<1>4. CASE Rented!ActMoves
  BY <1>4, ActMovesKeeps
<1>5. CASE Rented!TermsChange
  BY <1>5, TermsChangeKeeps
<1>6. CASE Rented!AppliedLate
  BY <1>6, AppliedLateKeeps
<1>7. ASSUME NEW c \in Rented!Callers, Rented!Call(c) \/ Rented!AsyncCall(c)
      PROVE  PoolsInv'
  BY <1>7, BeginsKeeps DEF Rented!Call, Rented!AsyncCall
<1>8. ASSUME NEW c \in Rented!Callers, Rented!Arrives(c)
      PROVE  PoolsInv'
  BY <1>8, ArrivesKeeps
<1>9. ASSUME NEW c \in Rented!Callers, Rented!Answered(c)
      PROVE  PoolsInv'
  BY <1>9, AnsweredKeeps
<1>10. ASSUME NEW c \in Rented!Callers, Rented!Refused(c) \/ Rented!Unanswered(c)
       PROVE  PoolsInv'
  BY <1>10, FailsKeeps
<1>11. QED
  BY <1>1, <1>2, <1>3, <1>4, <1>5, <1>6, <1>7, <1>8, <1>9, <1>10 DEF Rented!Next

LEMMA PoolsAgree ==
    ASSUME PoolsInv
    PROVE  Rented!ConfirmedHeld /\ Rented!DecisionsAgree /\ Rented!RecordsReadable
<1>1. \A c \in Rented!Callers : CallSound(callers[c])
  BY DEF PoolsInv
<1>2. ~burst.priced \/ burst.state # "rejected"
  BY DEF PoolsInv, BurstSound, Rented!BurstConsistent
<1>3. Rented!ConfirmedHeld
  BY <1>1 DEF Rented!ConfirmedHeld, CallSound, ToldSound
<1>4. Rented!DecisionsAgree
  BY <1>1, <1>2 DEF Rented!DecisionsAgree, CallSound, ToldSound
<1>5. Rented!RecordsReadable
  BY <1>1 DEF Rented!RecordsReadable, CallSound
<1>6. QED
  BY <1>3, <1>4, <1>5

\* What is confirmed holds, nobody is told that a proposal is rejected when another was
\* told that it is approved, and no record is refused.
THEOREM PoolsSound ==
    ASSUME Rented!PoolsAssumption
    PROVE  Rented!Spec =>
               [](Rented!ConfirmedHeld /\ Rented!DecisionsAgree /\ Rented!RecordsReadable)
<1>1. Rented!Init => PoolsInv
  BY PoolsInit
<1>2. PoolsInv /\ [Rented!Next]_(Rented!vars) => PoolsInv'
  BY PoolsPreserved
<1>3. PoolsInv => Rented!ConfirmedHeld /\ Rented!DecisionsAgree /\ Rented!RecordsReadable
  BY PoolsAgree
<1>4. QED
  BY <1>1, <1>2, <1>3, PTL DEF Rented!Spec

-----------------------------------------------------------------------------
(* Snapshots.  From the listing of a name on, its file is the one listed   *)
(* as long as its directory has not changed, and its content as long as    *)
(* its version has not; so a workspace that is not refused is the tree of  *)
(* the moment when its listing ended.                                      *)

\* File f has been packed, or passed because it was not there.
Packed1(c, f) ==
    IF c.mode = "workspace" THEN c.pc \in {"check", "packed"} \/ (c.pc \in {"open", "read"} /\ f < c.at)
    ELSE f < c.at

\* The whole tree is listed.
AllListed(c) == c.mode = "workspace" /\ c.pc \in {"open", "read", "check", "packed"}

\* Where a packing is.
Placed(c) ==
    /\ c.pc \in {"enter", "list", "open", "read", "check"} => c.at \in {1, 2}
    /\ c.pc = "check" => c.mode = "workspace"
    /\ c.pc = "packed" => c.at = 3

\* What was read of a file, and what was found of it.
ReadSound(c, f) ==
    /\ Packed1(c, f) /\ c.listed[f] # Packed!Gone =>
          c.first[f] = c.second[f] /\ \E m \in moments : m[f] = c.first[f]
    /\ c.pc = "read" /\ c.at = f =>
          /\ c.first[f] # Packed!Gone /\ \E m \in moments : m[f] = c.first[f]
          /\ c.mode = "workspace" => c.first[f] = c.listed[f]
    /\ c.mode = "workspace" /\ Packed1(c, f) => c.first[f] = c.listed[f]
    /\ c.mode = "workspace" /\ ~Packed1(c, f) /\ ~(c.pc = "read" /\ c.at = f) =>
          c.first[f] = Packed!Gone
    /\ c.listed[f] # Packed!Gone => c.listed[f].version <= version[c.listed[f].inode]

\* The root's names have changed since the packing began, which the last look at it shows.
RootChanged(c) == c.begun[1] < changed[1] /\ c.pc # "packed" /\ ~(c.pc = "check" /\ c.at = 2)

\* The root's file was written after it was listed, which its copy shows.
RootWritten(c) ==
    /\ c.listed[1] # Packed!Gone /\ c.listed[1].version < version[c.listed[1].inode]
    /\ ~Packed1(c, 1)

\* What is known of a packing that was not refused.
PackSound(c) ==
    /\ \A d \in Packed!Directories : c.begun[d] <= changed[d]
    /\ c.pc # "refused" =>
          /\ Placed(c) /\ \A f \in Packed!Files : ReadSound(c, f)
          /\ c.mode = "workspace" /\ c.pc \in {"enter", "list"} /\ c.at = 2 =>
                tree[1] = c.listed[1].inode \/ c.begun[1] < changed[1]
          /\ AllListed(c) =>
                \E m \in moments : /\ m[2] = c.listed[2]
                                   /\ m[1] = c.listed[1] \/ RootChanged(c) \/ RootWritten(c)

EditNumbers == 0 .. MaxTreeEdits
InodeNames == 0 .. 2 + MaxTreeEdits
Modes == {"workspace", "project"}
PackPcs == {"enter", "list", "open", "read", "check", "packed", "refused"}
PackCalls == [mode : Modes, at : 1 .. 3, pc : PackPcs, begun : [Packed!Directories -> EditNumbers],
              listed : [Packed!Files -> Packed!Identity], first : [Packed!Files -> Packed!Identity],
              second : [Packed!Files -> Packed!Identity]]

SnapshotInv ==
    /\ tree \in [Packed!Files -> InodeNames] /\ aside \in [Packed!Files -> InodeNames]
    /\ version \in [Packed!Inodes -> EditNumbers] /\ edits \in EditNumbers
    /\ changed \in [Packed!Directories -> EditNumbers]
    /\ moments \subseteq [Packed!Files -> Packed!Identity]
    /\ \A i \in Packed!Inodes : version[i] <= edits
    /\ \A f \in Packed!Files : changed[f] <= edits /\ tree[f] <= 2 + edits /\ aside[f] <= 2 + edits
    /\ Packed!Whole(tree, version) \in moments
    /\ pack \in PackCalls /\ PackSound(pack)

LEMMA Identities ==
    ASSUME NEW x \in Packed!Identity, Packed!SnapshotsAssumption
    PROVE  /\ x.inode \in InodeNames /\ x.version \in EditNumbers /\ x.version \in Int
           /\ x # Packed!Gone => x.inode \in Packed!Inodes
           /\ x = Packed!Gone => x.inode = 0
           /\ x = [inode |-> x.inode, version |-> x.version]
  BY DEF Packed!Identity, Packed!Gone, Packed!Inodes, InodeNames, EditNumbers, Packed!SnapshotsAssumption

\* What is found under a name.
LEMMA Found ==
    ASSUME NEW t \in [Packed!Files -> InodeNames], NEW v \in [Packed!Inodes -> EditNumbers],
           NEW f \in Packed!Files, Packed!SnapshotsAssumption
    PROVE  LET x == Packed!Whole(t, v)[f]
           IN  /\ x \in Packed!Identity
               /\ t[f] = 0 => x = Packed!Gone
               /\ t[f] # 0 => /\ x = [inode |-> t[f], version |-> v[t[f]]] /\ x # Packed!Gone
                              /\ x.inode = t[f] /\ x.version = v[t[f]] /\ t[f] \in Packed!Inodes
               /\ x.inode = t[f]
<1>1. t[f] # 0 => t[f] \in Packed!Inodes
  BY DEF InodeNames, Packed!Inodes, Packed!SnapshotsAssumption
<1>2. Packed!Whole(t, v)[f] = IF t[f] = 0 THEN Packed!Gone
                              ELSE [inode |-> t[f], version |-> v[t[f]]]
  BY DEF Packed!Whole
<1>3. CASE t[f] = 0
  BY <1>2, <1>3 DEF Packed!Identity, Packed!Gone
<1>4. CASE t[f] # 0
  <2>1. PICK x : x = [inode |-> t[f], version |-> v[t[f]]]
    OBVIOUS
  <2>2. x \in Packed!Identity /\ x.inode = t[f] /\ x.version = v[t[f]] /\ x # Packed!Gone
    BY <1>1, <1>4, <2>1 DEF Packed!Identity, Packed!Gone, EditNumbers, Packed!Inodes
  <2>3. QED
    BY <1>1, <1>2, <1>4, <2>1, <2>2
<1>5. QED
  BY <1>3, <1>4

LEMMA WholeTyped ==
    ASSUME NEW t \in [Packed!Files -> InodeNames], NEW v \in [Packed!Inodes -> EditNumbers],
           Packed!SnapshotsAssumption
    PROVE  Packed!Whole(t, v) \in [Packed!Files -> Packed!Identity]
<1>1. \A f \in Packed!Files : Packed!Whole(t, v)[f] \in Packed!Identity
  BY Found
<1>2. QED
  BY <1>1 DEF Packed!Whole

\* lstat of a name, and of an inode.
LEMMA StatIs ==
    ASSUME SnapshotInv
    PROVE  /\ \A f \in Packed!Files : Packed!Stat(tree[f]) = Packed!Whole(tree, version)[f]
           /\ \A i \in Packed!Inodes : Packed!Stat(i) = [inode |-> i, version |-> version[i]]
  BY DEF SnapshotInv, Packed!Stat, Packed!Whole, Packed!Inodes

\* The user's edits never take a version back, and show in a directory whose names change.
LEMMA EditKeeps ==
    ASSUME SnapshotInv, Packed!SnapshotsAssumption,
           edits' \in EditNumbers, edits' = edits + 1, pack' = pack,
           tree' \in [Packed!Files -> InodeNames], aside' \in [Packed!Files -> InodeNames],
           version' \in [Packed!Inodes -> EditNumbers], changed' \in [Packed!Directories -> EditNumbers],
           \A i \in Packed!Inodes : version[i] <= version'[i] /\ version'[i] <= edits',
           \A f \in Packed!Files : /\ changed[f] <= changed'[f] /\ changed'[f] <= edits'
                                   /\ tree'[f] <= 2 + edits' /\ aside'[f] <= 2 + edits'
                                   /\ tree'[f] = tree[f] \/ changed[f] < changed'[f],
           moments' = moments \cup {Packed!Whole(tree', version')}
    PROVE  SnapshotInv'
<1>1. moments' \subseteq [Packed!Files -> Packed!Identity] /\ Packed!Whole(tree', version') \in moments'
  BY WholeTyped DEF SnapshotInv
<1>2. pack \in PackCalls /\ PackSound(pack) /\ moments \subseteq moments'
  BY DEF SnapshotInv
<1>3. /\ 1 \in Packed!Files /\ 2 \in Packed!Files /\ 1 \in Packed!Directories
      /\ Packed!Files = Packed!Directories
  BY DEF Packed!Files, Packed!Directories
<1>4. /\ \A d \in Packed!Directories : /\ pack.begun[d] \in Int /\ changed[d] \in Int
                                       /\ changed'[d] \in Int
      /\ \A i \in Packed!Inodes : version[i] \in Int /\ version'[i] \in Int
  BY <1>2 DEF SnapshotInv, PackCalls, EditNumbers
<1>5. \A f \in Packed!Files : /\ pack.listed[f] \in Packed!Identity /\ pack.listed[f].version \in Int
                              /\ pack.listed[f] # Packed!Gone =>
                                    pack.listed[f].inode \in Packed!Inodes
  BY <1>2, Identities DEF PackCalls
<1>6. \A d \in Packed!Directories : pack.begun[d] <= changed'[d]
  BY <1>2, <1>3, <1>4 DEF PackSound
<1>7. ASSUME pack.pc # "refused", NEW f \in Packed!Files PROVE ReadSound(pack, f)'
  <2>1. ReadSound(pack, f)
    BY <1>2, <1>7 DEF PackSound
  <2>2. pack.listed[f] # Packed!Gone =>
           pack.listed[f].version <= version'[pack.listed[f].inode]
    BY <1>4, <1>5, <2>1 DEF ReadSound
  <2>3. QED
    BY <1>2, <2>1, <2>2 DEF ReadSound, Packed1
<1>8. ASSUME pack.pc # "refused", AllListed(pack)
      PROVE  \E m \in moments' : /\ m[2] = pack.listed[2]
                                 /\ m[1] = pack.listed[1] \/ RootChanged(pack)' \/ RootWritten(pack)'
  <2>1. PICK m \in moments : /\ m[2] = pack.listed[2]
                             /\ m[1] = pack.listed[1] \/ RootChanged(pack) \/ RootWritten(pack)
    BY <1>2, <1>8 DEF PackSound
  <2>2. RootChanged(pack) => RootChanged(pack)'
    BY <1>3, <1>4 DEF RootChanged
  <2>3. RootWritten(pack) => RootWritten(pack)'
    BY <1>3, <1>4, <1>5 DEF RootWritten, Packed1
  <2>4. QED
    BY <1>2, <2>1, <2>2, <2>3
<1>9. tree[1] = pack.listed[1].inode \/ pack.begun[1] < changed[1] =>
         tree'[1] = pack.listed[1].inode \/ pack.begun[1] < changed'[1]
  BY <1>2, <1>3, <1>4 DEF PackSound
<1>10. PackSound(pack)'
  BY <1>2, <1>6, <1>7, <1>8, <1>9 DEF PackSound, Placed, AllListed
<1>11. QED
  BY <1>1, <1>2, <1>10 DEF SnapshotInv

\* What a step of the packing makes of its call has to be sound.
LEMMA PackKeeps ==
    ASSUME SnapshotInv, Packed!Working, NEW c \in PackCalls, pack' = c, PackSound(c)
    PROVE  SnapshotInv'
<1>1. PackSound(c)'
  BY DEF Packed!Working, PackSound, Placed, ReadSound, Packed1, AllListed, RootChanged, RootWritten
<1>2. PackSound(pack)'
  BY <1>1 DEF PackSound, Placed, ReadSound, Packed1, AllListed, RootChanged, RootWritten
<1>3. QED
  BY <1>2 DEF SnapshotInv, Packed!Working

LEMMA WritesKeeps ==
    ASSUME SnapshotInv, Packed!SnapshotsAssumption, Packed!Edits,
           Packed!Writes \/ Packed!Saves \/ Packed!MovesAside \/ Packed!MovesBack
    PROVE  SnapshotInv'
<1>1. /\ edits < MaxTreeEdits /\ edits' = edits + 1 /\ pack' = pack
      /\ moments' = moments \cup {Packed!Whole(tree', version')}
  BY DEF Packed!Edits
<1>2. /\ tree \in [Packed!Files -> InodeNames] /\ aside \in [Packed!Files -> InodeNames]
      /\ version \in [Packed!Inodes -> EditNumbers] /\ changed \in [Packed!Directories -> EditNumbers]
      /\ edits \in Nat /\ MaxTreeEdits \in Nat /\ edits' \in EditNumbers
      /\ \A i \in Packed!Inodes : version[i] <= edits /\ version[i] \in Nat
      /\ \A f \in Packed!Files : /\ changed[f] <= edits /\ tree[f] <= 2 + edits
                                 /\ aside[f] <= 2 + edits /\ changed[f] \in Nat /\ tree[f] \in Nat
                                 /\ aside[f] \in Nat
  BY <1>1 DEF SnapshotInv, EditNumbers, InodeNames, Packed!SnapshotsAssumption, Packed!Files, Packed!Directories
<1>3. Packed!Files = Packed!Directories
  BY DEF Packed!Files, Packed!Directories
<1>4. edits + 1 \in EditNumbers /\ 3 + edits \in InodeNames /\ 3 + edits \in Packed!Inodes /\ 0 \in InodeNames
  BY <1>1, <1>2 DEF EditNumbers, InodeNames, Packed!Inodes
<1>5. ASSUME NEW f \in Packed!Files, Packed!Renames(f)
      PROVE  /\ changed' \in [Packed!Directories -> EditNumbers] /\ changed[f] < changed'[f]
             /\ \A g \in Packed!Files : changed[g] <= changed'[g] /\ changed'[g] <= edits'
  <2>1. changed' = [changed EXCEPT ![f] = changed[f] + 1]
    BY <1>2, <1>3, <1>5 DEF Packed!Renames
  <2>2. changed[f] + 1 \in EditNumbers
    BY <1>1, <1>2 DEF EditNumbers
  <2>3. QED
    BY <1>1, <1>2, <1>3, <2>1, <2>2
<1>6. CASE Packed!Writes
  <2>1. PICK f \in Packed!Files : tree[f] # 0 /\ version' = [version EXCEPT ![tree[f]] = edits + 1]
    BY <1>6 DEF Packed!Writes
  <2>2. tree' = tree /\ aside' = aside /\ changed' = changed
    BY <1>6 DEF Packed!Writes
  <2>3. version' \in [Packed!Inodes -> EditNumbers]
    BY <1>2, <1>4, <2>1
  <2>4. \A i \in Packed!Inodes : version[i] <= version'[i] /\ version'[i] <= edits'
    BY <1>1, <1>2, <2>1
  <2>5. \A g \in Packed!Files : /\ changed[g] <= changed'[g] /\ changed'[g] <= edits'
                                /\ tree'[g] <= 2 + edits' /\ aside'[g] <= 2 + edits'
    BY <1>1, <1>2, <2>2
  <2>6. QED
    BY <1>1, <1>2, <2>2, <2>3, <2>4, <2>5, EditKeeps
<1>7. CASE Packed!Saves
  <2>1. PICK f \in Packed!Files : Packed!Renames(f) /\ tree' = [tree EXCEPT ![f] = 3 + edits]
    BY <1>7 DEF Packed!Saves
  <2>2. version' = [version EXCEPT ![3 + edits] = edits + 1] /\ aside' = aside
    BY <1>7 DEF Packed!Saves
  <2>3. version' \in [Packed!Inodes -> EditNumbers] /\ tree' \in [Packed!Files -> InodeNames]
    BY <1>2, <1>4, <2>1, <2>2
  <2>4. \A i \in Packed!Inodes : version[i] <= version'[i] /\ version'[i] <= edits'
    BY <1>1, <1>2, <2>2
  <2>5. \A g \in Packed!Files : /\ tree'[g] <= 2 + edits' /\ aside'[g] <= 2 + edits'
                                /\ tree'[g] = tree[g] \/ g = f
    BY <1>1, <1>2, <2>1, <2>2
  <2>6. QED
    BY <1>1, <1>2, <1>5, <2>1, <2>2, <2>3, <2>4, <2>5, EditKeeps
<1>8. CASE Packed!MovesAside
  <2>1. PICK f \in Packed!Files :
            /\ Packed!Renames(f) /\ tree' = [tree EXCEPT ![f] = 0]
            /\ aside' = [aside EXCEPT ![f] = tree[f]]
    BY <1>8 DEF Packed!MovesAside
  <2>2. version' = version
    BY <1>8 DEF Packed!MovesAside
  <2>3. aside' \in [Packed!Files -> InodeNames] /\ tree' \in [Packed!Files -> InodeNames]
    BY <1>2, <1>4, <2>1
  <2>4. \A i \in Packed!Inodes : version[i] <= version'[i] /\ version'[i] <= edits'
    BY <1>1, <1>2, <2>2
  <2>5. \A g \in Packed!Files : /\ tree'[g] <= 2 + edits' /\ aside'[g] <= 2 + edits'
                                /\ tree'[g] = tree[g] \/ g = f
    BY <1>1, <1>2, <2>1
  <2>6. QED
    BY <1>1, <1>2, <1>5, <2>1, <2>2, <2>3, <2>4, <2>5, EditKeeps
<1>9. CASE Packed!MovesBack
  <2>1. PICK f \in Packed!Files :
            /\ Packed!Renames(f) /\ tree' = [tree EXCEPT ![f] = aside[f]]
            /\ aside' = [aside EXCEPT ![f] = 0]
    BY <1>9 DEF Packed!MovesBack
  <2>2. version' = version
    BY <1>9 DEF Packed!MovesBack
  <2>3. aside' \in [Packed!Files -> InodeNames] /\ tree' \in [Packed!Files -> InodeNames]
    BY <1>2, <1>4, <2>1
  <2>4. \A i \in Packed!Inodes : version[i] <= version'[i] /\ version'[i] <= edits'
    BY <1>1, <1>2, <2>2
  <2>5. \A g \in Packed!Files : /\ tree'[g] <= 2 + edits' /\ aside'[g] <= 2 + edits'
                                /\ tree'[g] = tree[g] \/ g = f
    BY <1>1, <1>2, <2>1
  <2>6. QED
    BY <1>1, <1>2, <1>5, <2>1, <2>2, <2>3, <2>4, <2>5, EditKeeps
<1>10. QED
  BY <1>6, <1>7, <1>8, <1>9

\* What holds before a step of the packing.
LEMMA PackTyped ==
    ASSUME SnapshotInv, Packed!SnapshotsAssumption
    PROVE  /\ pack \in PackCalls /\ PackSound(pack)
           /\ moments \subseteq [Packed!Files -> Packed!Identity]
           /\ 1 \in Packed!Files /\ 2 \in Packed!Files /\ Packed!Directories = Packed!Files
           /\ \A f \in Packed!Files : /\ f \in {1, 2} /\ changed[f] \in Int
                                      /\ Packed!Whole(tree, version)[f] \in Packed!Identity
                                      /\ Packed!Stat(tree[f]) = Packed!Whole(tree, version)[f]
           /\ Packed!Whole(tree, version) \in moments
  BY Found, StatIs DEF SnapshotInv, Packed!Files, Packed!Directories, EditNumbers

LEMMA RefuseKeeps ==
    ASSUME SnapshotInv, Packed!SnapshotsAssumption, Packed!Working, Packed!Refuse
    PROVE  SnapshotInv'
<1>1. pack \in PackCalls /\ PackSound(pack)
  BY PackTyped
<1>2. PICK c : c = pack'
  OBVIOUS
<1>3. c \in PackCalls /\ c.pc = "refused" /\ c.begun = pack.begun
  BY <1>1, <1>2 DEF Packed!Refuse, PackCalls, PackPcs
<1>4. PackSound(c)
  BY <1>1, <1>3 DEF PackSound
<1>5. QED
  BY <1>2, <1>3, <1>4, PackKeeps

LEMMA EnterKeeps ==
    ASSUME SnapshotInv, Packed!SnapshotsAssumption, Packed!Enter
    PROVE  SnapshotInv'
<1>1. pack \in PackCalls /\ PackSound(pack) /\ pack.pc = "enter" /\ Packed!Working
  BY PackTyped DEF Packed!Enter
<1>2. CASE Packed!Refuse
  BY <1>1, <1>2, RefuseKeeps
<1>3. CASE pack' = [pack EXCEPT !.pc = "list"]
  <2>1. PICK c : c = pack'
    OBVIOUS
  <2>2. /\ c \in PackCalls /\ c.pc = "list" /\ c.mode = pack.mode /\ c.at = pack.at
        /\ c.begun = pack.begun /\ c.listed = pack.listed /\ c.first = pack.first
        /\ c.second = pack.second
    BY <1>1, <1>3, <2>1 DEF PackCalls, PackPcs
  <2>3. PackSound(c)
    BY <1>1, <2>2 DEF PackSound, Placed, ReadSound, Packed1, AllListed
  <2>4. QED
    BY <1>1, <2>1, <2>2, <2>3, PackKeeps
<1>4. QED
  BY <1>2, <1>3 DEF Packed!Enter

\* Calls with some fields changed.
PackAt(c, pc, at) == [c EXCEPT !.pc = pc, !.at = at]
PackFound(c, listed, begun) == [c EXCEPT !.listed = listed, !.begun = begun]

LEMMA PackAtFields ==
    ASSUME NEW c \in PackCalls, NEW pc \in PackPcs, NEW at \in 1 .. 3
    PROVE  LET v == PackAt(c, pc, at)
           IN  /\ v \in PackCalls /\ v.pc = pc /\ v.at = at /\ v.mode = c.mode /\ v.begun = c.begun
               /\ v.listed = c.listed /\ v.first = c.first /\ v.second = c.second
  BY DEF PackCalls, PackAt

LEMMA PackFoundFields ==
    ASSUME NEW c \in PackCalls, NEW listed \in [Packed!Files -> Packed!Identity],
           NEW begun \in [Packed!Directories -> EditNumbers]
    PROVE  LET v == PackFound(c, listed, begun)
           IN  /\ v \in PackCalls /\ v.pc = c.pc /\ v.at = c.at /\ v.mode = c.mode /\ v.begun = begun
               /\ v.listed = listed /\ v.first = c.first /\ v.second = c.second
  BY DEF PackCalls, PackFound

LEMMA ListKeeps ==
    ASSUME SnapshotInv, Packed!SnapshotsAssumption, Packed!List
    PROVE  SnapshotInv'
<1>1. pack \in PackCalls /\ PackSound(pack) /\ pack.pc = "list" /\ Packed!Working
  BY PackTyped DEF Packed!List
<1>2. pack.at \in Packed!Files /\ Placed(pack) /\ \A f \in Packed!Files : ReadSound(pack, f)
  BY <1>1 DEF PackSound, Placed, Packed!Files
<1>3. PICK whole \in [Packed!Files -> Packed!Identity] : whole = Packed!Whole(tree, version)
  BY PackTyped
<1>4. PICK x \in Packed!Identity : x = Packed!Stat(tree[pack.at]) /\ x = whole[pack.at]
  BY <1>2, <1>3, PackTyped
<1>5. /\ x.inode = tree[pack.at] /\ x.version \in Int
      /\ x # Packed!Gone => x.version = version[x.inode] /\ x.inode \in Packed!Inodes
  <2>1. tree \in [Packed!Files -> InodeNames] /\ version \in [Packed!Inodes -> EditNumbers]
    BY DEF SnapshotInv
  <2>2. x = Packed!Whole(tree, version)[pack.at]
    BY <1>3, <1>4
  <2>3. /\ x.inode = tree[pack.at]
        /\ tree[pack.at] = 0 => x = Packed!Gone
        /\ tree[pack.at] # 0 => x.version = version[tree[pack.at]] /\ tree[pack.at] \in Packed!Inodes
    BY <1>2, <2>1, <2>2, Found
  <2>4. x.version \in Int
    BY Identities
  <2>5. QED
    BY <2>3, <2>4
<1>6. changed \in [Packed!Directories -> EditNumbers] /\ pack.begun \in [Packed!Directories -> EditNumbers]
  BY <1>1 DEF SnapshotInv, PackCalls
<1>7. PICK begun \in [Packed!Directories -> EditNumbers] :
          begun = [pack.begun EXCEPT ![2] = IF pack.at = 1 THEN changed[2] ELSE pack.begun[2]]
  BY <1>6 DEF Packed!Directories
<1>8. /\ \A d \in Packed!Directories : begun[d] <= changed[d]
      /\ begun[1] = pack.begun[1]
  BY <1>1, <1>6, <1>7 DEF PackSound, Packed!Directories, EditNumbers
<1>9. PICK listed \in [Packed!Files -> Packed!Identity] :
          listed = [pack.listed EXCEPT ![pack.at] = x]
  BY <1>1, <1>4 DEF PackCalls
<1>10. \A f \in Packed!Files : listed[f] = IF f = pack.at THEN x ELSE pack.listed[f]
  BY <1>1, <1>9 DEF PackCalls
<1>11. PICK found \in PackCalls :
          /\ found = PackFound(pack, listed, begun)
          /\ found.mode = pack.mode /\ found.pc = "list" /\ found.at = pack.at
          /\ found.begun = begun /\ found.listed = listed /\ found.first = pack.first
          /\ found.second = pack.second
  <2>1. LET v == PackFound(pack, listed, begun)
        IN  /\ v \in PackCalls /\ v.pc = pack.pc /\ v.at = pack.at /\ v.mode = pack.mode
            /\ v.begun = begun /\ v.listed = listed /\ v.first = pack.first
            /\ v.second = pack.second
    BY <1>1, PackFoundFields
  <2>2. QED
    BY <1>1, <2>1, Zenon
<1>12. pack' = IF pack.mode = "project" THEN [found EXCEPT !.pc = "open"]
               ELSE IF pack.at = 1 THEN [found EXCEPT !.pc = "enter", !.at = 2]
               ELSE [found EXCEPT !.pc = "open", !.at = 1]
  <2>1. found = [pack EXCEPT !.listed[pack.at] = Packed!Stat(tree[pack.at]),
                             !.begun[2] = IF pack.at = 1 THEN changed[2] ELSE pack.begun[2]]
    BY <1>1, <1>4, <1>7, <1>9, <1>11 DEF PackCalls, PackFound
  <2>2. QED
    BY <1>1, <2>1, Zenon DEF Packed!List
<1>13. PICK c : c = pack'
  OBVIOUS
<1>14. /\ c.mode = pack.mode /\ c.begun = begun /\ c.listed = listed
       /\ c.first = pack.first /\ c.second = pack.second /\ c \in PackCalls
       /\ IF pack.mode = "project" THEN c.pc = "open" /\ c.at = pack.at
          ELSE IF pack.at = 1 THEN c.pc = "enter" /\ c.at = 2
          ELSE c.pc = "open" /\ c.at = 1
  <2>1. CASE pack.mode = "project"
    <3>1. c = [found EXCEPT !.pc = "open"]
      BY <1>12, <1>13, <2>1
    <3>2. QED
      BY <1>11, <2>1, <3>1 DEF PackCalls, PackPcs
  <2>2. CASE pack.mode # "project" /\ pack.at = 1
    <3>1. c = PackAt(found, "enter", 2)
      BY <1>12, <1>13, <2>2, Zenon DEF PackAt
    <3>2. "enter" \in PackPcs /\ 2 \in 1 .. 3
      BY DEF PackPcs
    <3>3. QED
      BY <1>11, <2>2, <3>1, <3>2, PackAtFields
  <2>3. CASE pack.mode # "project" /\ pack.at # 1
    <3>1. c = PackAt(found, "open", 1)
      BY <1>12, <1>13, <2>3, Zenon DEF PackAt
    <3>2. "open" \in PackPcs /\ 1 \in 1 .. 3
      BY DEF PackPcs
    <3>3. QED
      BY <1>11, <2>3, <3>1, <3>2, PackAtFields
  <2>4. QED
    BY <2>1, <2>2, <2>3
<1>15. Placed(c)
  BY <1>2, <1>14 DEF Placed, Packed!Files
<1>16. pack.mode = "workspace" \/ pack.mode = "project"
  BY <1>1 DEF PackCalls, Modes
<1>17. ASSUME NEW f \in Packed!Files PROVE ReadSound(c, f)
  <2>1. Packed1(c, f) => Packed1(pack, f) /\ f # pack.at
    BY <1>1, <1>14, <1>16, <1>17 DEF Packed1, Packed!Files
  <2>2. ReadSound(pack, f)
    BY <1>2
  <2>3. listed[f] # Packed!Gone => listed[f].version <= version[listed[f].inode]
    BY <1>5, <1>10, <2>2 DEF ReadSound
  <2>4. c.mode = "workspace" => ~Packed1(pack, f)
    BY <1>1, <1>14 DEF Packed1
  <2>5. Packed1(c, f) => c.listed[f] = pack.listed[f]
    BY <1>10, <1>14, <2>1
  <2>6. c.pc # "read"
    BY <1>14, <1>16
  <2>7. QED
    BY <1>1, <1>14, <2>1, <2>2, <2>3, <2>4, <2>5, <2>6 DEF ReadSound
<1>18. c.mode = "workspace" /\ c.pc \in {"enter", "list"} /\ c.at = 2 =>
          tree[1] = c.listed[1].inode \/ c.begun[1] < changed[1]
  BY <1>2, <1>5, <1>10, <1>14, <1>16 DEF Packed!Files
<1>19. ASSUME AllListed(c)
       PROVE  \E m \in moments : /\ m[2] = c.listed[2]
                                 /\ m[1] = c.listed[1] \/ RootChanged(c) \/ RootWritten(c)
  <2>1. pack.mode = "workspace" /\ pack.at = 2 /\ c.pc = "open" /\ c.at = 1
    BY <1>2, <1>14, <1>16, <1>19 DEF AllListed, Packed!Files
  <2>2. whole[2] = c.listed[2]
    BY <1>2, <1>4, <1>10, <1>14, <2>1
  <2>3. c.listed[1] = pack.listed[1] /\ pack.listed[1] \in Packed!Identity
    BY <1>1, <1>10, <1>14, <2>1, PackTyped DEF PackCalls
  <2>4. tree[1] = pack.listed[1].inode \/ pack.begun[1] < changed[1]
    BY <1>1, <2>1 DEF PackSound
  <2>5. CASE pack.begun[1] < changed[1]
    BY <1>3, <1>8, <1>14, <2>1, <2>2, <2>5, PackTyped DEF RootChanged
  <2>6. CASE tree[1] = pack.listed[1].inode
    <3>1. 1 \in Packed!Files
      BY PackTyped
    <3>2. CASE pack.listed[1] = Packed!Gone
      <4>1. tree[1] = 0
        BY <2>3, <2>6, <3>2, Identities
      <4>2. whole[1] = c.listed[1]
        BY <1>3, <2>3, <3>1, <3>2, <4>1, Found DEF SnapshotInv
      <4>3. QED
        BY <1>3, <2>2, <4>2, PackTyped
    <3>3. CASE pack.listed[1] # Packed!Gone
      <4>1. /\ pack.listed[1].inode \in Packed!Inodes /\ pack.listed[1].version \in Int
            /\ pack.listed[1] = [inode |-> pack.listed[1].inode, version |-> pack.listed[1].version]
        BY <2>3, <3>3, Identities
      <4>2. tree[1] # 0
        BY <2>6, <4>1 DEF Packed!Inodes
      <4>3. whole[1] = [inode |-> tree[1], version |-> version[tree[1]]]
        BY <1>3, <3>1, <4>2, Found DEF SnapshotInv
      <4>4. pack.listed[1].version <= version[tree[1]] /\ version[tree[1]] \in Int
        BY <1>2, <2>6, <3>1, <3>3, <4>1 DEF ReadSound, SnapshotInv, EditNumbers
      <4>5. CASE pack.listed[1].version = version[tree[1]]
        <5>1. whole[1] = c.listed[1]
          BY <2>3, <2>6, <4>1, <4>3, <4>5
        <5>2. QED
          BY <1>3, <2>2, <5>1, PackTyped
      <4>6. CASE pack.listed[1].version < version[tree[1]]
        <5>1. RootWritten(c)
          BY <2>1, <2>3, <2>6, <3>3, <4>6 DEF RootWritten, Packed1
        <5>2. QED
          BY <1>3, <2>2, <5>1, PackTyped
      <4>7. QED
        BY <4>1, <4>4, <4>5, <4>6
    <3>4. QED
      BY <3>2, <3>3
  <2>7. QED
    BY <2>4, <2>5, <2>6
<1>20. PackSound(c)
  BY <1>8, <1>14, <1>15, <1>17, <1>18, <1>19 DEF PackSound
<1>21. QED
  BY <1>1, <1>13, <1>14, <1>20, PackKeeps

\* The next of the files, or what comes after them.
LEMMA AfterIs ==
    ASSUME SnapshotInv, Packed!SnapshotsAssumption, pack.pc \in {"open", "read"}
    PROVE  /\ pack.at \in {1, 2} /\ pack.mode \in Modes
           /\ Packed!After(pack.at).at = IF pack.at = 1 THEN 2
                                         ELSE IF pack.mode = "workspace" THEN 1 ELSE 3
           /\ Packed!After(pack.at).pc =
                 IF pack.at = 1 THEN IF pack.mode = "workspace" THEN "open" ELSE "enter"
                 ELSE IF pack.mode = "workspace" THEN "check" ELSE "packed"
<1>1. pack.at \in {1, 2} /\ pack.mode \in Modes
  BY PackTyped DEF PackSound, Placed, PackCalls
<1>2. CASE pack.at = 1
  BY <1>1, <1>2 DEF Packed!After
<1>3. CASE pack.at = 2
  BY <1>1, <1>3 DEF Packed!After
<1>4. QED
  BY <1>1, <1>2, <1>3

\* The packing goes on to what comes next: what it has packed by then is sound.
LEMMA Passes ==
    ASSUME SnapshotInv, Packed!SnapshotsAssumption, Packed!Working, pack.pc \in {"open", "read"},
           NEW c \in PackCalls, pack' = c,
           c.mode = pack.mode, c.begun = pack.begun, c.listed = pack.listed, c.first = pack.first,
           c.at = Packed!After(pack.at).at, c.pc = Packed!After(pack.at).pc,
           \A f \in Packed!Files : f # pack.at => c.second[f] = pack.second[f],
           c.listed[pack.at] # Packed!Gone =>
              /\ c.first[pack.at] = c.second[pack.at]
              /\ \E m \in moments : m[pack.at] = c.first[pack.at],
           pack.mode = "workspace" => c.first[pack.at] = c.listed[pack.at],
           pack.mode = "workspace" /\ pack.at = 1 => ~RootWritten(pack)
    PROVE  SnapshotInv'
<1>1. pack \in PackCalls /\ PackSound(pack) /\ \A f \in Packed!Files : f \in {1, 2}
  BY PackTyped
<1>2. pack.at \in {1, 2} /\ pack.mode \in {"workspace", "project"}
  BY AfterIs DEF Modes
<1>3. /\ c.at = IF pack.at = 1 THEN 2 ELSE IF pack.mode = "workspace" THEN 1 ELSE 3
      /\ c.pc = IF pack.at = 1 THEN IF pack.mode = "workspace" THEN "open" ELSE "enter"
                ELSE IF pack.mode = "workspace" THEN "check" ELSE "packed"
  BY AfterIs
<1>4. Placed(c) /\ c.pc # "read"
  BY <1>2, <1>3 DEF Placed
<1>5. ASSUME NEW f \in Packed!Files PROVE ReadSound(c, f)
  <2>1. ReadSound(pack, f) /\ f \in {1, 2}
    BY <1>1, PackTyped DEF PackSound
  <2>2. Packed1(c, f) <=> Packed1(pack, f) \/ f = pack.at
    BY <1>2, <1>3, <2>1 DEF Packed1
  <2>3. CASE f = pack.at
    BY <1>4, <2>1, <2>2, <2>3 DEF ReadSound
  <2>4. CASE f # pack.at
    BY <1>4, <2>1, <2>2, <2>4 DEF ReadSound
  <2>5. QED
    BY <2>3, <2>4
<1>6. ~(c.mode = "workspace" /\ c.pc \in {"enter", "list"})
  BY <1>2, <1>3
<1>7. ASSUME AllListed(c)
      PROVE  \E m \in moments : /\ m[2] = c.listed[2]
                                /\ m[1] = c.listed[1] \/ RootChanged(c) \/ RootWritten(c)
  <2>1. AllListed(pack) /\ pack.mode = "workspace"
    BY <1>7 DEF AllListed
  <2>2. PICK m \in moments : /\ m[2] = pack.listed[2]
                             /\ m[1] = pack.listed[1] \/ RootChanged(pack) \/ RootWritten(pack)
    BY <1>1, <2>1 DEF PackSound
  <2>3. ~RootWritten(pack)
    BY <1>2, <2>1 DEF RootWritten, Packed1
  <2>4. RootChanged(pack) => RootChanged(c)
    BY <1>2, <1>3, <2>1 DEF RootChanged
  <2>5. QED
    BY <2>2, <2>3, <2>4
<1>8. PackSound(c)
  BY <1>1, <1>4, <1>5, <1>6, <1>7 DEF PackSound
<1>9. QED
  BY <1>8, PackKeeps

PackRead(c, second, pc, at) == [c EXCEPT !.second = second, !.pc = pc, !.at = at]
PackOpened(c, first) == [c EXCEPT !.pc = "read", !.first = first]

LEMMA PackReadFields ==
    ASSUME NEW c \in PackCalls, NEW second \in [Packed!Files -> Packed!Identity],
           NEW pc \in PackPcs, NEW at \in 1 .. 3
    PROVE  LET v == PackRead(c, second, pc, at)
           IN  /\ v \in PackCalls /\ v.pc = pc /\ v.at = at /\ v.mode = c.mode /\ v.begun = c.begun
               /\ v.listed = c.listed /\ v.first = c.first /\ v.second = second
  BY DEF PackCalls, PackRead

LEMMA PackOpenedFields ==
    ASSUME NEW c \in PackCalls, NEW first \in [Packed!Files -> Packed!Identity]
    PROVE  LET v == PackOpened(c, first)
           IN  /\ v \in PackCalls /\ v.pc = "read" /\ v.at = c.at /\ v.mode = c.mode
               /\ v.begun = c.begun /\ v.listed = c.listed /\ v.first = first /\ v.second = c.second
  BY DEF PackCalls, PackOpened, PackPcs

LEMMA SkipKeeps ==
    ASSUME SnapshotInv, Packed!SnapshotsAssumption, Packed!Skip
    PROVE  SnapshotInv'
<1>1. /\ pack \in PackCalls /\ PackSound(pack) /\ pack.pc = "open" /\ Packed!Working
      /\ pack.listed[pack.at] = Packed!Gone
  BY PackTyped DEF Packed!Skip
<1>2. /\ pack.at \in {1, 2} /\ pack.mode \in {"workspace", "project"} /\ pack.at \in Packed!Files
  BY <1>1, AfterIs DEF Modes, Packed!Files
<1>3. Packed!After(pack.at).pc \in PackPcs /\ Packed!After(pack.at).at \in 1 .. 3
  BY <1>1, AfterIs DEF PackPcs
<1>4. pack' = PackAt(pack, Packed!After(pack.at).pc, Packed!After(pack.at).at)
  BY <1>1 DEF Packed!Skip, PackAt, PackCalls
<1>5. PICK c \in PackCalls :
          /\ c = pack' /\ c.pc = Packed!After(pack.at).pc /\ c.at = Packed!After(pack.at).at
          /\ c.mode = pack.mode /\ c.begun = pack.begun /\ c.listed = pack.listed
          /\ c.first = pack.first /\ c.second = pack.second
  BY <1>1, <1>3, <1>4, PackAtFields
<1>6. ReadSound(pack, pack.at)
  BY <1>1, <1>2 DEF PackSound
<1>7. pack.mode = "workspace" => c.first[pack.at] = c.listed[pack.at]
  BY <1>1, <1>2, <1>5, <1>6 DEF ReadSound, Packed1
<1>8. pack.at = 1 => ~RootWritten(pack)
  BY <1>1 DEF RootWritten
<1>9. c.listed[pack.at] = Packed!Gone /\ pack.pc \in {"open", "read"}
  BY <1>1, <1>5
<1>10. \A f \in Packed!Files : c.second[f] = pack.second[f]
  BY <1>5
<1>11. QED
  BY <1>1, <1>5, <1>7, <1>8, <1>9, <1>10, Passes

LEMMA OpenKeeps ==
    ASSUME SnapshotInv, Packed!SnapshotsAssumption, Packed!Open
    PROVE  SnapshotInv'
<1>1. /\ pack \in PackCalls /\ PackSound(pack) /\ pack.pc = "open" /\ Packed!Working
      /\ pack.listed[pack.at] # Packed!Gone
  BY PackTyped DEF Packed!Open
<1>2. /\ pack.at \in {1, 2} /\ pack.mode \in {"workspace", "project"} /\ pack.at \in Packed!Files
  BY <1>1, AfterIs DEF Modes, Packed!Files
<1>3. PICK now \in Packed!Identity :
          now = Packed!Stat(tree[pack.at]) /\ now = Packed!Whole(tree, version)[pack.at]
  BY <1>2, PackTyped
<1>4. CASE ~Packed!Opens(pack.listed[pack.at], now)
  <2>1. Packed!Refuse
    BY <1>3, <1>4 DEF Packed!Open
  <2>2. QED
    BY <1>1, <2>1, RefuseKeeps
<1>5. CASE Packed!Opens(pack.listed[pack.at], now)
  <2>1. now # Packed!Gone /\ (pack.mode = "workspace" => now = pack.listed[pack.at])
    BY <1>1, <1>5 DEF Packed!Opens
  <2>2. PICK first \in [Packed!Files -> Packed!Identity] : first = [pack.first EXCEPT ![pack.at] = now]
    BY <1>1 DEF PackCalls
  <2>3. \A f \in Packed!Files : first[f] = IF f = pack.at THEN now ELSE pack.first[f]
    BY <1>1, <2>2 DEF PackCalls
  <2>4. pack' = PackOpened(pack, first)
    <3>1. pack' = [pack EXCEPT !.pc = "read", !.first[pack.at] = now]
      BY <1>3, <1>5 DEF Packed!Open
    <3>2. QED
      BY <1>1, <2>2, <3>1 DEF PackOpened, PackCalls
  <2>5. PICK c \in PackCalls :
            /\ c = pack' /\ c.pc = "read" /\ c.at = pack.at /\ c.mode = pack.mode
            /\ c.begun = pack.begun /\ c.listed = pack.listed /\ c.first = first
            /\ c.second = pack.second
    BY <1>1, <2>2, <2>4, PackOpenedFields
  <2>6. ASSUME NEW f \in Packed!Files PROVE ReadSound(c, f)
    <3>1. ReadSound(pack, f)
      BY <1>1 DEF PackSound
    <3>2. Packed1(c, f) <=> Packed1(pack, f)
      BY <1>1, <1>2, <2>5 DEF Packed1
    <3>3. CASE f = pack.at
      <4>1. ~Packed1(c, f)
        BY <1>2, <2>5, <3>3, PackTyped DEF Packed1
      <4>2. \E m \in moments : m[f] = c.first[f]
        BY <1>3, <2>3, <2>5, <3>3, PackTyped
      <4>3. QED
        BY <2>1, <2>3, <2>5, <3>1, <3>3, <4>1, <4>2 DEF ReadSound
    <3>4. CASE f # pack.at
      BY <1>1, <2>3, <2>5, <3>1, <3>2, <3>4 DEF ReadSound
    <3>5. QED
      BY <3>3, <3>4
  <2>7. AllListed(c) => AllListed(pack)
    BY <1>1, <2>5 DEF AllListed
  <2>8. /\ RootChanged(pack) => RootChanged(c)
        /\ RootWritten(pack) => RootWritten(c)
    BY <1>1, <1>2, <2>5 DEF RootChanged, RootWritten, Packed1
  <2>9. Placed(c)
    BY <1>2, <2>5 DEF Placed
  <2>10. AllListed(c) =>
            \E m \in moments : /\ m[2] = c.listed[2]
                               /\ m[1] = c.listed[1] \/ RootChanged(c) \/ RootWritten(c)
    <3>1. AllListed(pack) =>
            \E m \in moments : /\ m[2] = pack.listed[2]
                               /\ m[1] = pack.listed[1] \/ RootChanged(pack) \/ RootWritten(pack)
      BY <1>1 DEF PackSound
    <3>2. QED
      BY <2>5, <2>7, <2>8, <3>1
  <2>11. PackSound(c)
    BY <1>1, <2>5, <2>6, <2>9, <2>10 DEF PackSound
  <2>12. QED
    BY <1>1, <2>5, <2>11, PackKeeps
<1>6. QED
  BY <1>4, <1>5

LEMMA ReadKeeps ==
    ASSUME SnapshotInv, Packed!SnapshotsAssumption, Packed!Read
    PROVE  SnapshotInv'
<1>1. pack \in PackCalls /\ PackSound(pack) /\ pack.pc = "read" /\ Packed!Working
  BY PackTyped DEF Packed!Read
<1>2. /\ pack.at \in {1, 2} /\ pack.mode \in {"workspace", "project"} /\ pack.at \in Packed!Files
  BY <1>1, AfterIs DEF Modes, Packed!Files
<1>3. ReadSound(pack, pack.at)
  BY <1>1, <1>2 DEF PackSound
<1>4. PICK before \in Packed!Identity : before = pack.first[pack.at]
  BY <1>1, <1>2 DEF PackCalls
<1>5. /\ before # Packed!Gone /\ \E m \in moments : m[pack.at] = before
      /\ pack.mode = "workspace" => before = pack.listed[pack.at]
  BY <1>1, <1>3, <1>4 DEF ReadSound
<1>6. before.inode \in Packed!Inodes /\ before.version \in Int
  BY <1>5, Identities
<1>7. PICK now : now = Packed!Stat(before.inode)
  OBVIOUS
<1>8. now = [inode |-> before.inode, version |-> version[before.inode]]
  BY <1>6, <1>7, StatIs
<1>9. CASE ~Packed!ReadWhole(before, now)
  <2>1. Packed!Refuse
    BY <1>4, <1>7, <1>9 DEF Packed!Read
  <2>2. QED
    BY <1>1, <2>1, RefuseKeeps
<1>10. CASE Packed!ReadWhole(before, now)
  <2>1. now = before /\ version[before.inode] = before.version
    BY <1>8, <1>10 DEF Packed!ReadWhole
  <2>2. PICK second \in [Packed!Files -> Packed!Identity] :
            second = [pack.second EXCEPT ![pack.at] = before]
    BY <1>1 DEF PackCalls
  <2>3. \A f \in Packed!Files : second[f] = IF f = pack.at THEN before ELSE pack.second[f]
    BY <1>1, <2>2 DEF PackCalls
  <2>4. Packed!After(pack.at).pc \in PackPcs /\ Packed!After(pack.at).at \in 1 .. 3
    BY <1>1, AfterIs DEF PackPcs
  <2>5. pack' = PackRead(pack, second, Packed!After(pack.at).pc, Packed!After(pack.at).at)
    <3>1. pack' = [pack EXCEPT !.second[pack.at] = now, !.at = Packed!After(pack.at).at,
                               !.pc = Packed!After(pack.at).pc]
      BY <1>4, <1>7, <1>10 DEF Packed!Read
    <3>2. QED
      BY <1>1, <2>1, <2>2, <3>1 DEF PackRead, PackCalls
  <2>6. PICK c \in PackCalls :
            /\ c = pack' /\ c.pc = Packed!After(pack.at).pc /\ c.at = Packed!After(pack.at).at
            /\ c.mode = pack.mode /\ c.begun = pack.begun /\ c.listed = pack.listed
            /\ c.first = pack.first /\ c.second = second
    <3>1. LET v == PackRead(pack, second, Packed!After(pack.at).pc, Packed!After(pack.at).at)
          IN  /\ v \in PackCalls /\ v.pc = Packed!After(pack.at).pc
              /\ v.at = Packed!After(pack.at).at /\ v.mode = pack.mode /\ v.begun = pack.begun
              /\ v.listed = pack.listed /\ v.first = pack.first /\ v.second = second
      BY <1>1, <2>2, <2>4, PackReadFields
    <3>2. QED
      BY <2>5, <3>1, Zenon
  <2>7. /\ c.first[pack.at] = c.second[pack.at]
        /\ \E m \in moments : m[pack.at] = c.first[pack.at]
        /\ pack.mode = "workspace" => c.first[pack.at] = c.listed[pack.at]
    BY <1>2, <1>4, <1>5, <2>3, <2>6
  <2>8. pack.mode = "workspace" /\ pack.at = 1 => ~RootWritten(pack)
    BY <1>4, <1>5, <1>6, <2>1 DEF RootWritten
  <2>9. \A f \in Packed!Files : f # pack.at => c.second[f] = pack.second[f]
    BY <2>3, <2>6
  <2>10. pack.pc \in {"open", "read"}
    BY <1>1
  <2>11. QED
    BY <1>1, <2>6, <2>7, <2>8, <2>9, <2>10, Passes
<1>11. QED
  BY <1>9, <1>10

LEMMA CheckKeeps ==
    ASSUME SnapshotInv, Packed!SnapshotsAssumption, Packed!Check
    PROVE  SnapshotInv'
<1>1. pack \in PackCalls /\ PackSound(pack) /\ pack.pc = "check" /\ Packed!Working
  BY PackTyped DEF Packed!Check
<1>2. pack.at \in {1, 2} /\ pack.mode = "workspace" /\ pack.at \in Packed!Files
  BY <1>1 DEF PackSound, Placed, Packed!Files
<1>3. CASE ~Packed!DirectoryKept(pack.at)
  <2>1. Packed!Refuse
    BY <1>3 DEF Packed!Check
  <2>2. QED
    BY <1>1, <2>1, RefuseKeeps
<1>4. CASE Packed!DirectoryKept(pack.at)
  <2>1. PICK pc \in PackPcs : pc = IF pack.at = 2 THEN "packed" ELSE "check"
    BY DEF PackPcs
  <2>2. PICK at \in 1 .. 3 : at = pack.at + 1
    BY <1>2
  <2>3. pack' = PackAt(pack, pc, at)
    <3>1. pack' = [pack EXCEPT !.at = pack.at + 1,
                               !.pc = IF pack.at = 2 THEN "packed" ELSE pack.pc]
      BY <1>1, <1>4 DEF Packed!Check, PackCalls
    <3>2. QED
      BY <1>1, <2>1, <2>2, <3>1 DEF PackAt, PackCalls
  <2>4. PICK c \in PackCalls :
            /\ c = pack' /\ c.pc = pc /\ c.at = at
            /\ c.mode = pack.mode /\ c.begun = pack.begun /\ c.listed = pack.listed
            /\ c.first = pack.first /\ c.second = pack.second
    <3>1. LET v == PackAt(pack, pc, at)
          IN  /\ v \in PackCalls /\ v.pc = pc /\ v.at = at /\ v.mode = pack.mode
              /\ v.begun = pack.begun /\ v.listed = pack.listed /\ v.first = pack.first
              /\ v.second = pack.second
      BY <1>1, PackAtFields
    <3>2. QED
      BY <2>3, <3>1, Zenon
  <2>5. ASSUME NEW f \in Packed!Files PROVE ReadSound(c, f)
    <3>1. ReadSound(pack, f)
      BY <1>1 DEF PackSound
    <3>2. Packed1(c, f) /\ Packed1(pack, f) /\ c.pc # "read"
      BY <1>1, <1>2, <2>1, <2>2, <2>4 DEF Packed1
    <3>3. QED
      BY <2>4, <3>1, <3>2 DEF ReadSound
  <2>6. Placed(c) /\ c.mode = "workspace" /\ c.pc \notin {"enter", "list"}
    BY <1>2, <2>1, <2>2, <2>4 DEF Placed
  <2>7. PICK m \in moments : m[2] = pack.listed[2] /\ m[1] = pack.listed[1]
    <3>1. PICK m \in moments : /\ m[2] = pack.listed[2]
                               /\ m[1] = pack.listed[1] \/ RootChanged(pack) \/ RootWritten(pack)
      BY <1>1, <1>2 DEF PackSound, AllListed
    <3>2. ~RootWritten(pack)
      BY <1>1, <1>2 DEF RootWritten, Packed1
    <3>3. ~RootChanged(pack)
      <4>1. CASE pack.at = 1
        BY <1>4, <4>1, PackTyped DEF RootChanged, Packed!DirectoryKept
      <4>2. CASE pack.at = 2
        BY <1>1, <4>2 DEF RootChanged
      <4>3. QED
        BY <1>2, <4>1, <4>2
    <3>4. QED
      BY <3>1, <3>2, <3>3
  <2>8. PackSound(c)
    BY <1>1, <2>4, <2>5, <2>6, <2>7 DEF PackSound
  <2>9. QED
    BY <1>1, <2>4, <2>8, PackKeeps
<1>5. QED
  BY <1>3, <1>4

LEMMA SnapshotInit ==
    ASSUME Packed!SnapshotsAssumption, Packed!Init
    PROVE  SnapshotInv
<1>1. /\ tree \in [Packed!Files -> InodeNames] /\ aside \in [Packed!Files -> InodeNames]
      /\ version \in [Packed!Inodes -> EditNumbers] /\ edits \in EditNumbers
      /\ changed \in [Packed!Directories -> EditNumbers]
  BY DEF Packed!Init, Packed!SnapshotsAssumption, Packed!Files, Packed!Directories, InodeNames, EditNumbers
<1>2. moments \subseteq [Packed!Files -> Packed!Identity] /\ Packed!Whole(tree, version) \in moments
  BY <1>1, WholeTyped DEF Packed!Init
<1>3. /\ \A i \in Packed!Inodes : version[i] <= edits
      /\ \A f \in Packed!Files : changed[f] <= edits /\ tree[f] <= 2 + edits /\ aside[f] <= 2 + edits
  BY DEF Packed!Init, Packed!Files, Packed!Directories
<1>4. PICK none \in [Packed!Files -> Packed!Identity] : none = [f \in Packed!Files |-> Packed!Gone]
  BY DEF Packed!Identity
<1>5. PICK mode \in Modes :
          pack = [mode |-> mode, pc |-> "enter", at |-> 1, begun |-> changed, listed |-> none,
                  first |-> none, second |-> none]
  BY <1>4 DEF Packed!Init, Modes
<1>6. /\ pack \in PackCalls /\ pack.pc = "enter" /\ pack.at = 1 /\ pack.begun = changed
      /\ pack.listed = none /\ pack.first = none
  BY <1>1, <1>4, <1>5 DEF PackCalls, PackPcs
<1>7. \A d \in Packed!Directories : pack.begun[d] <= changed[d]
  BY <1>1, <1>6 DEF EditNumbers
<1>8. \A f \in Packed!Files : ReadSound(pack, f)
  <2>1. ASSUME NEW f \in Packed!Files PROVE ~Packed1(pack, f) /\ none[f] = Packed!Gone
    BY <1>4, <1>6 DEF Packed1, Packed!Files
  <2>2. QED
    BY <1>6, <2>1 DEF ReadSound
<1>9. PackSound(pack)
  BY <1>6, <1>7, <1>8 DEF PackSound, Placed, AllListed
<1>10. QED
  BY <1>1, <1>2, <1>3, <1>6, <1>9 DEF SnapshotInv

LEMMA SnapshotPreserved ==
    ASSUME SnapshotInv, Packed!SnapshotsAssumption, [Packed!Next]_(Packed!vars)
    PROVE  SnapshotInv'
<1>1. CASE UNCHANGED Packed!vars
  <2>1. Packed!Working /\ pack' = pack
    BY <1>1 DEF Packed!vars, Packed!Working
  <2>2. QED
    BY <2>1, PackTyped, PackKeeps
<1>2. CASE Packed!Writes \/ Packed!Saves \/ Packed!MovesAside \/ Packed!MovesBack
  <2>1. Packed!Edits
    BY <1>2 DEF Packed!Writes, Packed!Saves, Packed!MovesAside, Packed!MovesBack
  <2>2. QED
    BY <1>2, <2>1, WritesKeeps
<1>3. CASE Packed!Enter \/ Packed!List \/ Packed!Skip \/ Packed!Open \/ Packed!Read \/ Packed!Check
  BY <1>3, EnterKeeps, ListKeeps, SkipKeeps, OpenKeeps, ReadKeeps, CheckKeeps
<1>4. QED
  BY <1>1, <1>2, <1>3 DEF Packed!Next

LEMMA SnapshotsHold ==
    ASSUME SnapshotInv, Packed!SnapshotsAssumption
    PROVE  Packed!FilesWhole /\ Packed!SnapshotOfAMoment
<1>1. pack \in PackCalls /\ PackSound(pack) /\ moments \subseteq [Packed!Files -> Packed!Identity]
  BY PackTyped
<1>2. CASE pack.pc = "packed"
  <2>1. pack.at = 3 /\ \A f \in Packed!Files : ReadSound(pack, f) /\ f \in {1, 2}
    BY <1>1, <1>2, PackTyped DEF PackSound, Placed
  <2>2. \A f \in Packed!Files : Packed1(pack, f)
    BY <1>2, <2>1 DEF Packed1
  <2>3. Packed!FilesWhole
    BY <2>1, <2>2 DEF Packed!FilesWhole, ReadSound
  <2>4. ASSUME pack.mode = "workspace" PROVE pack.first \in moments
    <3>1. PICK m \in moments : m[2] = pack.listed[2] /\ m[1] = pack.listed[1]
      BY <1>1, <1>2, <2>2, <2>4, PackTyped DEF PackSound, AllListed, RootChanged, RootWritten
    <3>2. \A f \in Packed!Files : pack.first[f] = m[f]
      BY <2>1, <2>2, <2>4, <3>1 DEF ReadSound
    <3>3. pack.first \in [Packed!Files -> Packed!Identity] /\ m \in [Packed!Files -> Packed!Identity]
      BY <1>1 DEF PackCalls
    <3>4. pack.first = m
      BY <3>2, <3>3
    <3>5. QED
      BY <3>4
  <2>5. QED
    BY <2>3, <2>4 DEF Packed!SnapshotOfAMoment
<1>3. CASE pack.pc # "packed"
  BY <1>3 DEF Packed!FilesWhole, Packed!SnapshotOfAMoment
<1>4. QED
  BY <1>2, <1>3

\* Each packed file is one content it had (_projects.py:112-135), and a workspace's archive
\* is the whole tree of one moment (_workspace_archive.py:113-147, 176-188, 218-234).
THEOREM SnapshotsSound ==
    ASSUME Packed!SnapshotsAssumption
    PROVE  Packed!Spec => [](Packed!FilesWhole /\ Packed!SnapshotOfAMoment)
<1>1. Packed!Init => SnapshotInv
  BY SnapshotInit
<1>2. SnapshotInv /\ [Packed!Next]_(Packed!vars) => SnapshotInv'
  BY SnapshotPreserved
<1>3. SnapshotInv => Packed!FilesWhole /\ Packed!SnapshotOfAMoment
  BY SnapshotsHold
<1>4. QED
  BY <1>1, <1>2, <1>3, PTL DEF Packed!Spec
=============================================================================
