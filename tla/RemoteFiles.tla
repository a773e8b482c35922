---------------------------- MODULE RemoteFiles -----------------------------
(***************************************************************************)
(* One file of a sandbox, written and read in chunks: nodus/               *)
(* _sandbox_files.py, _Files._write, _upload_at and _read under _drive.    *)
(* Every chunk is one request under a key made of the caller's key and the *)
(* offset; the service answers a repeated key with its first receipt.  A   *)
(* chunk after the first names the content it continues by its hash, so    *)
(* writers, late requests and retries meet in one compare-and-set file.    *)
(*                                                                         *)
(* A hash stands for the content it is of, and a content is the sequence   *)
(* of its chunks; a chunk is named by its writer, the version of the local *)
(* file it was read from and its position.                                 *)
(***************************************************************************)
EXTENDS Integers, Sequences, FiniteSets

CONSTANTS
    Writers,      \* callers of write() and upload()
    Uploaders,    \* those that read a local file somebody may edit
    Chunks,       \* chunks of every file
    MaxCalls,     \* bound: calls of one writer, all under one key
    MaxEdits,     \* bound: edits of a local file
    Original,     \* the writer of what the file holds at first
    None          \* no file; no expected hash

RemoteFilesAssumption ==
    /\ Uploaders \subseteq Writers /\ Original \notin Writers
    /\ None \notin Seq([by: Writers \cup {Original}, version: Nat, at: Nat])
    /\ Chunks \in Nat \ {0} /\ MaxCalls \in Nat /\ MaxEdits \in Nat

VARIABLES
    file,       \* the remote content
    contents,   \* history: every content it has had
    receipts,   \* receipts of the service, by key
    transit,    \* requests on their way
    local,      \* uploader -> version of its local file
    writer,     \* writer -> its call
    download    \* the reader's call

vars == <<file, contents, receipts, transit, local, writer, download>>

Versions == 1 .. MaxEdits + 1
Pieces   == [by: Writers \cup {Original}, version: Versions, at: 1 .. Chunks]
OldFile  == [i \in 1 .. Chunks |-> [by |-> Original, version |-> 1, at |-> i]]

TypeOK ==
    /\ file \in Seq(Pieces) \cup {None} /\ file \in contents
    /\ local \in [Uploaders -> Versions]
    /\ \A w \in Writers :
          /\ writer[w].phase \in {"idle", "send", "reply", "returned", "raised"}
          /\ writer[w].calls \in 0 .. MaxCalls
          /\ writer[w].sent \in Seq(Pieces) /\ Len(writer[w].sent) <= Chunks
    /\ download.phase \in {"idle", "reading", "returned", "raised"}
    /\ download.got \in Seq(Pieces)

\* A writer either creates the file or replaces the version it has seen.
Init ==
    /\ file \in {None, OldFile} /\ contents = {file}
    /\ receipts = {} /\ transit = {}
    /\ local = [u \in Uploaders |-> 1]
    /\ writer \in [Writers -> { [phase |-> "idle", calls |-> 0, base |-> base, before |-> 1,
                                 sent |-> <<>>] : base \in {None, file} }]
    /\ \A u \in Uploaders : writer[u].base = None
    /\ download = [phase |-> "idle", expected |-> None, got |-> <<>>]

-----------------------------------------------------------------------------
(* write and upload.                                                       *)

Version(w) == IF w \in Uploaders THEN local[w] ELSE 1

\* mutant: the fingerprint of the local file is not looked at again.
UnchangedForgotten(w) == TRUE

\* fingerprint(source.info()) == fingerprint(before).
Unchanged(w) == Version(w) = writer[w].before

\* The call, or its repetition under the same key after an error.
CallWrite(w) ==
    /\ writer[w].phase \in {"idle", "raised"} /\ writer[w].calls < MaxCalls
    /\ writer' = [writer EXCEPT ![w] = [writer[w] EXCEPT
          !.phase = "send", !.calls = writer[w].calls + 1, !.before = Version(w), !.sent = <<>>]]
    /\ UNCHANGED <<file, contents, receipts, transit, local, download>>

ChunkKey(w, at) == <<w, at>>

\* One chunk is read and sent, unless the local file has changed.
SendChunk(w) ==
    /\ writer[w].phase = "send"
    /\ LET sent == writer[w].sent
           at == Len(sent) + 1
           piece == [by |-> w, version |-> Version(w), at |-> at]
       IN IF Unchanged(w)
          THEN /\ transit' = transit \cup
                    {[key |-> ChunkKey(w, at), piece |-> piece, offset |-> Len(sent),
                      expected |-> IF sent = <<>> THEN writer[w].base ELSE sent]}
               /\ writer' = [writer EXCEPT ![w] = [writer[w] EXCEPT
                    !.phase = "reply", !.sent = Append(sent, piece)]]
          ELSE /\ writer' = [writer EXCEPT ![w].phase = "raised"]
               /\ UNCHANGED transit
    /\ UNCHANGED <<file, contents, receipts, local, download>>

Receipt(key) == { r \in receipts : r.request.key = key }

\* The service runs a request: once per key, and only on the expected content.
Apply(request) ==
    /\ transit' = transit \ {request}
    /\ IF Receipt(request.key) # {}
       THEN UNCHANGED <<file, contents, receipts>>
       ELSE LET fits == request.expected = file
                result == IF request.offset = 0 THEN <<request.piece>>
                          ELSE SubSeq(file, 1, request.offset) \o <<request.piece>>
            IN /\ file' = IF fits THEN result ELSE file
               /\ contents' = contents \cup {file'}
               /\ receipts' = receipts \cup
                    {[request |-> request, result |-> IF fits THEN result ELSE None]}
    /\ UNCHANGED <<local, writer, download>>

AllSent(sent) == Len(sent) = Chunks

\* The receipt is for this very request and the acknowledged hash is ours.
Accepted(w, r) == r.request.piece = writer[w].sent[Len(writer[w].sent)] /\ r.result = writer[w].sent

\* The answer: verified, then the local file once more, then the next chunk.
ReadReceipt(w) ==
    /\ writer[w].phase = "reply"
    /\ \E r \in Receipt(ChunkKey(w, Len(writer[w].sent))) :
          writer' = [writer EXCEPT ![w].phase =
              IF ~Accepted(w, r) \/ ~Unchanged(w) THEN "raised"
              ELSE IF AllSent(writer[w].sent) THEN "returned" ELSE "send"]
    /\ UNCHANGED <<file, contents, receipts, transit, local, download>>

\* The transport gives up, or the caller is interrupted; the request may be under way.
WriteFails(w) ==
    /\ writer[w].phase = "reply"
    /\ writer' = [writer EXCEPT ![w].phase = "raised"]
    /\ UNCHANGED <<file, contents, receipts, transit, local, download>>

\* Somebody edits the local file in place.
Edit(u) ==
    /\ local[u] <= MaxEdits
    /\ local' = [local EXCEPT ![u] = @ + 1]
    /\ UNCHANGED <<file, contents, receipts, transit, writer, download>>

-----------------------------------------------------------------------------
(* read and download.                                                      *)

CallRead ==
    /\ download.phase = "idle"
    /\ download' = [download EXCEPT !.phase = "reading"]
    /\ UNCHANGED <<file, contents, receipts, transit, local, writer>>

\* mutant: only the sizes of the pages are compared.
ChunkVerifiedBySize(d, page) == d.expected # None => Len(page.hash) = Len(d.expected)

\* The hash is the first page's on every page, and that of all bytes at the end.
ChunkVerified(d, page) ==
    /\ d.expected # None => page.hash = d.expected
    /\ page.eof => Append(d.got, page.chunk) = page.hash

\* One page: the file as it is now, from the offset reached.
ReadChunk ==
    /\ download.phase = "reading" /\ file # None /\ Len(download.got) < Len(file)
    /\ LET at == Len(download.got) + 1
           page == [hash |-> file, chunk |-> file[at], eof |-> at = Len(file)]
       IN download' = IF ~ChunkVerified(download, page)
                      THEN [download EXCEPT !.phase = "raised"]
                      ELSE [download EXCEPT !.expected = page.hash, !.got = Append(@, page.chunk),
                                            !.phase = IF page.eof THEN "returned" ELSE "reading"]
    /\ UNCHANGED <<file, contents, receipts, transit, local, writer>>

\* The file is missing or shorter than the offset, or the request fails.
ReadFails ==
    /\ download.phase = "reading"
    /\ download' = [download EXCEPT !.phase = "raised"]
    /\ UNCHANGED <<file, contents, receipts, transit, local, writer>>

Next ==
    \/ \E w \in Writers : CallWrite(w) \/ SendChunk(w) \/ ReadReceipt(w) \/ WriteFails(w)
    \/ \E request \in transit : Apply(request)
    \/ \E u \in Uploaders : Edit(u)
    \/ CallRead \/ ReadChunk \/ ReadFails

Spec == Init /\ [][Next]_vars

-----------------------------------------------------------------------------
(* A write or upload that returns was whole: the file has at one moment    *)
(* held exactly the caller's chunks, all of them and all of one version of *)
(* the local file, although chunks of other writers, of late requests and  *)
(* of earlier calls under the same key arrive in between                   *)
(* (_sandbox_files.py:136-152, 158-193).                                   *)
WriteIsWhole ==
    \A w \in Writers : writer[w].phase = "returned" =>
        /\ writer[w].sent \in contents
        /\ \E v \in Versions :
              writer[w].sent = [i \in 1 .. Chunks |-> [by |-> w, version |-> v, at |-> i]]

(* Bytes that a read returns are one content the file has had, never       *)
(* pages of two (_sandbox_files.py:104-134).                               *)
ReadIsWhole == download.phase = "returned" => download.got \in contents
=============================================================================
