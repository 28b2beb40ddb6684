---------------------------- MODULE ChunkedUpload ----------------------------
(***************************************************************************)
(* One blob pushed to Harbor in chunks, by                                 *)
(* installer/internal/oras/repository: POST opens an upload session, each  *)
(* chunk is a PATCH, PUT commits the blob.  The location of the session is *)
(* kept in a state file so that a later attempt, or a later run of the     *)
(* installer, resumes it.  The registry, its answers and the operator are  *)
(* the environment: answers get lost, requests that the client has given   *)
(* up on are applied late, sessions expire, the disk fills up and the      *)
(* process is killed between any two steps.                                *)
(*                                                                         *)
(* A byte is represented by its position in the source, so that what a     *)
(* session holds can be compared with the source.                          *)
(***************************************************************************)
EXTENDS Integers, Sequences, FiniteSets

CONSTANTS
    Size,               \* bytes in the blob
    ChunkSize,          \* ChunkedUploadOptions.ChunkSize
    MaxChunkAttempts,   \* ChunkedUploadOptions.MaxChunkAttempts
    SpoolChunks,        \* TRUE for a remote source, FALSE for local files
    EmptyRange,         \* how the registry reports a session without bytes
    MaxFaults           \* bound: faults of the environment in one behaviour

\* Only a blob larger than one chunk is pushed this way (useDefaultPush).
ASSUME SizeAssumption ==
    /\ Size \in Nat
    /\ ChunkSize \in Nat \ {0}
    /\ ChunkSize < Size
    /\ MaxChunkAttempts \in Nat \ {0}
    /\ SpoolChunks \in BOOLEAN
    /\ EmptyRange \in (SUBSET {"0-0", "absent"}) \ {{}}
    /\ MaxFaults \in Nat

VARIABLES
    pc,         \* where pushBlobChunked stands
    cur,        \* the chunk in hand: its session, first and last byte
    attempt,    \* uploadChunkWithRetry's attempt
    lastErr,    \* uploadChunkWithRetry's lastErr, by its kind
    cont,       \* what saveUploadState returns to
    body,       \* the chunkContent prepared for the PATCH
    pending,    \* chunkPrefetcher.pending
    temps,      \* oras-chunk-* files of this process
    reported,   \* reportedOffset
    file,       \* the upload state file
    data,       \* registry: the bytes each session has received
    open,       \* registry: the sessions that can still be used
    late,       \* registry: PATCH requests given up on but not yet applied
    blob,       \* registry: the blob is committed
    failure,    \* kind of the error the push ended with
    posts,      \* sessions opened so far
    faults      \* faults so far

client == <<pc, cur, attempt, lastErr, cont, body, pending, temps, reported, failure>>
registry == <<data, open, posts, late, blob>>
vars == <<client, file, registry, faults>>

NoSession == 0
\* Each fault costs at most two new sessions: a restart, and one more after the
\* restart has used up the last attempt.
MaxSessions == 2 * MaxFaults + 1
Sessions == 1 .. MaxSessions

NoFile == [state |-> "none", loc |-> NoSession]
Corrupt == [state |-> "corrupt", loc |-> NoSession]
State(repo, loc) == [state |-> repo, loc |-> loc]
Files == {NoFile, Corrupt} \cup [state : {"this", "other"}, loc : {NoSession} \cup Sessions]

\* Error kinds by what recoverArtifactUpload does with them: "network" stands
\* for every kind it offers a plain retry for.
Kinds == {"network", "upload_state", "unknown"}
NoError == "none"

NoChunk == [loc |-> NoSession, offset |-> 0, end |-> -1]
NoBody == [offset |-> 0, size |-> 0]
Idle == [state |-> "idle", offset |-> 0, size |-> 0]

SmallerOf(a, b) == IF a < b THEN a ELSE b

\* The bytes first, first+1, ... of the source.
Bytes(first, n) == [i \in 1 .. n |-> first + i - 1]

nextChunk(loc, offset) ==
    [loc |-> loc, offset |-> offset,
     end |-> offset + SmallerOf(ChunkSize, Size - offset) - 1]

\* "Range: 0-<last byte>" as nextOffsetFromRange reads it.  The header cannot
\* express an empty session: the registry says 0-0 or sends no header, which
\* does not parse.
ParseError == -1
nextOffsetFromRange(n) ==
    IF n > 0 THEN {n}
    ELSE {IF r = "0-0" THEN 1 ELSE ParseError : r \in EmptyRange}

validUploadState(f) == f.state = "this" /\ f.loc # NoSession

validateNextOffset(next, start) == start < next /\ next <= Size

Fault == faults < MaxFaults /\ faults' = faults + 1
NoFault == UNCHANGED faults

----------------------------------------------------------------------------
Init ==
    /\ pc = "push"
    /\ cur = NoChunk
    /\ attempt = 1
    /\ lastErr = NoError
    /\ cont = "started"
    /\ body = NoBody
    /\ pending = Idle
    /\ temps = 0
    /\ reported = 0
    \* nothing, the record of another repository pushing the same digest, a
    \* record without a location, or a file cut short
    /\ file \in {NoFile, Corrupt, State("other", NoSession), State("this", NoSession)}
    /\ data = [s \in Sessions |-> <<>>]
    /\ open = {}
    /\ posts = 0
    /\ late = {}
    /\ blob = FALSE
    /\ failure = NoError
    /\ faults = 0

\* The push returns an error of this kind: prefetcher.close runs next.
Fail(kind) ==
    /\ pc' = "closing"
    /\ failure' = kind

----------------------------------------------------------------------------
(* startOrResumeBlobUpload                                                 *)

\* oras.Copy skips a blob the registry already has.
Push ==
    /\ pc = "push"
    /\ pc' = IF blob THEN "done" ELSE "load"
    /\ reported' = 0
    /\ UNCHANGED <<cur, attempt, lastErr, cont, body, pending, temps, failure,
                   file, registry, faults>>

loadUploadState ==
    /\ pc = "load"
    /\ IF file = Corrupt
       THEN Fail("upload_state")
       ELSE /\ pc' = IF validUploadState(file) THEN "status" ELSE "post"
            /\ UNCHANGED failure
    /\ UNCHANGED <<cur, attempt, lastErr, cont, body, pending, temps, reported,
                   file, registry, faults>>

\* saveUploadState comes next and returns to the place that next names.
SaveThen(next, chunk) ==
    /\ pc' = "save"
    /\ cont' = next
    /\ cur' = chunk

resumeBlobUpload ==
    /\ pc = "status"
    /\ file.loc \in open
    /\ \E offset \in nextOffsetFromRange(Len(data[file.loc])) \ {ParseError} :
          SaveThen("started", [loc |-> file.loc, offset |-> offset, end |-> offset - 1])
    /\ UNCHANGED <<attempt, lastErr, body, pending, temps, reported, failure,
                   file, registry, faults>>

\* Mutant: a record that cannot be resumed is an error.
MutDiscardStaleState ==
    /\ pc = "status"
    /\ \/ file.loc \notin open
       \/ ParseError \in nextOffsetFromRange(Len(data[file.loc]))
    /\ Fail("unknown")
    /\ UNCHANGED <<cur, attempt, lastErr, cont, body, pending, temps, reported, file, registry, faults>>

\* Mutant: the push goes on with the zero values of the failed status request.
MutDiscardContinues ==
    /\ pc = "status"
    /\ file.loc \notin open
    /\ SaveThen("started", NoChunk)
    /\ UNCHANGED <<attempt, lastErr, body, pending, temps, reported, failure, file, registry, faults>>

\* Any error of the status request, be it a dropped answer from a session that
\* is alive: the record is deleted and a new upload starts.
discardStaleState ==
    /\ pc = "status"
    /\ IF \/ file.loc \notin open
          \/ ParseError \in nextOffsetFromRange(Len(data[file.loc]))
       THEN NoFault
       ELSE Fault
    /\ file' = NoFile
    /\ pc' = "post"
    /\ UNCHANGED <<cur, attempt, lastErr, cont, body, pending, temps, reported, failure, registry>>

discardFails ==
    /\ pc = "status"
    /\ Fault
    /\ Fail("upload_state")
    /\ UNCHANGED <<cur, attempt, lastErr, cont, body, pending, temps, reported, file, registry>>

\* The callback that takes the progress back when an upload starts over.
onRestart == reported' = 0

\* From startOrResumeBlobUpload and from the restart in recoverOrRestartChunk.
postBlobUpload ==
    /\ pc \in {"post", "repost"}
    /\ posts < MaxSessions
    /\ posts' = posts + 1
    /\ open' = open \cup {posts + 1}
    /\ SaveThen(IF pc = "post" THEN "started" ELSE "retry", nextChunk(posts + 1, 0))
    /\ onRestart
    /\ UNCHANGED <<attempt, lastErr, body, pending, temps, failure, file, data, late, blob, faults>>

postFails ==
    /\ pc \in {"post", "repost"}
    /\ Fault
    /\ Fail(IF pc = "repost" THEN lastErr ELSE "network")
    /\ UNCHANGED <<cur, attempt, lastErr, cont, body, pending, temps, reported, file, registry>>

----------------------------------------------------------------------------
(* The state file                                                          *)

\* One more attempt at the chunk, or the error of the last one.
NextAttempt(err) ==
    IF attempt < MaxChunkAttempts
    THEN /\ pc' = "fetch"
         /\ attempt' = attempt + 1
         /\ UNCHANGED failure
    ELSE /\ Fail(err)
         /\ UNCHANGED attempt

saveUploadState ==
    /\ pc = "save"
    /\ file' = State("this", cur.loc)
    /\ IF cont = "retry"
       THEN NextAttempt(lastErr) /\ UNCHANGED reported
       ELSE /\ pc' = "chunk"
            /\ reported' = cur.offset
            /\ UNCHANGED <<attempt, failure>>
    /\ UNCHANGED <<cur, lastErr, cont, body, pending, temps, registry, faults>>

\* os.WriteFile truncates before it writes.  An error inside
\* recoverOrRestartChunk is reported under the kind of the PATCH error.
saveFails ==
    /\ pc = "save"
    /\ Fault
    /\ file' \in {file, Corrupt}
    /\ Fail(IF cont \in {"started", "uploaded"} THEN "upload_state" ELSE lastErr)
    /\ UNCHANGED <<cur, attempt, lastErr, cont, body, pending, temps, reported, registry>>

----------------------------------------------------------------------------
(* chunkPrefetcher                                                         *)

AttemptSize == cur.end - cur.offset + 1

\* chunkPrefetcher.start: read the next chunk ahead, if chunks are spooled.
ReadsAhead(offset) == SpoolChunks /\ offset < Size
Ahead(offset) ==
    IF ReadsAhead(offset)
    THEN [state |-> "reading", offset |-> offset, size |-> SmallerOf(ChunkSize, Size - offset)]
    ELSE Idle

Count(b) == IF b THEN 1 ELSE 0

\* Mutant: any prefetched chunk of the right size is used.
MutPrefetched == pending.state = "ready" /\ pending.size = AttemptSize

Prefetched == /\ pending.state = "ready"
              /\ pending.offset = cur.offset
              /\ pending.size = AttemptSize

\* chunkPrefetcher.take: a prefetch in flight is waited for.
TakeReturns == pending.state # "reading"

\* The goroutine that start spawned: it succeeds or, removing its file, fails.
prefetch ==
    /\ pending.state = "reading"
    /\ \/ /\ pending' = [pending EXCEPT !.state = "ready"]
          /\ NoFault
          /\ UNCHANGED temps
       \/ /\ pending' = [pending EXCEPT !.state = "failed"]
          /\ Fault
          /\ temps' = temps - 1
    /\ UNCHANGED <<pc, cur, attempt, lastErr, cont, body, reported, failure, file, registry>>

\* A prefetch of another range is discarded.
fetch ==
    /\ pc = "fetch"
    /\ TakeReturns
    /\ IF Prefetched
       THEN /\ body' = [offset |-> pending.offset, size |-> pending.size]
            /\ pending' = Ahead(cur.offset + AttemptSize)
            /\ temps' = temps + Count(ReadsAhead(cur.offset + AttemptSize))
            /\ pc' = "patch"
       ELSE /\ pending' = Idle
            /\ temps' = temps - Count(pending.state = "ready")
            /\ pc' = "spool"
            /\ UNCHANGED body
    /\ UNCHANGED <<cur, attempt, lastErr, cont, reported, failure, file, registry, faults>>

prepareChunkContent ==
    /\ pc = "spool"
    /\ body' = [offset |-> cur.offset, size |-> AttemptSize]
    /\ pending' = Ahead(cur.offset + AttemptSize)
    /\ temps' = temps + Count(SpoolChunks) + Count(ReadsAhead(cur.offset + AttemptSize))
    /\ pc' = "patch"
    /\ UNCHANGED <<cur, attempt, lastErr, cont, reported, failure, file, registry, faults>>

\* The source went away or the temporary directory is full.
spoolFails ==
    /\ pc = "spool"
    /\ SpoolChunks
    /\ Fault
    /\ lastErr' \in {"network", "unknown"}
    /\ NextAttempt(lastErr')
    /\ UNCHANGED <<cur, cont, body, pending, temps, reported, file, registry>>

\* prefetcher.close: the push has returned, with or without an error.
close ==
    /\ pc = "closing"
    /\ TakeReturns
    /\ pending' = Idle
    /\ temps' = temps - Count(pending.state = "ready")
    /\ pc' = IF failure = NoError THEN "done" ELSE "failed"
    /\ UNCHANGED <<cur, attempt, lastErr, cont, body, reported, failure, file, registry, faults>>

----------------------------------------------------------------------------
(* pushBlobChunked's loop and uploadChunkWithRetry                         *)

\* Mutant: the last byte is taken for sent.
MutBytesRemain == cur.offset < Size - 1

BytesRemain == cur.offset < Size

chunkLoop ==
    /\ pc = "chunk"
    /\ IF BytesRemain
       THEN /\ pc' = "fetch"
            /\ cur' = nextChunk(cur.loc, cur.offset)
            /\ attempt' = 1
            /\ lastErr' = NoError
       ELSE /\ pc' = "put"
            /\ UNCHANGED <<cur, attempt, lastErr>>
    /\ UNCHANGED <<cont, body, pending, temps, reported, failure, file, registry, faults>>

Request == [loc |-> cur.loc, from |-> cur.offset, offset |-> body.offset, size |-> body.size]

\* A registry takes a PATCH whose Content-Range starts where the session ends.
Acceptable(r) == r.loc \in open /\ r.from = Len(data[r.loc])
Received(r, n) == [data EXCEPT ![r.loc] = @ \o Bytes(r.offset, n)]

\* Mutant: the chunk's temporary file is left behind.
MutChunkDone == body' = NoBody /\ UNCHANGED temps

\* cleanup() after patchBlobUpload removes the chunk's temporary file.
ChunkDone == /\ body' = NoBody
             /\ temps' = temps - Count(SpoolChunks)

\* What uploadChunkWithRetry makes of the Range header of the answer.
Answered(next) ==
    \/ /\ next = ParseError
       /\ lastErr' = "unknown"
       /\ pc' = "recover"
       /\ UNCHANGED <<cur, cont, failure>>
    \/ /\ next # ParseError
       /\ validateNextOffset(next, cur.offset)
       /\ SaveThen("uploaded", [cur EXCEPT !.offset = next])
       /\ UNCHANGED <<lastErr, failure>>
    \/ /\ next # ParseError
       /\ ~validateNextOffset(next, cur.offset)
       /\ Fail("unknown")
       /\ UNCHANGED <<cur, cont, lastErr>>

\* The registry answers 202; it may have taken only part of the chunk.
patchBlobUpload ==
    /\ pc = "patch"
    /\ Acceptable(Request)
    /\ ChunkDone
    /\ \E n \in 0 .. body.size :
         /\ data' = Received(Request, n)
         /\ IF n < body.size THEN Fault ELSE NoFault
         /\ \E next \in nextOffsetFromRange(cur.offset + n) : Answered(next)
    /\ UNCHANGED <<attempt, pending, reported, file, open, posts, late, blob>>

\* The registry refuses the range, or no longer knows the session; the latter
\* with or without an error code that says so.
patchRejected ==
    /\ pc = "patch"
    /\ ~Acceptable(Request)
    /\ ChunkDone
    /\ lastErr' \in IF cur.loc \in open THEN {"unknown"} ELSE {"upload_state", "network"}
    /\ pc' = "recover"
    /\ UNCHANGED <<cur, attempt, cont, pending, reported, failure, file, registry, faults>>

\* No answer: the registry may apply the request, or a part of it, later.
patchLost ==
    /\ pc = "patch"
    /\ Fault
    /\ ChunkDone
    /\ late' = late \cup {Request}
    /\ lastErr' = "network"
    /\ pc' = "recover"
    /\ UNCHANGED <<cur, attempt, cont, pending, reported, failure, file, data, open, posts, blob>>

\* recoverChunk and, when the registry does not know the session, the restart.
recoverOrRestartChunk ==
    /\ pc = "recover"
    /\ \/ /\ cur.loc \in open
          /\ \E offset \in nextOffsetFromRange(Len(data[cur.loc])) :
               IF cur.offset <= offset /\ offset <= Size
               THEN /\ SaveThen(IF offset > cur.offset THEN "recovered" ELSE "retry",
                                [cur EXCEPT !.offset = offset])
                    /\ UNCHANGED failure
               ELSE Fail(lastErr) /\ UNCHANGED <<cur, cont>>
          /\ NoFault
       \/ /\ cur.loc \notin open
          /\ pc' = "repost"
          /\ NoFault
          /\ UNCHANGED <<cur, cont, failure>>
       \/ /\ IF cur.loc \in open THEN Fault ELSE NoFault
          /\ Fail(lastErr)
          /\ UNCHANGED <<cur, cont>>
    /\ UNCHANGED <<attempt, lastErr, body, pending, temps, reported, file, registry>>

----------------------------------------------------------------------------
(* Finalizing                                                              *)

Complete(s) == data[s] = Bytes(0, Size)

\* The registry verifies the digest.
putBlobUpload ==
    /\ pc = "put"
    /\ cur.loc \in open
    /\ IF Complete(cur.loc)
       THEN /\ blob' = TRUE
            /\ open' = open \ {cur.loc}
            /\ pc' = "delete"
            /\ UNCHANGED failure
       ELSE Fail("network") /\ UNCHANGED <<blob, open>>
    /\ UNCHANGED <<cur, attempt, lastErr, cont, body, pending, temps, reported,
                   file, data, posts, late, faults>>

\* The session is gone, or the answer is lost, after or before the commit.
putFails ==
    /\ pc = "put"
    /\ IF cur.loc \in open THEN Fault ELSE NoFault
    /\ blob' \in {blob, blob \/ (cur.loc \in open /\ Complete(cur.loc))}
    /\ open' = IF blob' THEN open \ {cur.loc} ELSE open
    /\ \E kind \in IF cur.loc \in open THEN {"network"} ELSE {"network", "upload_state"} : Fail(kind)
    /\ UNCHANGED <<cur, attempt, lastErr, cont, body, pending, temps, reported,
                   file, data, posts, late>>

deleteUploadState ==
    /\ pc = "delete"
    /\ \/ /\ file' = NoFile
          /\ pc' = "closing"
          /\ NoFault
          /\ UNCHANGED failure
       \/ /\ Fault
          /\ Fail("upload_state")
          /\ UNCHANGED file
    /\ UNCHANGED <<cur, attempt, lastErr, cont, body, pending, temps, reported, registry>>

----------------------------------------------------------------------------
(* The operator (recoverArtifactUpload), the registry and the process      *)

Restarted ==
    /\ cur' = NoChunk
    /\ attempt' = 1
    /\ lastErr' = NoError
    /\ cont' = "started"
    /\ body' = NoBody
    /\ pending' = Idle
    /\ reported' = 0
    /\ failure' = NoError

\* "Retry" runs the upload step again.
Retry ==
    /\ pc = "failed"
    /\ failure \in {"network", "upload_state"}
    /\ pc' = "push"
    /\ Restarted
    /\ UNCHANGED <<temps, file, registry, faults>>

\* "Clear upload state and retry" removes the directory of state files.
ClearUploadStateAndRetry ==
    /\ pc = "failed"
    /\ failure = "upload_state"
    /\ file' = NoFile
    /\ pc' = "push"
    /\ Restarted
    /\ UNCHANGED <<temps, registry, faults>>

\* "Abort", or a kind that has no recovery; the installer can be run again.
Abort ==
    /\ pc = "failed"
    /\ pc' = "exited"
    /\ Restarted
    /\ UNCHANGED <<temps, file, registry, faults>>

Rerun ==
    /\ pc = "exited"
    /\ pc' = "push"
    /\ UNCHANGED <<cur, attempt, lastErr, cont, body, pending, temps, reported, failure,
                   file, registry, faults>>

\* The process is killed; a save under way leaves the file in any stage.  Its
\* temporary files stay in TMPDIR, which no later run cleans: temps counts the
\* files of the running process only.
Crash ==
    /\ pc \notin {"done", "exited"}
    /\ Fault
    /\ pc' = "exited"
    /\ file' \in IF pc = "save" THEN {file, Corrupt, State("this", cur.loc)} ELSE {file}
    /\ Restarted
    /\ temps' = 0
    /\ UNCHANGED registry

Expire(s) ==
    /\ Fault
    /\ open' = open \ {s}
    /\ UNCHANGED <<client, file, data, posts, late, blob>>

\* A request the client gave up on reaches the session.
LateApply(r) ==
    /\ late' = late \ {r}
    /\ \E n \in 0 .. r.size :
         data' = IF Acceptable(r) THEN Received(r, n) ELSE data
    /\ UNCHANGED <<client, file, open, posts, blob, faults>>

Terminated == pc = "done" /\ UNCHANGED vars

----------------------------------------------------------------------------
Client ==
    \/ Push \/ loadUploadState \/ resumeBlobUpload \/ discardStaleState
    \/ postBlobUpload \/ saveUploadState
    \/ prefetch \/ fetch \/ prepareChunkContent \/ close
    \/ chunkLoop \/ patchBlobUpload \/ patchRejected \/ recoverOrRestartChunk
    \/ putBlobUpload \/ putFails \/ deleteUploadState

Operator == Retry \/ ClearUploadStateAndRetry \/ Abort \/ Rerun

Faulty ==
    \/ discardFails \/ postFails \/ saveFails \/ spoolFails \/ patchLost \/ Crash
    \/ \E s \in open : Expire(s)

Next == Client \/ Operator \/ Faulty \/ (\E r \in late : LateApply(r)) \/ Terminated

Spec == Init /\ [][Next]_vars

\* The push runs in a goroutine of its own and nothing it waits for can block
\* it forever, since the transport bounds the wait for an answer; the operator
\* answers the prompts and, time and again, with the preselected option.
Fairness ==
    /\ WF_vars(Client)
    /\ WF_vars(Operator)
    /\ SF_vars(ClearUploadStateAndRetry)

FairSpec == Spec /\ Fairness

----------------------------------------------------------------------------
(* Properties                                                              *)

PCs == {"push", "load", "status", "post", "save", "chunk", "fetch", "spool", "patch",
        "recover", "repost", "put", "delete", "closing", "done", "failed", "exited"}

Chunks == [loc : {NoSession} \cup Sessions, offset : 0 .. Size, end : -1 .. Size - 1]
Bodies == [offset : 0 .. Size, size : 0 .. Size]
Prefetches == [state : {"idle", "reading", "ready", "failed"}, offset : 0 .. Size, size : 0 .. Size]
Requests == [loc : Sessions, from : 0 .. Size, offset : 0 .. Size, size : 0 .. Size]

ControlTypeOK ==
    /\ pc \in PCs
    /\ attempt \in 1 .. MaxChunkAttempts
    /\ lastErr \in Kinds \cup {NoError}
    /\ cont \in {"started", "uploaded", "recovered", "retry"}
    /\ failure \in Kinds \cup {NoError}
    /\ temps \in Int
    /\ reported \in 0 .. Size
    /\ faults \in 0 .. MaxFaults

BufferTypeOK == cur \in Chunks /\ body \in Bodies /\ pending \in Prefetches

RegistryTypeOK ==
    /\ data \in [Sessions -> Seq(0 .. Size - 1)]
    /\ posts \in 0 .. MaxSessions
    /\ open \in SUBSET (1 .. posts)
    /\ late \in SUBSET Requests
    /\ blob \in BOOLEAN

\* Every variable has its type.
TypeOK == ControlTypeOK /\ BufferTypeOK /\ file \in Files /\ RegistryTypeOK

\* The bytes of a session are the first bytes of the blob, each once and in
\* order, whatever was retried, prefetched, resumed or applied late
\* (chunkPrefetcher.fetch serves exactly the requested range).
SessionsHoldPrefix ==
    \A s \in Sessions : /\ Len(data[s]) <= Size
                        /\ data[s] = Bytes(0, Len(data[s]))

\* A blob is finalized only when the registry holds all of it: putBlobUpload
\* never asks for a digest that the session does not have.
PutIsComplete == pc = "put" => Complete(cur.loc)

\* "Exactly one reader is active at any time": the main goroutine never reads
\* the source while the prefetch goroutine does.
SingleReader == pc = "spool" => pending.state # "reading"

\* "The cost is one extra chunk on disk", and a push that has returned leaves
\* none of its temporary files behind.
TempFilesBounded ==
    /\ temps \in 0 .. 2
    /\ pc \in {"push", "done", "failed"} => temps = 0

\* uploadChunkWithRetry's check for an empty remaining range never fires.
RangeNonEmpty == pc = "fetch" => cur.offset <= cur.end

\* The state file never gets a record without a location, which would keep the
\* upload wedged on every later run.
NeverPoisonsState ==
    [][file' # file /\ file'.state = "this" => file'.loc # NoSession]_vars

\* recoverChunk "returns true when the registry accepted bytes beyond the
\* original chunk start".
RecoveredMeansAccepted ==
    pc = "save" /\ cont = "recovered" => cur.offset <= Len(data[cur.loc])

\* Once the environment stops failing the blob is committed and the push ends.
EventuallyUploaded == <>(pc = "done" /\ blob)

----------------------------------------------------------------------------
(* The parts of the inductive invariant                                    *)

\* A request on its way carries the bytes its Content-Range names.
LateInPlace == \A r \in late : r.offset = r.from /\ r.from + r.size <= Size
BodyInPlace == pc = "patch" => body.offset = cur.offset /\ body.size = AttemptSize

\* The chunk in hand is a non-empty range until the registry takes all of it.
ChunkInHand ==
    /\ pc \in {"fetch", "spool", "patch", "recover"} \/ (pc = "save" /\ cont = "retry")
          => cur.offset <= cur.end
    /\ pc = "put" => cur.offset = Size

\* The offset in hand is what the session has, or was read from "0-0".
OffsetBacked ==
    pc \in {"save", "chunk", "fetch", "spool", "patch", "recover", "put"} =>
        /\ cur.loc \in Sessions
        /\ cur.offset <= Len(data[cur.loc]) \/ cur.offset = 1

ResumesSession == pc = "status" => file.loc \in Sessions

\* Each temporary file belongs to the chunk in hand or to the prefetch.
TempsOwned ==
    /\ temps = Count(pc = "patch" /\ SpoolChunks) + Count(pending.state \in {"reading", "ready"})
    /\ pending.state # "idle" => SpoolChunks
    /\ pc \in {"push", "load", "status", "post", "spool", "failed", "done", "exited"} =>
           pending.state = "idle"

IndInv ==
    /\ TypeOK /\ SessionsHoldPrefix /\ LateInPlace /\ BodyInPlace /\ ChunkInHand
    /\ OffsetBacked /\ ResumesSession /\ TempsOwned
=============================================================================
