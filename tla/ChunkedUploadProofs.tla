------------------------- MODULE ChunkedUploadProofs -------------------------
(* What the runs of ChunkedUpload check on a blob of five bytes, proved for *)
(* every blob, chunk size, number of attempts and number of faults.         *)
EXTENDS ChunkedUpload, SequenceTheorems, TLAPS

\* Bytes(first, n) is the sequence first, first+1, ... of n numbers.
LEMMA BytesLen ==
    ASSUME NEW first \in Int, NEW n \in Nat
    PROVE  /\ Bytes(first, n) \in Seq(Int)
           /\ Len(Bytes(first, n)) = n
           /\ \A i \in 1 .. n : Bytes(first, n)[i] = first + i - 1
BY DEF Bytes

\* Two sequences make up a third one when they agree with it position by position.
LEMMA ConcatIs ==
    ASSUME NEW S, NEW s1 \in Seq(S), NEW s2 \in Seq(S), NEW t \in Seq(S),
           Len(t) = Len(s1) + Len(s2),
           \A i \in 1 .. Len(s1) : t[i] = s1[i],
           \A i \in 1 .. Len(s2) : t[Len(s1) + i] = s2[i]
    PROVE  s1 \o s2 = t
<1>1. /\ s1 \o s2 \in Seq(S)
      /\ Len(s1 \o s2) = Len(s1) + Len(s2)
      /\ \A i \in 1 .. Len(s1) + Len(s2) :
            (s1 \o s2)[i] = IF i <= Len(s1) THEN s1[i] ELSE s2[i - Len(s1)]
  BY ConcatProperties
<1>2. Len(s1) \in Nat /\ Len(s2) \in Nat
  OBVIOUS
<1>3. ASSUME NEW i \in 1 .. Len(s1) + Len(s2) PROVE (s1 \o s2)[i] = t[i]
  <2>1. CASE i <= Len(s1)
    BY <1>1, <1>2, <2>1
  <2>2. CASE i > Len(s1)
    <3>1. i - Len(s1) \in 1 .. Len(s2) /\ Len(s1) + (i - Len(s1)) = i
      BY <1>2, <2>2
    <3> QED
      BY <1>1, <1>2, <2>2, <3>1
  <2> QED
    BY <1>2, <2>1, <2>2
<1> QED
  BY <1>1, <1>3, SeqEqual

\* Appending the next bytes to a prefix of the source gives a longer prefix.
LEMMA BytesConcat ==
    ASSUME NEW m \in Nat, NEW n \in Nat
    PROVE  Bytes(0, m) \o Bytes(m, n) = Bytes(0, m + n)
<1> DEFINE s1 == Bytes(0, m)
           s2 == Bytes(m, n)
           t  == Bytes(0, m + n)
<1>1. s1 \in Seq(Int) /\ s2 \in Seq(Int) /\ t \in Seq(Int)
  BY BytesLen
<1>2. Len(s1) = m /\ Len(s2) = n /\ Len(t) = m + n
  BY BytesLen
<1>3. \A i \in 1 .. m : t[i] = s1[i]
  BY DEF Bytes
<1>4. \A i \in 1 .. n : t[m + i] = s2[i]
  BY DEF Bytes
<1> HIDE DEF s1, s2, t
<1>5. s1 \o s2 = t
  BY <1>1, <1>2, <1>3, <1>4, ConcatIs
<1> QED
  BY <1>5 DEF s1, s2, t

\* The bytes of a prefix are positions in the source.
LEMMA BytesType ==
    ASSUME NEW n \in 0 .. Size
    PROVE  Bytes(0, n) \in Seq(0 .. Size - 1)
BY SizeAssumption DEF Bytes

\* A request that carries what it names extends the prefix a session holds.
LEMMA ReceivedExtends ==
    ASSUME TypeOK, SessionsHoldPrefix,
           NEW r, r.loc \in Sessions, r.from \in 0 .. Size, r.size \in 0 .. Size,
           r.offset = r.from, r.from + r.size <= Size,
           Acceptable(r),
           NEW n \in 0 .. r.size,
           data' = Received(r, n)
    PROVE  /\ data' \in [Sessions -> Seq(0 .. Size - 1)]
           /\ SessionsHoldPrefix'
           /\ Len(data'[r.loc]) = r.from + n
           /\ \A s \in Sessions : Len(data[s]) <= Len(data'[s])
<1>1. /\ data \in [Sessions -> Seq(0 .. Size - 1)]
      /\ Len(data[r.loc]) = r.from
      /\ data[r.loc] = Bytes(0, r.from)
  BY DEF TypeOK, RegistryTypeOK, SessionsHoldPrefix, Acceptable
<1>2. r.from \in Nat /\ n \in Nat /\ r.from + n \in 0 .. Size
  BY SizeAssumption
<1>3. data' = [data EXCEPT ![r.loc] = Bytes(0, r.from + n)]
  <2>1. Bytes(0, r.from) \o Bytes(r.from, n) = Bytes(0, r.from + n)
    BY <1>2, BytesConcat
  <2>2. data[r.loc] \o Bytes(r.offset, n) = Bytes(0, r.from + n)
    BY <1>1, <2>1
  <2> QED
    BY <2>2 DEF Received
<1>4. Bytes(0, r.from + n) \in Seq(0 .. Size - 1) /\ Len(Bytes(0, r.from + n)) = r.from + n
  <2>1. Bytes(0, r.from + n) \in Seq(0 .. Size - 1)
    BY <1>2, BytesType
  <2>2. Len(Bytes(0, r.from + n)) = r.from + n
    BY <1>2, BytesLen
  <2> QED
    BY <2>1, <2>2
<1>5. \A s \in Sessions : data'[s] = IF s = r.loc THEN Bytes(0, r.from + n) ELSE data[s]
  BY <1>1, <1>3
<1>6. data' \in [Sessions -> Seq(0 .. Size - 1)]
  BY <1>1, <1>3, <1>4
<1>7. ASSUME NEW s \in Sessions
      PROVE  /\ Len(data'[s]) <= Size
             /\ data'[s] = Bytes(0, Len(data'[s]))
             /\ Len(data[s]) <= Len(data'[s])
  <2>1. CASE s = r.loc
    BY <1>1, <1>2, <1>4, <1>5, <2>1
  <2>2. CASE s # r.loc
    BY <1>1, <1>5, <2>2 DEF SessionsHoldPrefix
  <2> QED
    BY <2>1, <2>2
<1> QED
  BY <1>1, <1>4, <1>5, <1>6, <1>7 DEF SessionsHoldPrefix

\* The offset read from a Range header: the length of the session, or 1.
LEMMA RangeOffset ==
    ASSUME NEW n \in 0 .. Size, NEW offset \in nextOffsetFromRange(n), offset # ParseError
    PROVE  offset \in 0 .. Size /\ (offset = n \/ offset = 1)
BY SizeAssumption DEF nextOffsetFromRange, ParseError

\* A chunk is a non-empty range of the blob.
LEMMA ChunkRange ==
    ASSUME NEW loc \in {NoSession} \cup Sessions, NEW offset \in 0 .. Size - 1
    PROVE  /\ nextChunk(loc, offset) \in Chunks
           /\ nextChunk(loc, offset).loc = loc
           /\ nextChunk(loc, offset).offset = offset
           /\ offset <= nextChunk(loc, offset).end
BY SizeAssumption DEF nextChunk, SmallerOf, Chunks

\* Every step preserves the invariant.
LEMMA IndInvStep ==
    ASSUME IndInv, [Next]_vars
    PROVE  IndInv'
<1> USE SizeAssumption DEF IndInv, TypeOK, client, registry, Fault, NoFault, Fail
<1>1. CASE Push
  <2>1. TypeOK'
    BY <1>1 DEF Push, ControlTypeOK, BufferTypeOK, RegistryTypeOK, PCs
  <2>2. SessionsHoldPrefix' /\ LateInPlace'
    BY <1>1 DEF Push, SessionsHoldPrefix, LateInPlace
  <2>3. BodyInPlace' /\ ChunkInHand' /\ OffsetBacked' /\ ResumesSession' /\ TempsOwned'
    BY <1>1 DEF Push, BodyInPlace, ChunkInHand, OffsetBacked, ResumesSession, AttemptSize,
                TempsOwned,
               Count, BufferTypeOK
  <2> QED
    BY <2>1, <2>2, <2>3
<1>2. CASE loadUploadState
  <2>1. TypeOK'
    BY <1>2 DEF loadUploadState, validUploadState, ControlTypeOK, BufferTypeOK, RegistryTypeOK,
                PCs,
               Kinds, NoError, Files, NoFile, Corrupt, NoSession
  <2>2. SessionsHoldPrefix' /\ LateInPlace'
    BY <1>2 DEF loadUploadState, validUploadState, SessionsHoldPrefix, LateInPlace
  <2>3. BodyInPlace' /\ ChunkInHand' /\ OffsetBacked' /\ ResumesSession' /\ TempsOwned'
    BY <1>2 DEF loadUploadState, validUploadState, BodyInPlace, ChunkInHand, OffsetBacked,
               ResumesSession, AttemptSize, TempsOwned, Count, BufferTypeOK, NoFile, Corrupt, Files
  <2> QED
    BY <2>1, <2>2, <2>3
<1>3. CASE discardStaleState
  <2>1. TypeOK'
    <3>1. ControlTypeOK'
      BY <1>3 DEF discardStaleState, ControlTypeOK, BufferTypeOK, Chunks, PCs
    <3>2. BufferTypeOK' /\ file' \in Files /\ RegistryTypeOK'
      BY <1>3 DEF discardStaleState, BufferTypeOK, RegistryTypeOK, Files, State, NoFile,
                  Corrupt,
                 NoSession
    <3> QED
      BY <3>1, <3>2
  <2>2. SessionsHoldPrefix' /\ LateInPlace'
    BY <1>3 DEF discardStaleState, SessionsHoldPrefix, LateInPlace
  <2>3. BodyInPlace' /\ ChunkInHand' /\ OffsetBacked' /\ ResumesSession' /\ TempsOwned'
    BY <1>3 DEF discardStaleState, BodyInPlace, ChunkInHand, OffsetBacked, ResumesSession,
                AttemptSize,
               TempsOwned, Count, BufferTypeOK, State, NoFile, Corrupt
  <2> QED
    BY <2>1, <2>2, <2>3
<1>4. CASE postFails
  <2>1. TypeOK'
    BY <1>4 DEF postFails, ControlTypeOK, BufferTypeOK, RegistryTypeOK, PCs, Kinds, NoError
  <2>2. SessionsHoldPrefix' /\ LateInPlace'
    BY <1>4 DEF postFails, SessionsHoldPrefix, LateInPlace
  <2>3. BodyInPlace' /\ ChunkInHand' /\ OffsetBacked' /\ ResumesSession' /\ TempsOwned'
    BY <1>4 DEF postFails, BodyInPlace, ChunkInHand, OffsetBacked, ResumesSession, AttemptSize,
               TempsOwned, Count, BufferTypeOK
  <2> QED
    BY <2>1, <2>2, <2>3
<1>5. CASE saveUploadState
  <2>1. TypeOK'
    <3>1. ControlTypeOK'
      BY <1>5 DEF saveUploadState, ControlTypeOK, BufferTypeOK, Chunks, NextAttempt, PCs, Kinds,
                  NoError
    <3>2. BufferTypeOK' /\ file' \in Files /\ RegistryTypeOK'
      BY <1>5 DEF saveUploadState, BufferTypeOK, RegistryTypeOK, Files, State, NoFile, Corrupt,
                  NoSession,
                 Chunks
    <3> QED
      BY <3>1, <3>2
  <2>2. SessionsHoldPrefix' /\ LateInPlace'
    BY <1>5 DEF saveUploadState, SessionsHoldPrefix, LateInPlace
  <2>3. BodyInPlace' /\ ChunkInHand' /\ OffsetBacked' /\ ResumesSession' /\ TempsOwned'
    BY <1>5 DEF saveUploadState, BodyInPlace, ChunkInHand, OffsetBacked, ResumesSession,
                AttemptSize,
               TempsOwned, Count, BufferTypeOK, NextAttempt, State, NoFile, Corrupt
  <2> QED
    BY <2>1, <2>2, <2>3
<1>6. CASE saveFails
  <2>1. TypeOK'
    BY <1>6 DEF saveFails, ControlTypeOK, BufferTypeOK, RegistryTypeOK, PCs, Kinds, NoError,
                Files,
               State, NoFile, Corrupt, NoSession
  <2>2. SessionsHoldPrefix' /\ LateInPlace'
    BY <1>6 DEF saveFails, SessionsHoldPrefix, LateInPlace
  <2>3. BodyInPlace' /\ ChunkInHand' /\ OffsetBacked' /\ ResumesSession' /\ TempsOwned'
    BY <1>6 DEF saveFails, BodyInPlace, ChunkInHand, OffsetBacked, ResumesSession, AttemptSize,
               TempsOwned, Count, BufferTypeOK, State, NoFile, Corrupt
  <2> QED
    BY <2>1, <2>2, <2>3
<1>7. CASE prefetch
  <2>1. TypeOK'
    <3>1. ControlTypeOK'
      BY <1>7 DEF prefetch, ControlTypeOK, BufferTypeOK, Chunks
    <3>2. BufferTypeOK' /\ file' \in Files /\ RegistryTypeOK'
      BY <1>7 DEF prefetch, BufferTypeOK, RegistryTypeOK, Prefetches
    <3> QED
      BY <3>1, <3>2
  <2>2. SessionsHoldPrefix' /\ LateInPlace'
    BY <1>7 DEF prefetch, SessionsHoldPrefix, LateInPlace
  <2>3. BodyInPlace' /\ ChunkInHand' /\ OffsetBacked' /\ ResumesSession' /\ TempsOwned'
    BY <1>7 DEF prefetch, BodyInPlace, ChunkInHand, OffsetBacked, ResumesSession, AttemptSize,
               TempsOwned, Count, BufferTypeOK, Prefetches
  <2> QED
    BY <2>1, <2>2, <2>3
<1>8. CASE spoolFails
  <2>1. TypeOK'
    <3>1. ControlTypeOK'
      BY <1>8 DEF spoolFails, ControlTypeOK, BufferTypeOK, Chunks, NextAttempt, PCs, Kinds,
                  NoError
    <3>2. BufferTypeOK' /\ file' \in Files /\ RegistryTypeOK'
      BY <1>8 DEF spoolFails, BufferTypeOK, RegistryTypeOK
    <3> QED
      BY <3>1, <3>2
  <2>2. SessionsHoldPrefix' /\ LateInPlace'
    BY <1>8 DEF spoolFails, SessionsHoldPrefix, LateInPlace
  <2>3. BodyInPlace' /\ ChunkInHand' /\ OffsetBacked' /\ ResumesSession' /\ TempsOwned'
    BY <1>8 DEF spoolFails, BodyInPlace, ChunkInHand, OffsetBacked, ResumesSession, AttemptSize,
               TempsOwned, Count, BufferTypeOK, NextAttempt
  <2> QED
    BY <2>1, <2>2, <2>3
<1>9. CASE close
  <2>1. TypeOK'
    BY <1>9 DEF close, TakeReturns, ControlTypeOK, BufferTypeOK, RegistryTypeOK, PCs, NoError,
               Prefetches, Idle
  <2>2. SessionsHoldPrefix' /\ LateInPlace'
    BY <1>9 DEF close, TakeReturns, SessionsHoldPrefix, LateInPlace
  <2>3. BodyInPlace' /\ ChunkInHand' /\ OffsetBacked' /\ ResumesSession' /\ TempsOwned'
    BY <1>9 DEF close, TakeReturns, BodyInPlace, ChunkInHand, OffsetBacked, ResumesSession,
                AttemptSize,
               TempsOwned, Count, BufferTypeOK, Idle, Prefetches
  <2> QED
    BY <2>1, <2>2, <2>3
<1>10. CASE patchRejected
  <2>1. TypeOK'
    BY <1>10 DEF patchRejected, ChunkDone, ControlTypeOK, BufferTypeOK, RegistryTypeOK, PCs,
                 Kinds,
               NoError, Chunks, Bodies, NoBody
  <2>2. SessionsHoldPrefix' /\ LateInPlace'
    BY <1>10 DEF patchRejected, ChunkDone, SessionsHoldPrefix, LateInPlace
  <2>3. BodyInPlace' /\ ChunkInHand' /\ OffsetBacked' /\ ResumesSession' /\ TempsOwned'
    BY <1>10 DEF patchRejected, ChunkDone, BodyInPlace, ChunkInHand, OffsetBacked,
                 ResumesSession,
               AttemptSize, TempsOwned, Count, BufferTypeOK
  <2> QED
    BY <2>1, <2>2, <2>3
<1>11. CASE putBlobUpload
  <2>1. TypeOK'
    BY <1>11 DEF putBlobUpload, ControlTypeOK, BufferTypeOK, RegistryTypeOK, PCs, Kinds, NoError,
                 Chunks
  <2>2. SessionsHoldPrefix' /\ LateInPlace'
    BY <1>11 DEF putBlobUpload, SessionsHoldPrefix, LateInPlace
  <2>3. BodyInPlace' /\ ChunkInHand' /\ OffsetBacked' /\ ResumesSession' /\ TempsOwned'
    BY <1>11 DEF putBlobUpload, BodyInPlace, ChunkInHand, OffsetBacked, ResumesSession,
                 AttemptSize,
               TempsOwned, Count, BufferTypeOK
  <2> QED
    BY <2>1, <2>2, <2>3
<1>12. CASE putFails
  <2>1. TypeOK'
    <3>1. ControlTypeOK'
      BY <1>12 DEF putFails, ControlTypeOK, BufferTypeOK, Chunks, PCs, Kinds, NoError
    <3>2. BufferTypeOK' /\ file' \in Files /\ RegistryTypeOK'
      BY <1>12 DEF putFails, BufferTypeOK, RegistryTypeOK, Chunks
    <3> QED
      BY <3>1, <3>2
  <2>2. SessionsHoldPrefix' /\ LateInPlace'
    BY <1>12 DEF putFails, SessionsHoldPrefix, LateInPlace
  <2>3. BodyInPlace' /\ ChunkInHand' /\ OffsetBacked' /\ ResumesSession' /\ TempsOwned'
    BY <1>12 DEF putFails, BodyInPlace, ChunkInHand, OffsetBacked, ResumesSession, AttemptSize,
               TempsOwned, Count, BufferTypeOK
  <2> QED
    BY <2>1, <2>2, <2>3
<1>13. CASE deleteUploadState
  <2>1. TypeOK'
    <3>1. ControlTypeOK'
      BY <1>13 DEF deleteUploadState, ControlTypeOK, BufferTypeOK, Chunks, PCs, Kinds, NoError
    <3>2. BufferTypeOK' /\ file' \in Files /\ RegistryTypeOK'
      BY <1>13 DEF deleteUploadState, BufferTypeOK, RegistryTypeOK, Files, State, NoFile,
                   Corrupt,
                 NoSession
    <3> QED
      BY <3>1, <3>2
  <2>2. SessionsHoldPrefix' /\ LateInPlace'
    BY <1>13 DEF deleteUploadState, SessionsHoldPrefix, LateInPlace
  <2>3. BodyInPlace' /\ ChunkInHand' /\ OffsetBacked' /\ ResumesSession' /\ TempsOwned'
    BY <1>13 DEF deleteUploadState, BodyInPlace, ChunkInHand, OffsetBacked, ResumesSession,
                 AttemptSize,
               TempsOwned, Count, BufferTypeOK, State, NoFile, Corrupt
  <2> QED
    BY <2>1, <2>2, <2>3
<1>14. CASE Retry
  <2>1. TypeOK'
    BY <1>14 DEF Retry, Restarted, ControlTypeOK, BufferTypeOK, RegistryTypeOK, PCs, Kinds,
                 NoError,
               NoSession, Chunks, Bodies, Prefetches, NoChunk, NoBody, Idle
  <2>2. SessionsHoldPrefix' /\ LateInPlace'
    BY <1>14 DEF Retry, Restarted, SessionsHoldPrefix, LateInPlace
  <2>3. BodyInPlace' /\ ChunkInHand' /\ OffsetBacked' /\ ResumesSession' /\ TempsOwned'
    BY <1>14 DEF Retry, Restarted, BodyInPlace, ChunkInHand, OffsetBacked, ResumesSession,
                 AttemptSize,
               TempsOwned, Count, BufferTypeOK, Idle, Prefetches
  <2> QED
    BY <2>1, <2>2, <2>3
<1>15. CASE ClearUploadStateAndRetry
  <2>1. TypeOK'
    BY <1>15 DEF ClearUploadStateAndRetry, Restarted, ControlTypeOK, BufferTypeOK,
                 RegistryTypeOK, PCs,
               Kinds, NoError, Files, State, NoFile, Corrupt, NoSession, Chunks, Bodies, Prefetches,
               NoChunk, NoBody, Idle
  <2>2. SessionsHoldPrefix' /\ LateInPlace'
    BY <1>15 DEF ClearUploadStateAndRetry, Restarted, SessionsHoldPrefix, LateInPlace
  <2>3. BodyInPlace' /\ ChunkInHand' /\ OffsetBacked' /\ ResumesSession' /\ TempsOwned'
    BY <1>15 DEF ClearUploadStateAndRetry, Restarted, BodyInPlace, ChunkInHand, OffsetBacked,
               ResumesSession, AttemptSize, TempsOwned, Count, BufferTypeOK, State, NoFile, Corrupt,
               Idle, Prefetches
  <2> QED
    BY <2>1, <2>2, <2>3
<1>16. CASE Abort
  <2>1. TypeOK'
    BY <1>16 DEF Abort, Restarted, ControlTypeOK, BufferTypeOK, RegistryTypeOK, PCs, Kinds,
                 NoError,
               NoSession, Chunks, Bodies, Prefetches, NoChunk, NoBody, Idle
  <2>2. SessionsHoldPrefix' /\ LateInPlace'
    BY <1>16 DEF Abort, Restarted, SessionsHoldPrefix, LateInPlace
  <2>3. BodyInPlace' /\ ChunkInHand' /\ OffsetBacked' /\ ResumesSession' /\ TempsOwned'
    BY <1>16 DEF Abort, Restarted, BodyInPlace, ChunkInHand, OffsetBacked, ResumesSession,
                 AttemptSize,
               TempsOwned, Count, BufferTypeOK, Idle, Prefetches
  <2> QED
    BY <2>1, <2>2, <2>3
<1>17. CASE Rerun
  <2>1. TypeOK'
    BY <1>17 DEF Rerun, ControlTypeOK, BufferTypeOK, RegistryTypeOK, PCs
  <2>2. SessionsHoldPrefix' /\ LateInPlace'
    BY <1>17 DEF Rerun, SessionsHoldPrefix, LateInPlace
  <2>3. BodyInPlace' /\ ChunkInHand' /\ OffsetBacked' /\ ResumesSession' /\ TempsOwned'
    BY <1>17 DEF Rerun, BodyInPlace, ChunkInHand, OffsetBacked, ResumesSession, AttemptSize,
                 TempsOwned,
               Count, BufferTypeOK
  <2> QED
    BY <2>1, <2>2, <2>3
<1>18. CASE Crash
  <2>1. TypeOK'
    BY <1>18 DEF Crash, Restarted, ControlTypeOK, BufferTypeOK, RegistryTypeOK, PCs, Kinds,
                 NoError,
               Files, State, NoFile, Corrupt, NoSession, Chunks, Bodies, Prefetches, NoChunk, NoBody,
               Idle
  <2>2. SessionsHoldPrefix' /\ LateInPlace'
    BY <1>18 DEF Crash, Restarted, SessionsHoldPrefix, LateInPlace
  <2>3. BodyInPlace' /\ ChunkInHand' /\ OffsetBacked' /\ ResumesSession' /\ TempsOwned'
    BY <1>18 DEF Crash, Restarted, BodyInPlace, ChunkInHand, OffsetBacked, ResumesSession,
                 AttemptSize,
               TempsOwned, Count, BufferTypeOK, State, NoFile, Corrupt, Idle, Prefetches
  <2> QED
    BY <2>1, <2>2, <2>3
<1>19. CASE resumeBlobUpload
  <2> PICK offset \in nextOffsetFromRange(Len(data[file.loc])) :
          /\ offset # ParseError
          /\ SaveThen("started", [loc |-> file.loc, offset |-> offset, end |-> offset - 1])
    BY <1>19 DEF resumeBlobUpload
  <2>0. /\ file.loc \in Sessions
        /\ Len(data[file.loc]) \in 0 .. Size
        /\ offset \in 0 .. Size
        /\ offset = Len(data[file.loc]) \/ offset = 1
    <3>1. file.loc \in Sessions
      BY <1>19 DEF resumeBlobUpload, ResumesSession
    <3>2. Len(data[file.loc]) \in 0 .. Size
      BY <3>1 DEF RegistryTypeOK, SessionsHoldPrefix
    <3> QED
      BY <3>1, <3>2, RangeOffset
  <2>1. ControlTypeOK'
    BY <1>19 DEF resumeBlobUpload, ControlTypeOK, PCs, SaveThen
  <2>2. BufferTypeOK' /\ file' \in Files
    BY <1>19, <2>0 DEF resumeBlobUpload, BufferTypeOK, SaveThen, Chunks
  <2>3. RegistryTypeOK' /\ SessionsHoldPrefix' /\ LateInPlace'
    BY <1>19 DEF resumeBlobUpload, RegistryTypeOK, SessionsHoldPrefix, LateInPlace
  <2>4. BodyInPlace' /\ ChunkInHand' /\ OffsetBacked' /\ ResumesSession'
    BY <1>19, <2>0 DEF resumeBlobUpload, SaveThen, BodyInPlace, ChunkInHand, OffsetBacked,
                       ResumesSession
  <2>5. TempsOwned'
    BY <1>19 DEF resumeBlobUpload, SaveThen, TempsOwned, Count
  <2> QED
    BY <2>1, <2>2, <2>3, <2>4, <2>5
<1>20. CASE postBlobUpload
  <2>0. /\ posts + 1 \in Sessions
        /\ nextChunk(posts + 1, 0) \in Chunks
        /\ nextChunk(posts + 1, 0).loc = posts + 1
        /\ nextChunk(posts + 1, 0).offset = 0
        /\ 0 <= nextChunk(posts + 1, 0).end
    <3>1. posts + 1 \in Sessions /\ 0 \in 0 .. Size - 1
      BY <1>20 DEF postBlobUpload, RegistryTypeOK, Sessions, MaxSessions
    <3> QED
      BY <3>1, ChunkRange
  <2>1. ControlTypeOK'
    BY <1>20 DEF postBlobUpload, ControlTypeOK, PCs, SaveThen, onRestart
  <2>2. BufferTypeOK' /\ file' \in Files
    BY <1>20, <2>0 DEF postBlobUpload, BufferTypeOK, SaveThen
  <2>3. RegistryTypeOK' /\ SessionsHoldPrefix' /\ LateInPlace'
    BY <1>20, <2>0 DEF postBlobUpload, RegistryTypeOK, SessionsHoldPrefix, LateInPlace, Sessions,
                       MaxSessions
  <2>4. BodyInPlace' /\ ChunkInHand' /\ OffsetBacked' /\ ResumesSession'
    BY <1>20, <2>0 DEF postBlobUpload, SaveThen, BodyInPlace, ChunkInHand, OffsetBacked,
                       ResumesSession, RegistryTypeOK
  <2>5. TempsOwned'
    BY <1>20 DEF postBlobUpload, SaveThen, TempsOwned, Count
  <2> QED
    BY <2>1, <2>2, <2>3, <2>4, <2>5
<1>21. CASE fetch
  <2>0. AttemptSize \in 1 .. Size /\ cur.offset + AttemptSize \in 1 .. Size
    BY <1>21 DEF fetch, BufferTypeOK, Chunks, ChunkInHand, AttemptSize
  <2>1. ControlTypeOK'
    BY <1>21 DEF fetch, ControlTypeOK, PCs, Count
  <2>2. BufferTypeOK' /\ file' \in Files
    <3>1. Ahead(cur.offset + AttemptSize) \in Prefetches /\ Idle \in Prefetches
      BY <2>0 DEF Ahead, Idle, Prefetches, SmallerOf
    <3>2. [offset |-> pending.offset, size |-> pending.size] \in Bodies
      BY DEF BufferTypeOK, Prefetches, Bodies
    <3>3. [offset |-> cur.offset, size |-> AttemptSize] \in Bodies
      BY <2>0 DEF BufferTypeOK, Chunks, Bodies
    <3> QED
      BY <1>21, <3>1, <3>2, <3>3 DEF fetch, BufferTypeOK
  <2>3. RegistryTypeOK' /\ SessionsHoldPrefix' /\ LateInPlace'
    BY <1>21 DEF fetch, RegistryTypeOK, SessionsHoldPrefix, LateInPlace
  <2>4. BodyInPlace' /\ ChunkInHand' /\ OffsetBacked' /\ ResumesSession'
    BY <1>21, <2>0 DEF fetch, TakeReturns, Prefetched, BodyInPlace, ChunkInHand, OffsetBacked,
                       ResumesSession, AttemptSize
  <2>5. TempsOwned'
    BY <1>21, <2>0 DEF fetch, TakeReturns, Prefetched, TempsOwned, Count, Ahead, ReadsAhead,
                       Idle, BufferTypeOK, Prefetches
  <2> QED
    BY <2>1, <2>2, <2>3, <2>4, <2>5
<1>22. CASE prepareChunkContent
  <2>0. AttemptSize \in 1 .. Size /\ cur.offset + AttemptSize \in 1 .. Size
    BY <1>22 DEF prepareChunkContent, BufferTypeOK, Chunks, ChunkInHand, AttemptSize
  <2>1. ControlTypeOK'
    BY <1>22 DEF prepareChunkContent, ControlTypeOK, PCs, Count
  <2>2. BufferTypeOK' /\ file' \in Files
    <3>1. Ahead(cur.offset + AttemptSize) \in Prefetches /\ Idle \in Prefetches
      BY <2>0 DEF Ahead, Idle, Prefetches, SmallerOf
    <3>2. [offset |-> pending.offset, size |-> pending.size] \in Bodies
      BY DEF BufferTypeOK, Prefetches, Bodies
    <3>3. [offset |-> cur.offset, size |-> AttemptSize] \in Bodies
      BY <2>0 DEF BufferTypeOK, Chunks, Bodies
    <3> QED
      BY <1>22, <3>1, <3>2, <3>3 DEF prepareChunkContent, BufferTypeOK
  <2>3. RegistryTypeOK' /\ SessionsHoldPrefix' /\ LateInPlace'
    BY <1>22 DEF prepareChunkContent, RegistryTypeOK, SessionsHoldPrefix, LateInPlace
  <2>4. BodyInPlace' /\ ChunkInHand' /\ OffsetBacked' /\ ResumesSession'
    BY <1>22, <2>0 DEF prepareChunkContent, BodyInPlace, ChunkInHand, OffsetBacked,
                       ResumesSession, AttemptSize
  <2>5. TempsOwned'
    BY <1>22, <2>0 DEF prepareChunkContent, TempsOwned, Count, Ahead, ReadsAhead, Idle,
                       BufferTypeOK, Prefetches
  <2> QED
    BY <2>1, <2>2, <2>3, <2>4, <2>5
<1>23. CASE chunkLoop
  <2>0. ASSUME BytesRemain
        PROVE  /\ nextChunk(cur.loc, cur.offset) \in Chunks
               /\ nextChunk(cur.loc, cur.offset).loc = cur.loc
               /\ nextChunk(cur.loc, cur.offset).offset = cur.offset
               /\ cur.offset <= nextChunk(cur.loc, cur.offset).end
    <3>1. cur.loc \in {NoSession} \cup Sessions /\ cur.offset \in 0 .. Size - 1
      BY <2>0 DEF BytesRemain, BufferTypeOK, Chunks
    <3> QED
      BY <3>1, ChunkRange
  <2>1. ControlTypeOK'
    BY <1>23 DEF chunkLoop, ControlTypeOK, PCs
  <2>2. BufferTypeOK' /\ file' \in Files
    BY <1>23, <2>0 DEF chunkLoop, BufferTypeOK
  <2>3. RegistryTypeOK' /\ SessionsHoldPrefix' /\ LateInPlace'
    BY <1>23 DEF chunkLoop, RegistryTypeOK, SessionsHoldPrefix, LateInPlace
  <2>4. BodyInPlace' /\ ChunkInHand' /\ OffsetBacked' /\ ResumesSession'
    BY <1>23, <2>0 DEF chunkLoop, BytesRemain, BufferTypeOK, Chunks, BodyInPlace, ChunkInHand,
                       OffsetBacked, ResumesSession
  <2>5. TempsOwned'
    BY <1>23 DEF chunkLoop, TempsOwned, Count
  <2> QED
    BY <2>1, <2>2, <2>3, <2>4, <2>5
<1>24. CASE patchLost
  <2>0. Request \in Requests /\ Request.offset = Request.from /\ Request.from + Request.size <= Size
    BY <1>24 DEF patchLost, Request, Requests, BodyInPlace, OffsetBacked, ChunkInHand,
                 AttemptSize, BufferTypeOK, Chunks, Bodies
  <2>1. ControlTypeOK'
    BY <1>24 DEF patchLost, ChunkDone, ControlTypeOK, PCs, Kinds, Count
  <2>2. BufferTypeOK' /\ file' \in Files
    BY <1>24 DEF patchLost, ChunkDone, BufferTypeOK, NoBody, Bodies
  <2>3. RegistryTypeOK' /\ SessionsHoldPrefix' /\ LateInPlace'
    BY <1>24, <2>0 DEF patchLost, RegistryTypeOK, SessionsHoldPrefix, LateInPlace
  <2>4. BodyInPlace' /\ ChunkInHand' /\ OffsetBacked' /\ ResumesSession'
    BY <1>24 DEF patchLost, BodyInPlace, ChunkInHand, OffsetBacked, ResumesSession
  <2>5. TempsOwned'
    BY <1>24 DEF patchLost, ChunkDone, TempsOwned, Count
  <2> QED
    BY <2>1, <2>2, <2>3, <2>4, <2>5
<1>25. CASE recoverOrRestartChunk
  <2>0. ASSUME NEW offset \in nextOffsetFromRange(Len(data[cur.loc])), cur.offset <= offset, offset <= Size
        PROVE  /\ offset \in 0 .. Size
               /\ offset <= Len(data[cur.loc]) \/ offset = 1
               /\ [cur EXCEPT !.offset = offset] \in Chunks
    <3>1. cur.loc \in Sessions /\ Len(data[cur.loc]) \in 0 .. Size /\ offset # ParseError
      BY <1>25, <2>0 DEF recoverOrRestartChunk, OffsetBacked, RegistryTypeOK,
                         SessionsHoldPrefix,
                        BufferTypeOK, Chunks, ParseError
    <3>2. offset \in 0 .. Size /\ (offset = Len(data[cur.loc]) \/ offset = 1)
      BY <3>1, RangeOffset
    <3> QED
      BY <3>1, <3>2 DEF BufferTypeOK, Chunks
  <2>1. ControlTypeOK'
    BY <1>25 DEF recoverOrRestartChunk, SaveThen, ControlTypeOK, PCs
  <2>2. BufferTypeOK' /\ file' \in Files
    BY <1>25, <2>0 DEF recoverOrRestartChunk, SaveThen, BufferTypeOK
  <2>3. RegistryTypeOK' /\ SessionsHoldPrefix' /\ LateInPlace'
    BY <1>25 DEF recoverOrRestartChunk, RegistryTypeOK, SessionsHoldPrefix, LateInPlace
  <2>4. BodyInPlace' /\ ChunkInHand' /\ OffsetBacked' /\ ResumesSession'
    BY <1>25, <2>0 DEF recoverOrRestartChunk, SaveThen, BodyInPlace, ChunkInHand, OffsetBacked,
                       ResumesSession,
                      BufferTypeOK, Chunks
  <2>5. TempsOwned'
    BY <1>25 DEF recoverOrRestartChunk, SaveThen, TempsOwned, Count
  <2> QED
    BY <2>1, <2>2, <2>3, <2>4, <2>5
<1>26. CASE \E s \in open : Expire(s)
  <2>1. ControlTypeOK' /\ BufferTypeOK' /\ file' \in Files
    BY <1>26 DEF Expire, ControlTypeOK, BufferTypeOK
  <2>2. RegistryTypeOK' /\ SessionsHoldPrefix' /\ LateInPlace'
    BY <1>26 DEF Expire, RegistryTypeOK, SessionsHoldPrefix, LateInPlace
  <2>3. BodyInPlace' /\ ChunkInHand' /\ OffsetBacked' /\ ResumesSession' /\ TempsOwned'
    BY <1>26 DEF Expire, BodyInPlace, ChunkInHand, OffsetBacked, ResumesSession, TempsOwned,
                 AttemptSize
  <2> QED
    BY <2>1, <2>2, <2>3
<1>27. ASSUME NEW r \in late, LateApply(r) PROVE IndInv'
  <2>0. /\ data' \in [Sessions -> Seq(0 .. Size - 1)]
        /\ SessionsHoldPrefix'
        /\ \A s \in Sessions : Len(data[s]) <= Len(data'[s])
    <3> PICK n \in 0 .. r.size : data' = IF Acceptable(r) THEN Received(r, n) ELSE data
      BY <1>27 DEF LateApply
    <3>1. CASE Acceptable(r)
      <4>1. /\ r.loc \in Sessions /\ r.from \in 0 .. Size /\ r.size \in 0 .. Size
            /\ r.offset = r.from /\ r.from + r.size <= Size
        BY DEF LateInPlace, RegistryTypeOK, Requests
      <4> QED
        BY <3>1, <4>1, ReceivedExtends
    <3>2. CASE ~Acceptable(r)
      BY <3>2 DEF RegistryTypeOK, SessionsHoldPrefix
    <3> QED
      BY <3>1, <3>2
  <2>1. ControlTypeOK' /\ BufferTypeOK' /\ file' \in Files
    BY <1>27 DEF LateApply, ControlTypeOK, BufferTypeOK
  <2>2. RegistryTypeOK' /\ LateInPlace'
    BY <1>27, <2>0 DEF LateApply, RegistryTypeOK, LateInPlace
  <2>3. BodyInPlace' /\ ChunkInHand' /\ ResumesSession' /\ TempsOwned'
    BY <1>27 DEF LateApply, BodyInPlace, ChunkInHand, ResumesSession, TempsOwned, AttemptSize
  <2>4. OffsetBacked'
    BY <1>27, <2>0 DEF LateApply, OffsetBacked, RegistryTypeOK, BufferTypeOK, Chunks
  <2> QED
    BY <2>0, <2>1, <2>2, <2>3, <2>4
<1>28. CASE patchBlobUpload
  <2> PICK n \in 0 .. body.size :
         /\ data' = Received(Request, n)
         /\ IF n < body.size THEN Fault ELSE NoFault
         /\ \E next \in nextOffsetFromRange(cur.offset + n) : Answered(next)
    BY <1>28 DEF patchBlobUpload
  <2> PICK next \in nextOffsetFromRange(cur.offset + n) : Answered(next)
    OBVIOUS
  <2>a. /\ cur.loc \in Sessions /\ cur.offset \in 0 .. Size /\ body.size \in 0 .. Size
        /\ body.offset = cur.offset /\ cur.offset + body.size <= Size
    BY <1>28 DEF patchBlobUpload, BodyInPlace, OffsetBacked, ChunkInHand, AttemptSize,
                 BufferTypeOK, Chunks, Bodies
  <2>b. /\ data' \in [Sessions -> Seq(0 .. Size - 1)]
        /\ SessionsHoldPrefix'
        /\ Len(data'[cur.loc]) = cur.offset + n
        /\ \A s \in Sessions : Len(data[s]) <= Len(data'[s])
    <3> DEFINE r == Request
    <3>1. r.loc = cur.loc /\ r.from = cur.offset /\ r.offset = body.offset /\ r.size = body.size
      BY DEF Request
    <3>2. Acceptable(r) /\ data' = Received(r, n)
      BY <1>28 DEF patchBlobUpload
    <3> HIDE DEF r
    <3> QED
      BY <2>a, <3>1, <3>2, ReceivedExtends
  <2>c. next # ParseError => next \in 0 .. Size /\ (next = cur.offset + n \/ next = 1)
    BY <2>a, RangeOffset
  <2>1. ControlTypeOK'
    BY <1>28 DEF patchBlobUpload, ChunkDone, Answered, SaveThen, ControlTypeOK, PCs, Kinds,
                 Count
  <2>2. BufferTypeOK' /\ file' \in Files
    BY <1>28, <2>c DEF patchBlobUpload, ChunkDone, Answered, SaveThen, BufferTypeOK, NoBody,
                       Bodies, Chunks
  <2>3. RegistryTypeOK' /\ SessionsHoldPrefix' /\ LateInPlace'
    BY <1>28, <2>b DEF patchBlobUpload, RegistryTypeOK, LateInPlace
  <2>4. BodyInPlace' /\ ChunkInHand' /\ ResumesSession'
    BY <1>28 DEF patchBlobUpload, Answered, SaveThen, BodyInPlace, ChunkInHand, ResumesSession
  <2>5. OffsetBacked'
    <3>1. cur'.loc = cur.loc /\ n \in Nat
      BY <2>a DEF Answered, SaveThen, BufferTypeOK, Chunks
    <3>2. \/ pc' \in {"recover", "closing"} /\ cur' = cur
          \/ pc' = "save" /\ cur'.offset = next /\ next # ParseError
      BY DEF Answered, SaveThen, BufferTypeOK, Chunks
    <3> QED
      BY <2>a, <2>b, <2>c, <3>1, <3>2 DEF OffsetBacked
  <2>6. TempsOwned'
    BY <1>28 DEF patchBlobUpload, ChunkDone, Answered, SaveThen, TempsOwned, Count
  <2> QED
    BY <2>1, <2>2, <2>3, <2>4, <2>5, <2>6, <2>b
<1>29. CASE UNCHANGED vars
  BY <1>29 DEF vars, ControlTypeOK, BufferTypeOK, RegistryTypeOK, SessionsHoldPrefix,
               LateInPlace, BodyInPlace,
              ChunkInHand, OffsetBacked, ResumesSession, TempsOwned, AttemptSize
<1>30. CASE discardFails
  <2>1. TypeOK'
    BY <1>30 DEF discardFails, ControlTypeOK, BufferTypeOK, RegistryTypeOK, PCs, Kinds, NoError
  <2>2. SessionsHoldPrefix' /\ LateInPlace'
    BY <1>30 DEF discardFails, SessionsHoldPrefix, LateInPlace
  <2>3. BodyInPlace' /\ ChunkInHand' /\ OffsetBacked' /\ ResumesSession' /\ TempsOwned'
    BY <1>30 DEF discardFails, BodyInPlace, ChunkInHand, OffsetBacked, ResumesSession, AttemptSize,
               TempsOwned, Count, BufferTypeOK
  <2> QED
    BY <2>1, <2>2, <2>3
<1> HIDE DEF IndInv
<1> QED
  BY <1>1, <1>2, <1>3, <1>4, <1>5, <1>6, <1>7, <1>8, <1>9, <1>10, <1>11, <1>12, <1>13, <1>14,
        <1>15, <1>16, <1>17, <1>18, <1>19, <1>20, <1>21, <1>22, <1>23, <1>24, <1>25, <1>26,
        <1>27, <1>28, <1>29, <1>30 DEF Next, Client, Operator, Faulty, Terminated

\* The initial states satisfy the invariant.
LEMMA IndInvInit == Init => IndInv
<1> SUFFICES ASSUME Init PROVE IndInv
  OBVIOUS
<1> USE SizeAssumption DEF Init
<1>1. ControlTypeOK
  BY DEF ControlTypeOK, PCs, Kinds, NoError
<1>2. BufferTypeOK /\ file \in Files
  BY DEF BufferTypeOK, Chunks, Bodies, Prefetches, NoChunk, NoBody, Idle, Files, State,
         NoSession
<1>3. RegistryTypeOK /\ LateInPlace
  <2>1. << >> \in Seq(0 .. Size - 1)
    OBVIOUS
  <2>2. data \in [Sessions -> Seq(0 .. Size - 1)]
    BY <2>1
  <2>3. posts \in 0 .. MaxSessions /\ open \in SUBSET (1 .. posts)
    BY DEF MaxSessions
  <2>4. late \in SUBSET Requests /\ blob \in BOOLEAN
    OBVIOUS
  <2> QED
    BY <2>2, <2>3, <2>4 DEF RegistryTypeOK, LateInPlace
<1>4. SessionsHoldPrefix
  <2>1. Bytes(0, 0) = << >>
    BY DEF Bytes
  <2> QED
    BY <2>1 DEF SessionsHoldPrefix
<1>5. BodyInPlace /\ ChunkInHand /\ OffsetBacked /\ ResumesSession
  BY DEF BodyInPlace, ChunkInHand, OffsetBacked, ResumesSession
<1>6. TempsOwned
  BY DEF TempsOwned, Count, Idle
<1> QED
  BY <1>1, <1>2, <1>3, <1>4, <1>5, <1>6 DEF IndInv, TypeOK

\* The inductive invariant holds in every reachable state.
THEOREM Invariance == Spec => []IndInv
<1>1. IndInv /\ [Next]_vars => IndInv'
  BY IndInvStep
<1> QED
  BY IndInvInit, <1>1, PTL DEF Spec

\* The variables of pushBlobChunked, of the state file and of the registry keep
\* their types, for every blob, chunk size and number of faults.
THEOREM TypeCorrect == Spec => []TypeOK
<1>1. IndInv => TypeOK
  BY DEF IndInv
<1> QED
  BY Invariance, <1>1, PTL

\* Whatever is retried, prefetched, resumed, restarted or applied late, an
\* upload session holds the first bytes of the blob, each once and in order.
THEOREM PrefixHeld == Spec => []SessionsHoldPrefix
<1>1. IndInv => SessionsHoldPrefix
  BY DEF IndInv
<1> QED
  BY Invariance, <1>1, PTL

\* pushBlobChunked asks for the digest only when the session has every byte,
\* although the offset it works with may be one that the session never reached.
THEOREM FinalizesWhole == Spec => []PutIsComplete
<1>1. IndInv => PutIsComplete
  <2> SUFFICES ASSUME IndInv, pc = "put" PROVE Complete(cur.loc)
    BY DEF PutIsComplete
  <2>1. cur.loc \in Sessions /\ cur.offset = Size /\ (cur.offset <= Len(data[cur.loc]) \/ cur.offset = 1)
    BY DEF IndInv, OffsetBacked, ChunkInHand
  <2>2. /\ Len(data[cur.loc]) <= Size /\ Len(data[cur.loc]) \in Nat
        /\ data[cur.loc] = Bytes(0, Len(data[cur.loc]))
    BY <2>1 DEF IndInv, SessionsHoldPrefix, TypeOK, RegistryTypeOK
  <2>3. Len(data[cur.loc]) = Size
    BY <2>1, <2>2, SizeAssumption
  <2> QED
    BY <2>2, <2>3 DEF Complete
<1> QED
  BY Invariance, <1>1, PTL

\* chunkPrefetcher.fetch never reads the source while the prefetch goroutine
\* reads it.
THEOREM OneReader == Spec => []SingleReader
<1>1. IndInv => SingleReader
  BY DEF IndInv, TempsOwned, SingleReader
<1> QED
  BY Invariance, <1>1, PTL

\* At most two chunks are on disk, and none once the push has returned.
THEOREM TempsRemoved == Spec => []TempFilesBounded
<1>1. IndInv => TempFilesBounded
  BY SizeAssumption DEF IndInv, TypeOK, ControlTypeOK, TempsOwned, Count, TempFilesBounded
<1> QED
  BY Invariance, <1>1, PTL

\* No step writes a record without a location to the upload state file, a crash
\* in the middle of the write included.
THEOREM StateNeverPoisoned == Spec => NeverPoisonsState
<1> DEFINE Clean == file' # file /\ file'.state = "this" => file'.loc # NoSession
<1>1. IndInv /\ [Next]_vars => [Clean]_vars
  <2> SUFFICES ASSUME IndInv, Next PROVE Clean
    OBVIOUS
  <2>1. pc = "save" => cur.loc # NoSession
    BY SizeAssumption DEF IndInv, OffsetBacked, Sessions, NoSession, MaxSessions
  <2>2. CASE saveUploadState \/ saveFails \/ Crash
    BY <2>1, <2>2 DEF saveUploadState, saveFails, Crash, State, Corrupt
  <2>3. CASE discardStaleState \/ deleteUploadState \/ ClearUploadStateAndRetry
    BY <2>3 DEF discardStaleState, deleteUploadState, ClearUploadStateAndRetry, NoFile
  <2>4. CASE UNCHANGED file
    BY <2>4
  <2> QED
    BY <2>2, <2>3, <2>4 DEF Next, Client, Operator, Faulty, Terminated, vars, client,
       Push, loadUploadState, resumeBlobUpload, postBlobUpload, prefetch, fetch, prepareChunkContent, close,
       chunkLoop, patchBlobUpload, patchRejected, recoverOrRestartChunk, putBlobUpload, putFails,
       Retry, Abort, Rerun, discardFails, postFails, spoolFails, patchLost, Expire, LateApply
<1> QED
  BY Invariance, <1>1, PTL DEF Spec, NeverPoisonsState

\* uploadChunkWithRetry never computes an empty range.
THEOREM NoEmptyRange == Spec => []RangeNonEmpty
<1>1. IndInv => RangeNonEmpty
  BY DEF IndInv, ChunkInHand, RangeNonEmpty
<1> QED
  BY Invariance, <1>1, PTL
=============================================================================
