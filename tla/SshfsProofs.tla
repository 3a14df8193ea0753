---------------------------- MODULE SshfsProofs ----------------------------
(***************************************************************************)
(* Proofs about the SSH server's two file protocols.                       *)
(*                                                                         *)
(* SftpFile, for every length of the file, every number of open writes and *)
(* of chunks under way: the write handler is given the whole file, and a   *)
(* path without read handler reads as its last answer; for every directory *)
(* and page size, a listing has each entry once.                           *)
(*                                                                         *)
(* ScpSession, for files of every content and length and any number of     *)
(* records and warnings before them: the write handler is called with what *)
(* the client sent, a client is told so only then, a fetched file is what  *)
(* the read handler answered, and no byte is left over.                    *)
(***************************************************************************)
EXTENDS SftpFile, ScpSession, WellFoundedInduction, SequenceTheorems, TLAPS

----------------------------------------------------------------------------
(* SFTP: files and listings *)

\* A function on 1 .. n is a sequence of n elements.
LEMMA SeqOfFunction ==
  ASSUME NEW n \in Nat, NEW f \in [1 .. n -> Nat]
  PROVE  f \in Seq(Nat) /\ Len(f) = n
OBVIOUS

\* WriteAt's buffer: as long as it has to be, with the chunk in its place.
LEMMA ChunkWritten ==
  ASSUME NEW data \in Seq(Nat), NEW i \in Nat \ {0}
  PROVE  /\ WithChunk(data, i) \in Seq(Nat)
         /\ Len(WithChunk(data, i)) = IF i > Len(data) THEN i ELSE Len(data)
         /\ \A j \in 1 .. Len(WithChunk(data, i)) : WithChunk(data, i)[j] =
              IF j = i THEN i ELSE IF j <= Len(data) THEN data[j] ELSE Gap
<1> DEFINE n == IF i > Len(data) THEN i ELSE Len(data)
           d == WithChunk(data, i)
<1>1. n \in Nat /\ Len(data) \in Nat /\ Gap \in Nat
  BY DEF Gap
<1>2. \A j \in 1 .. Len(data) : data[j] \in Nat
  OBVIOUS
<1>3. d = [j \in 1 .. n |-> IF j = i THEN i ELSE IF j <= Len(data) THEN data[j] ELSE Gap]
  BY DEF WithChunk
<1>4. d \in [1 .. n -> Nat]
  BY <1>1, <1>2, <1>3
<1>5. d \in Seq(Nat) /\ Len(d) = n
  <2> HIDE DEF n, d
  <2> QED BY <1>1, <1>4, SeqOfFunction
<1> QED BY <1>3, <1>5

\* What the handler is given: the buffer up to the chunk's end.
LEMMA PrefixOfBuffer ==
  ASSUME NEW data \in Seq(Nat), NEW i \in 1 .. Len(data)
  PROVE  /\ SubSeq(data, 1, i) \in Seq(Nat) /\ Len(SubSeq(data, 1, i)) = i
         /\ \A j \in 1 .. i : SubSeq(data, 1, i)[j] = data[j]
OBVIOUS

----------------------------------------------------------------------------
(* Writing *)

\* Chunks that are sent, answers that are cached and handles that are opened or
\* closed leave what was written, and the buffer, as they are.
LEMMA SameBuffer ==
  ASSUME NEW w, GoodHandle(w), NEW v \in HandleState, InFlight(v),
         v.data = w.data, v.call = w.call, v.inOrder = w.inOrder,
         Written(v) = Written(w), w.sent <= v.sent
  PROVE  GoodHandle(v)
<1>1. Buffered(v)
  BY DEF GoodHandle, Buffered, HandleState
<1>2. Called(v)
  BY DEF GoodHandle, Called
<1> QED BY <1>1, <1>2 DEF GoodHandle

\* Filewrite.
LEMMA OpenedHandle ==
  ASSUME NEW w, GoodHandle(w), w.at = "closed"
  PROVE  GoodHandle([w EXCEPT !.at = "open"])
<1> DEFINE v == [w EXCEPT !.at = "open"]
<1>1. v \in HandleState /\ v.sent = w.sent /\ v.flight = w.flight /\ v.at = "open"
      /\ v.data = w.data /\ v.call = w.call /\ v.inOrder = w.inOrder
  BY DEF GoodHandle, HandleState
<1>2. InFlight(v) /\ Written(v) = Written(w)
  BY <1>1 DEF GoodHandle, InFlight, Written, Answered
<1>3. w.sent <= v.sent
  BY <1>1 DEF HandleState
<1> QED BY <1>1, <1>2, <1>3, SameBuffer

\* CloseFile.
LEMMA ClosedHandle ==
  ASSUME NEW w, GoodHandle(w), w.at = "open", w.sent = FileLength, w.flight = {}
  PROVE  GoodHandle([w EXCEPT !.at = "done"])
<1> DEFINE v == [w EXCEPT !.at = "done"]
<1>1. v \in HandleState /\ v.sent = w.sent /\ v.flight = w.flight /\ v.at = "done"
      /\ v.data = w.data /\ v.call = w.call /\ v.inOrder = w.inOrder
  BY DEF GoodHandle, HandleState
<1>2. InFlight(v) /\ Written(v) = Written(w)
  BY <1>1 DEF GoodHandle, InFlight, Written, Answered
<1>3. w.sent <= v.sent
  BY <1>1 DEF HandleState
<1> QED BY <1>1, <1>2, <1>3, SameBuffer

\* SendChunk: the chunk is under way, so it is not written.
LEMMA SentChunk ==
  ASSUME NEW w, GoodHandle(w), w.at \in {"open", "serving"}, w.sent < FileLength
  PROVE  GoodHandle([w EXCEPT !.sent = w.sent + 1, !.flight = w.flight \cup {w.sent + 1}])
<1> DEFINE v == [w EXCEPT !.sent = w.sent + 1, !.flight = w.flight \cup {w.sent + 1}]
<1>1. /\ v.sent = w.sent + 1 /\ v.flight = w.flight \cup {w.sent + 1} /\ v.at = w.at
      /\ v.data = w.data /\ v.call = w.call /\ v.inOrder = w.inOrder
      /\ v.chunk = w.chunk /\ w.sent \in Nat
  BY DEF GoodHandle, HandleState
<1>2. v \in HandleState
  <2>1. w.sent + 1 \in 0 .. FileLength /\ w.sent + 1 \in 1 .. FileLength
    BY <1>1, FileLengthAssumption
  <2> QED BY <2>1 DEF GoodHandle, HandleState
<1>3. InFlight(v)
  BY <1>1 DEF GoodHandle, InFlight
<1>4. Written(v) = Written(w)
  BY <1>1 DEF GoodHandle, InFlight, Written, Answered
<1>5. w.sent <= v.sent
  BY <1>1
<1> QED BY <1>1, <1>2, <1>3, <1>4, <1>5, SameBuffer

\* CacheAnswer: an answered chunk is written before and after.
LEMMA CachedAnswer ==
  ASSUME NEW w, GoodHandle(w), w.at = "serving"
  PROVE  GoodHandle([w EXCEPT !.at = "open", !.answer = 0,
                              !.flight = w.flight \ {w.chunk}])
<1> DEFINE v == [w EXCEPT !.at = "open", !.answer = 0, !.flight = w.flight \ {w.chunk}]
<1>1. /\ v.sent = w.sent /\ v.flight = w.flight \ {w.chunk} /\ v.at = "open"
      /\ v.data = w.data /\ v.call = w.call /\ v.inOrder = w.inOrder
      /\ w.sent <= v.sent
  BY DEF GoodHandle, HandleState
<1>2. v \in HandleState
  <2>1. w.flight \ {w.chunk} \in SUBSET (1 .. FileLength)
    BY DEF GoodHandle, HandleState
  <2> QED BY <2>1 DEF GoodHandle, HandleState
<1>3. InFlight(v) /\ Written(v) = Written(w)
  BY <1>1 DEF GoodHandle, InFlight, Written, Answered
<1> QED BY <1>1, <1>2, <1>3, SameBuffer

\* ServeChunk: the buffer holds the chunk from now on, and the script is given
\* what precedes it.
LEMMA ServedChunk ==
  ASSUME NEW w, GoodHandle(w), w.at = "open", NEW i \in w.flight, NEW answer \in Nat,
         NEW v \in HandleState, v.at = "serving", v.sent = w.sent, v.flight = w.flight,
         v.chunk = i, v.data = WithChunk(w.data, i), v.call = SubSeq(v.data, 1, i),
         v.inOrder = (w.inOrder /\ i = Len(w.call) + 1)
  PROVE  GoodHandle(v)
<1>1. i \in 1 .. w.sent /\ i \in Nat \ {0} /\ w.sent \in Nat
  BY DEF GoodHandle, InFlight, HandleState
<1>2. /\ w.data \in Seq(Nat) /\ Len(w.data) \in Nat /\ Len(w.data) <= w.sent
      /\ w.call \in Seq(Nat) /\ Len(w.call) \in Nat
  BY DEF GoodHandle, Buffered, HandleState
<1>3. Written(v) = Written(w) \cup {i} /\ Written(v) \subseteq 1 .. w.sent
  BY <1>1 DEF Written, Answered
<1>4. InFlight(v)
  BY DEF GoodHandle, InFlight
<1>5. /\ v.data \in Seq(Nat)
      /\ Len(v.data) = IF i > Len(w.data) THEN i ELSE Len(w.data)
      /\ \A j \in 1 .. Len(v.data) : v.data[j] =
           IF j = i THEN i ELSE IF j <= Len(w.data) THEN w.data[j] ELSE Gap
  BY <1>1, <1>2, ChunkWritten
<1>6. \A j \in 1 .. Len(v.data) : v.data[j] = IF j \in Written(v) THEN j ELSE Gap
  <2>1. /\ \A j \in 1 .. Len(w.data) : w.data[j] = IF j \in Written(w) THEN j ELSE Gap
        /\ Written(w) \subseteq 1 .. Len(w.data)
    BY DEF GoodHandle, Buffered
  <2> QED BY <1>1, <1>2, <1>3, <1>5, <2>1
<1>7. Buffered(v)
  <2>1. Written(w) \subseteq 1 .. Len(w.data)
    BY DEF GoodHandle, Buffered
  <2>2. Written(v) \subseteq 1 .. Len(v.data) /\ Len(v.data) <= v.sent
    BY <1>1, <1>2, <1>3, <1>5, <2>1
  <2> QED BY <1>6, <2>2 DEF Buffered
<1>8. i \in 1 .. Len(v.data)
  BY <1>1, <1>2, <1>5
<1>9. Len(v.call) = i /\ \A j \in 1 .. i : v.call[j] = v.data[j]
  BY <1>5, <1>8, PrefixOfBuffer
<1>10. v.inOrder => Written(v) = 1 .. i
  <2>1. w.inOrder => Written(w) = 1 .. Len(w.call)
    BY DEF GoodHandle, Called
  <2>2. ASSUME v.inOrder PROVE w.inOrder /\ i = Len(w.call) + 1
    BY <2>2, Zenon
  <2> QED BY <1>1, <1>2, <1>3, <2>1, <2>2
<1>11. \A j \in 1 .. i : v.call[j] = j \/ (v.call[j] = Gap /\ ~v.inOrder)
  <2>1. \A j \in 1 .. i : j \in 1 .. Len(v.data)
    BY <1>1, <1>8, <1>5, <1>2
  <2> QED BY <1>6, <1>9, <1>10, <2>1
<1>12. Called(v)
  BY <1>9, <1>10, <1>11 DEF Called
<1> QED BY <1>4, <1>7, <1>12 DEF GoodHandle

\* A step of one handle, from a good record to a good one.
LEMMA OneHandle ==
  ASSUME WriteInv, NEW h \in Handles, NEW v, GoodHandle(v),
         handle' = [handle EXCEPT ![h] = v], answers' \in {answers, answers + 1}
  PROVE  WriteInv'
BY DEF WriteInv, GoodHandle, InFlight, Buffered, Called, Written, Answered

\* Every open write is a good one, whatever order its chunks are served in.
THEOREM GoodHandles == SpecSftp => []WriteInv
<1>1. InitSftp => WriteInv
  <2>1. Closed \in HandleState
    <3>1. <<>> \in Seq(Nat) /\ {} \in SUBSET (1 .. FileLength) /\ 0 \in 0 .. FileLength
      BY FileLengthAssumption
    <3> QED BY <3>1 DEF Closed, HandleState
  <2>2. GoodHandle(Closed)
    BY <2>1 DEF Closed, GoodHandle, InFlight, Buffered, Called, Written, Answered
  <2>3. InitSftp => handle = [h \in Handles |-> Closed] /\ answers = 0
    BY DEF InitSftp
  <2> QED BY <2>2, <2>3 DEF WriteInv
<1>2. WriteInv /\ [NextSftp]_sftpVars => WriteInv'
  <2> SUFFICES ASSUME WriteInv, [NextSftp]_sftpVars PROVE WriteInv'
    OBVIOUS
  <2>1. ASSUME NEW h \in Handles, Filewrite(h) PROVE WriteInv'
    <3>1. GoodHandle([handle[h] EXCEPT !.at = "open"])
      BY <2>1, OpenedHandle DEF WriteInv, Filewrite
    <3>2. handle' = [handle EXCEPT ![h] = [handle[h] EXCEPT !.at = "open"]]
      BY <2>1 DEF Filewrite
    <3>3. answers' = answers
      BY <2>1 DEF Filewrite
    <3> QED BY <3>1, <3>2, <3>3, OneHandle
  <2>2. ASSUME NEW h \in Handles, SendChunk(h) PROVE WriteInv'
    <3> DEFINE w == handle[h]
               v == [w EXCEPT !.sent = w.sent + 1, !.flight = w.flight \cup {w.sent + 1}]
    <3>1. GoodHandle(v)
      BY <2>2, SentChunk DEF WriteInv, SendChunk
    <3>2. handle' = [handle EXCEPT ![h] = v]
      BY <2>2 DEF SendChunk
    <3>3. answers' = answers
      BY <2>2 DEF SendChunk
    <3> QED BY <3>1, <3>2, <3>3, OneHandle
  <2>3. ASSUME NEW h \in Handles, NEW i \in 1 .. FileLength, ServeChunk(h, i) PROVE WriteInv'
    <3> DEFINE w == handle[h]
               data == WithChunk(w.data, i)
               v(a) == [w EXCEPT !.at = "serving", !.data = data,
                          !.call = SubSeq(data, 1, i), !.chunk = i,
                          !.inOrder = @ /\ i = Len(w.call) + 1, !.answer = a]
    <3>1. PICK a \in {0, answers + 1} : handle' = [handle EXCEPT ![h] = v(a)]
      <4>1. PICK a \in {0, answers + 1} :
              handle' = [handle EXCEPT ![h].at = "serving", ![h].data = data,
                           ![h].call = SubSeq(data, 1, i), ![h].chunk = i,
                           ![h].inOrder = @ /\ i = Len(w.call) + 1, ![h].answer = a]
        BY <2>3 DEF ServeChunk
      <4>2. handle' = [handle EXCEPT ![h] = v(a)]
        BY <4>1
      <4> QED BY <4>2
    <3>2. /\ GoodHandle(w) /\ w.at = "open" /\ i \in w.flight /\ a \in Nat
          /\ w \in HandleState /\ answers' = answers + 1
      BY <2>3 DEF WriteInv, GoodHandle, ServeChunk
    <3>3. i \in Nat \ {0} /\ w.data \in Seq(Nat) /\ w.call \in Seq(Nat)
      BY <3>2, FileLengthAssumption DEF HandleState
    <3>4. data \in Seq(Nat) /\ i \in 1 .. Len(data)
      <4>1. Len(data) = IF i > Len(w.data) THEN i ELSE Len(w.data)
        BY <3>3, ChunkWritten
      <4>2. i \in 1 .. Len(data)
        BY <3>3, <4>1
      <4> QED BY <3>3, <4>2, ChunkWritten
    <3>5. SubSeq(data, 1, i) \in Seq(Nat)
      BY <3>4, PrefixOfBuffer
    <3>6. /\ v(a).at = "serving" /\ v(a).sent = w.sent /\ v(a).flight = w.flight
          /\ v(a).chunk = i /\ v(a).data = data /\ v(a).call = SubSeq(data, 1, i)
          /\ v(a).inOrder = (w.inOrder /\ i = Len(w.call) + 1)
      <4> HIDE DEF data
      <4> QED BY <3>2 DEF HandleState
    <3>7. v(a) \in HandleState
      <4> HIDE DEF data
      <4> QED BY <3>2, <3>3, <3>4, <3>5 DEF HandleState
    <3>8. GoodHandle(v(a))
      <4> HIDE DEF v
      <4> QED BY <3>2, <3>6, <3>7, ServedChunk
    <3> QED BY <3>1, <3>2, <3>8, OneHandle
  <2>4. ASSUME NEW h \in Handles, CacheAnswer(h) PROVE WriteInv'
    <3> DEFINE w == handle[h]
               v == [w EXCEPT !.at = "open", !.answer = 0, !.flight = w.flight \ {w.chunk}]
    <3>1. GoodHandle(v)
      BY <2>4, CachedAnswer DEF WriteInv, CacheAnswer
    <3>2. handle' = [handle EXCEPT ![h] = v]
      BY <2>4 DEF CacheAnswer
    <3>3. answers' = answers
      BY <2>4 DEF CacheAnswer
    <3> QED BY <3>1, <3>2, <3>3, OneHandle
  <2>5. ASSUME NEW h \in Handles, CloseFile(h) PROVE WriteInv'
    <3>1. GoodHandle([handle[h] EXCEPT !.at = "done"])
      BY <2>5, ClosedHandle DEF WriteInv, CloseFile
    <3>2. handle' = [handle EXCEPT ![h] = [handle[h] EXCEPT !.at = "done"]]
      BY <2>5 DEF CloseFile
    <3>3. answers' = answers
      BY <2>5 DEF CloseFile
    <3> QED BY <3>1, <3>2, <3>3, OneHandle
  <2>6. ASSUME UNCHANGED <<handle, answers>> PROVE WriteInv'
    BY <2>6 DEF WriteInv, GoodHandle, InFlight, Buffered, Called, Written, Answered
  <2>7. Fileread \/ Filecmd \/ Filelist \/ EntriesChange \/ ListAt \/ UNCHANGED sftpVars
        => UNCHANGED <<handle, answers>>
    BY DEF Fileread, Filecmd, Filelist, EntriesChange, ListAt, sftpVars, fileVars
  <2> QED BY <2>1, <2>2, <2>3, <2>4, <2>5, <2>6, <2>7 DEF NextSftp
<1> QED BY <1>1, <1>2, PTL DEF SpecSftp

\* Whatever order the chunks of an open write are served in, its buffer is the
\* file when it is closed, and so is the script's last call if they came in order.
THEOREM WholeFilesServed == SpecSftp => []WholeFileServed
<1>1. WriteInv => WholeFileServed
  <2> SUFFICES ASSUME NEW w, GoodHandle(w)
               PROVE  /\ w.at = "done" => w.data = File
                      /\ w.at = "done" /\ w.inOrder => w.call = File
                      /\ \A j \in DOMAIN w.call :
                           w.call[j] = j \/ (w.call[j] = Gap /\ ~w.inOrder)
    BY DEF WriteInv, WholeFileServed
  <2>1. w.data \in Seq(Nat) /\ w.call \in Seq(Nat) /\ FileLength \in Nat
    BY FileLengthAssumption DEF GoodHandle, HandleState
  <2>2. ASSUME w.at = "done" PROVE Written(w) = 1 .. FileLength
    BY <2>2 DEF GoodHandle, InFlight, Written, Answered
  <2>3. ASSUME NEW s \in Seq(Nat), Len(s) = FileLength,
               \A j \in 1 .. Len(s) : s[j] = j
        PROVE  s = File
    BY <2>3 DEF File
  <2>4. ASSUME w.at = "done" PROVE w.data = File
    <3>1. Len(w.data) = FileLength
      BY <2>1, <2>2, <2>4, FileLengthAssumption DEF GoodHandle, InFlight, Buffered
    <3>2. \A j \in 1 .. Len(w.data) : w.data[j] = j
      BY <2>2, <2>4, <3>1 DEF GoodHandle, Buffered
    <3> QED BY <2>1, <2>3, <3>1, <3>2
  <2>5. ASSUME w.at = "done", w.inOrder PROVE w.call = File
    <3>1. Len(w.call) = FileLength
      BY <2>1, <2>2, <2>5, FileLengthAssumption DEF GoodHandle, Called
    <3>2. \A j \in 1 .. Len(w.call) : w.call[j] = j
      BY <2>5 DEF GoodHandle, Called
    <3> QED BY <2>1, <2>3, <3>1, <3>2
  <2> QED BY <2>1, <2>4, <2>5 DEF GoodHandle, Called
<1> QED BY <1>1, GoodHandles, PTL

----------------------------------------------------------------------------
(* Reading *)

\* What Filewrite, SendChunk and CloseFile do: no answer begins to wait.
LEMMA NothingWaits ==
  ASSUME ReadInv,
         \A k \in Handles : Waits(k)' => Waits(k) /\ handle'[k].answer = handle[k].answer,
         UNCHANGED <<readHandler, writeCache, answers, overlapped, lastAnswer, found>>
  PROVE  ReadInv'
<1>1. OneWaits' /\ NewerWaits'
  BY DEF ReadInv, OneWaits, NewerWaits
<1>2. CacheIsLast' /\ ReadsLastAnswer'
  BY DEF ReadInv, CacheIsLast, ReadsLastAnswer
<1> QED BY <1>1, <1>2 DEF ReadInv

\* ServeChunk: what the script answers last is newer than anything cached.
LEMMA AnswerWaits ==
  ASSUME WriteInv, ReadInv, NEW h \in Handles, NEW i \in 1 .. FileLength, ServeChunk(h, i)
  PROVE  ReadInv'
<1> DEFINE w == handle[h]
<1>1. /\ \A k \in Handles \ {h} : handle'[k] = handle[k]
      /\ handle'[h].at = "serving" /\ handle'[h].answer \in {0, answers + 1}
  BY DEF ServeChunk, WriteInv, GoodHandle, HandleState
<1>2. /\ answers' = answers + 1 /\ UNCHANGED <<readHandler, writeCache, lastAnswer, found>>
      /\ overlapped => overlapped'
      /\ ~overlapped' => \A k \in Handles \ {h} : ~Waits(k)
  BY DEF ServeChunk, Waits
<1>3. /\ answers \in Nat /\ lastAnswer \in Nat /\ lastAnswer <= answers
      /\ \A k \in Handles : handle[k].answer \in Nat
  BY DEF ReadInv, CacheIsLast, WriteInv, GoodHandle, HandleState
<1>4. OneWaits'
  BY <1>1, <1>2 DEF OneWaits, Waits
<1>5. NewerWaits'
  BY <1>1, <1>2, <1>3 DEF ReadInv, NewerWaits, Waits
<1>6. CacheIsLast'
  BY <1>2 DEF ReadInv, CacheIsLast
<1>7. ReadsLastAnswer'
  BY <1>2 DEF ReadInv, ReadsLastAnswer
<1> QED BY <1>4, <1>5, <1>6, <1>7 DEF ReadInv

\* CacheAnswer: the answer that waits is the newest, unless answers overlapped.
LEMMA AnswerCached ==
  ASSUME WriteInv, ReadInv, NEW h \in Handles, CacheAnswer(h)
  PROVE  ReadInv'
<1> DEFINE a == handle[h].answer
<1>1. /\ \A k \in Handles \ {h} : handle'[k] = handle[k]
      /\ handle'[h].at = "open" /\ Waits(h)
  BY DEF CacheAnswer, WriteInv, GoodHandle, HandleState, Waits
<1>2. /\ UNCHANGED <<readHandler, answers, overlapped, found>>
      /\ writeCache' = IF a = 0 THEN writeCache ELSE a
      /\ lastAnswer' = IF a > lastAnswer THEN a ELSE lastAnswer
  BY DEF CacheAnswer, Kept
<1>3. a \in Nat /\ \A k \in Handles : handle[k].answer \in Nat
  BY DEF WriteInv, GoodHandle, HandleState
<1>4. a <= answers /\ (a # 0 /\ ~overlapped => a > lastAnswer)
  BY <1>1 DEF ReadInv, NewerWaits
<1>5. /\ answers \in Nat /\ lastAnswer \in Nat /\ writeCache \in Nat
      /\ lastAnswer <= answers /\ (~overlapped => writeCache = lastAnswer)
      /\ (lastAnswer # 0 => writeCache # 0)
  BY DEF ReadInv, CacheIsLast
<1>6. OneWaits'
  BY <1>1, <1>2 DEF ReadInv, OneWaits, Waits
<1>7. NewerWaits'
  <2>1. ~overlapped => \A k \in Handles : ~Waits(k)'
    BY <1>1 DEF ReadInv, OneWaits, Waits
  <2>2. \A k \in Handles : Waits(k)' => handle'[k] = handle[k] /\ Waits(k)
    BY <1>1 DEF Waits
  <2> QED BY <1>2, <2>1, <2>2 DEF ReadInv, NewerWaits, Waits
<1>8. CacheIsLast'
  BY <1>2, <1>3, <1>4, <1>5 DEF CacheIsLast
<1>9. ReadsLastAnswer'
  BY <1>2 DEF ReadInv, ReadsLastAnswer
<1> QED BY <1>6, <1>7, <1>8, <1>9 DEF ReadInv

\* Fileread finds what is cached.
LEMMA ReadFinds ==
  ASSUME ReadInv, Fileread
  PROVE  ReadInv'
<1>1. UNCHANGED <<readHandler, writeCache, handle, answers, overlapped, lastAnswer>>
      /\ found' = [result |-> Finds, answer |-> writeCache, last |-> lastAnswer]
  BY DEF Fileread
<1>2. OneWaits' /\ NewerWaits' /\ CacheIsLast'
  BY <1>1 DEF ReadInv, OneWaits, NewerWaits, CacheIsLast, Waits
<1>3. /\ Finds = "cached" => readHandler = "none" /\ writeCache # 0
      /\ Finds = "NoSuchFile" /\ readHandler = "none" => writeCache = 0
  BY DEF Finds
<1>4. ReadsLastAnswer'
  BY <1>1, <1>3 DEF ReadInv, CacheIsLast, ReadsLastAnswer
<1> QED BY <1>2, <1>4 DEF ReadInv

\* Unless answers overlapped, the cache is the script's last answer, and an answer
\* that waits to be cached is newer.
THEOREM CacheIsLastAnswer == SpecSftp => []ReadInv
<1>1. InitSftp => ReadInv
  <2> SUFFICES ASSUME InitSftp PROVE ReadInv
    OBVIOUS
  <2>1. /\ writeCache = 0 /\ answers = 0 /\ overlapped = FALSE /\ lastAnswer = 0
        /\ handle = [h \in Handles |-> Closed] /\ found = Nothing
    BY DEF InitSftp
  <2>2. \A h \in Handles : ~Waits(h)
    BY <2>1 DEF Waits, Closed
  <2>3. OneWaits /\ NewerWaits /\ CacheIsLast
    BY <2>1, <2>2 DEF OneWaits, NewerWaits, CacheIsLast
  <2>4. ReadsLastAnswer
    BY <2>1 DEF ReadsLastAnswer, Nothing
  <2> QED BY <2>3, <2>4 DEF ReadInv
<1>2. WriteInv /\ ReadInv /\ [NextSftp]_sftpVars => ReadInv'
  <2> SUFFICES ASSUME WriteInv, ReadInv, [NextSftp]_sftpVars PROVE ReadInv'
    OBVIOUS
  <2>1. ASSUME NEW h \in Handles, Filewrite(h) PROVE ReadInv'
    <3>1. \A k \in Handles : Waits(k)' => Waits(k) /\ handle'[k].answer = handle[k].answer
      BY <2>1 DEF Filewrite, Waits, WriteInv, GoodHandle, HandleState
    <3> QED BY <2>1, <3>1, NothingWaits DEF Filewrite
  <2>2. ASSUME NEW h \in Handles, SendChunk(h) PROVE ReadInv'
    <3>1. \A k \in Handles : Waits(k)' => Waits(k) /\ handle'[k].answer = handle[k].answer
      BY <2>2 DEF SendChunk, Waits, WriteInv, GoodHandle, HandleState
    <3> QED BY <2>2, <3>1, NothingWaits DEF SendChunk
  <2>3. ASSUME NEW h \in Handles, CloseFile(h) PROVE ReadInv'
    <3>1. \A k \in Handles : Waits(k)' => Waits(k) /\ handle'[k].answer = handle[k].answer
      BY <2>3 DEF CloseFile, Waits, WriteInv, GoodHandle, HandleState
    <3> QED BY <2>3, <3>1, NothingWaits DEF CloseFile
  <2>4. ASSUME Filecmd PROVE ReadInv'
    <3>1. /\ UNCHANGED <<readHandler, writeCache, handle, answers, overlapped, lastAnswer>>
          /\ found'.result \in {"removed", "not removed"}
      BY <2>4 DEF Filecmd, Nothing
    <3>2. OneWaits' /\ NewerWaits' /\ CacheIsLast'
      BY <3>1 DEF ReadInv, OneWaits, NewerWaits, CacheIsLast, Waits
    <3> QED BY <3>1, <3>2 DEF ReadInv, ReadsLastAnswer
  <2>5. ASSUME UNCHANGED <<readHandler, fileVars>> PROVE ReadInv'
    BY <2>5 DEF ReadInv, OneWaits, NewerWaits, CacheIsLast, ReadsLastAnswer, Waits, fileVars
  <2>6. Filelist \/ EntriesChange \/ ListAt \/ UNCHANGED sftpVars
        => UNCHANGED <<readHandler, fileVars>>
    BY DEF Filelist, EntriesChange, ListAt, sftpVars
  <2> QED
    BY <2>1, <2>2, <2>3, <2>4, <2>5, <2>6, AnswerWaits, AnswerCached, ReadFinds DEF NextSftp
<1> QED BY <1>1, <1>2, GoodHandles, PTL DEF SpecSftp

\* A path without read handler reads as the last answer that was acknowledged,
\* unless answers to two open writes overlapped.
THEOREM ReadsAreLastAnswers == SpecSftp => []ReadsLastAnswer
<1>1. ReadInv => ReadsLastAnswer
  BY DEF ReadInv
<1> QED BY <1>1, CacheIsLastAnswer, PTL

----------------------------------------------------------------------------
(* Listing *)

\* Induction: a set that has 0, and with each number the next one, has all.
LEMMA AllNumbers ==
  ASSUME NEW S, 0 \in S, \A n \in Nat : n \in S => n + 1 \in S
  PROVE  \A n \in Nat : n \in S
<1> DEFINE T == Nat \ S
<1> SUFFICES ASSUME T # {} PROVE FALSE
  OBVIOUS
<1>1. IsWellFoundedOn(OpToRel(<, Nat), Nat)
  BY NatLessThanWellFounded
<1>2. PICK x \in T : \A y \in T : ~ (<<y, x>> \in OpToRel(<, Nat))
  BY <1>1, WFMin
<1>3. \A m, n \in Nat : <<m, n>> \in OpToRel(<, Nat) <=> m < n
  BY DEF OpToRel
<1>4. x \in Nat /\ x # 0
  OBVIOUS
<1>5. x - 1 \in Nat /\ x - 1 < x /\ (x - 1) + 1 = x
  BY <1>4
<1>6. x - 1 \in S
  BY <1>2, <1>3, <1>4, <1>5
<1> QED BY <1>5, <1>6

\* readDir's lines that are not blank are a sequence of them.
LEMMA NotBlankLines ==
  ASSUME NEW entries \in Seq(Entries)
  PROVE  NotBlank(entries) \in Seq(Entries)
<1> DEFINE len == Len(entries)
           Next1(f, n) == IF n = 0 THEN <<>>
                          ELSE IF entries[n].blank THEN f[n - 1]
                                                   ELSE Append(f[n - 1], entries[n])
           Good(f, k) == \A n \in 0 .. k : f[n] = Next1(f, n)
           upTo == CHOOSE f : f = [n \in 0 .. len |-> Next1(f, n)]
<1>1. len \in Nat /\ \A n \in 1 .. len : entries[n] \in Entries
  OBVIOUS
<1> HIDE DEF len
<1>2. \A k \in Nat : k <= len => \E f \in [0 .. k -> Seq(Entries)] : Good(f, k)
  <2> DEFINE S == {k \in Nat : k <= len => \E f \in [0 .. k -> Seq(Entries)] : Good(f, k)}
  <2>1. 0 \in S
    <3> DEFINE f == [n \in 0 .. 0 |-> <<>>]
    <3>1. f \in [0 .. 0 -> Seq(Entries)] /\ Good(f, 0)
      OBVIOUS
    <3> QED BY <3>1
  <2>2. ASSUME NEW k \in Nat, k \in S PROVE k + 1 \in S
    <3> SUFFICES ASSUME k + 1 <= len
                 PROVE  \E g \in [0 .. k + 1 -> Seq(Entries)] : Good(g, k + 1)
      <4> HIDE DEF Good
      <4> QED OBVIOUS
    <3>1. PICK f \in [0 .. k -> Seq(Entries)] : Good(f, k)
      <4>1. k <= len
        BY <1>1
      <4> HIDE DEF Good
      <4> QED BY <2>2, <4>1
    <3> DEFINE g == [n \in 0 .. k + 1 |-> IF n = k + 1 THEN Next1(f, k + 1) ELSE f[n]]
    <3>2. Next1(f, k + 1) \in Seq(Entries)
      <4>1. f[(k + 1) - 1] \in Seq(Entries) /\ entries[k + 1] \in Entries
        BY <1>1
      <4> QED BY <4>1, AppendProperties
    <3>3. g \in [0 .. k + 1 -> Seq(Entries)]
      BY <3>2
    <3>4. \A n \in 0 .. k : g[n] = f[n]
      OBVIOUS
    <3>5. \A n \in 0 .. k + 1 : n # 0 => g[n - 1] = f[n - 1]
      BY <3>4
    <3>6. \A n \in 0 .. k + 1 : Next1(g, n) = Next1(f, n)
      BY <3>5
    <3>7. Good(g, k + 1)
      <4>1. \A n \in 0 .. k : g[n] = Next1(f, n)
        <5> HIDE DEF g, Next1
        <5> QED BY <3>1, <3>4
      <4>2. g[k + 1] = Next1(f, k + 1)
        OBVIOUS
      <4>3. \A n \in 0 .. k + 1 : n \in 0 .. k \/ n = k + 1
        OBVIOUS
      <4> HIDE DEF g, Next1
      <4> QED BY <3>6, <4>1, <4>2, <4>3
    <3> QED BY <3>3, <3>7
  <2>3. \A k \in Nat : k \in S
    <3> HIDE DEF S
    <3> QED BY <2>1, <2>2, AllNumbers
  <2> QED BY <2>3
<1>3. upTo = [n \in 0 .. len |-> Next1(upTo, n)]
  <2>1. PICK f \in [0 .. len -> Seq(Entries)] : Good(f, len)
    <3> HIDE DEF Good
    <3>1. len <= len
      BY <1>1
    <3> QED BY <1>1, <1>2, <3>1
  <2>2. f = [n \in 0 .. len |-> Next1(f, n)]
    BY <2>1
  <2> QED BY <2>2
<1> HIDE DEF upTo
<1>4. \A k \in Nat : k <= len => upTo[k] \in Seq(Entries)
  <2> DEFINE S == {k \in Nat : k <= len => upTo[k] \in Seq(Entries)}
  <2>1. 0 \in S
    BY <1>1, <1>3
  <2>2. ASSUME NEW k \in Nat, k \in S PROVE k + 1 \in S
    <3> SUFFICES ASSUME k + 1 <= len PROVE upTo[k + 1] \in Seq(Entries)
      OBVIOUS
    <3>1. upTo[k + 1] = Next1(upTo, k + 1)
      <4>1. k + 1 \in 0 .. len
        BY <1>1
      <4> HIDE DEF Next1
      <4> QED BY <1>3, <4>1
    <3>2. upTo[(k + 1) - 1] \in Seq(Entries) /\ entries[k + 1] \in Entries
      BY <1>1, <2>2
    <3> QED BY <3>1, <3>2, AppendProperties
  <2>3. \A k \in Nat : k \in S
    <3> HIDE DEF S
    <3> QED BY <2>1, <2>2, AllNumbers
  <2> QED BY <2>3
<1>5. NotBlank(entries) = upTo[len]
  BY DEF NotBlank, upTo, len
<1> QED BY <1>1, <1>4, <1>5

\* What a directory lists: each entry with its kind.
LEMMA ListedItems ==
  ASSUME NEW d \in [handler : BOOLEAN, entries : Seq(Entries)]
  PROVE  /\ Items(d) \in Seq(Item)
         /\ ~d.handler => \A i \in DOMAIN Items(d) :
                             Items(d)[i].isDir = ListedAsDir(Items(d)[i].entry)
<1>1. CASE d.handler
  <2> DEFINE names == NotBlank(d.entries)
  <2>1. names \in Seq(Entries)
    BY NotBlankLines
  <2>2. Items(d) = [i \in DOMAIN names |-> [entry |-> names[i], isDir |-> names[i].slash]]
    BY <1>1 DEF Items
  <2>3. \A e \in Entries : e.slash \in BOOLEAN
    BY EntriesAssumption DEF Entry
  <2> HIDE DEF names
  <2>4. /\ Len(names) \in Nat /\ DOMAIN names = 1 .. Len(names)
        /\ \A i \in 1 .. Len(names) : [entry |-> names[i], isDir |-> names[i].slash] \in Item
    BY <2>1, <2>3 DEF Item
  <2>5. Items(d) \in [1 .. Len(names) -> Item]
    BY <2>2, <2>4
  <2> QED BY <1>1, <2>4, <2>5
<1>2. CASE ~d.handler
  <2>1. Items(d) = [i \in DOMAIN d.entries |->
                      [entry |-> d.entries[i], isDir |-> ListedAsDir(d.entries[i])]]
    BY <1>2 DEF Items
  <2>2. \A e \in Entries : ListedAsDir(e) \in BOOLEAN
    BY EntriesAssumption DEF Entry, ListedAsDir
  <2>3. /\ Len(d.entries) \in Nat /\ DOMAIN d.entries = 1 .. Len(d.entries)
        /\ \A i \in 1 .. Len(d.entries) :
             [entry |-> d.entries[i], isDir |-> ListedAsDir(d.entries[i])] \in Item
    BY <2>2 DEF Item
  <2>4. Items(d) \in [1 .. Len(d.entries) -> Item]
    BY <2>1, <2>3
  <2>5. \A i \in DOMAIN Items(d) : Items(d)[i].isDir = ListedAsDir(Items(d)[i].entry)
    BY <2>1
  <2> QED BY <2>3, <2>4, <2>5
<1> QED BY <1>1, <1>2

\* The smaller of two numbers.
LEMMA SmallerOfTwo ==
  ASSUME NEW j \in Nat, NEW k \in Nat
  PROVE  Min({j, k}) \in {j, k} /\ Min({j, k}) <= j /\ Min({j, k}) <= k
<1>1. j <= k \/ k <= j
  OBVIOUS
<1> QED BY <1>1 DEF Min

\* What comes next continues a prefix of the list.
LEMMA PageListed ==
  ASSUME NEW items \in Seq(Item), NEW n \in 0 .. Len(items), NEW end \in n .. Len(items)
  PROVE  /\ SubSeq(items, 1, n) \o SubSeq(items, n + 1, end) = SubSeq(items, 1, end)
         /\ Len(SubSeq(items, n + 1, end)) = end - n
<1>1. PICK first, page, all :
        /\ first = SubSeq(items, 1, n) /\ page = SubSeq(items, n + 1, end)
        /\ all = SubSeq(items, 1, end)
  OBVIOUS
<1>2. /\ Len(items) \in Nat /\ n \in Nat /\ end \in Nat /\ n <= end /\ end <= Len(items)
      /\ \A i \in 1 .. Len(items) : items[i] \in Item
  OBVIOUS
<1>3. page \in Seq(Item) /\ Len(page) = end - n /\ \A i \in 1 .. end - n : page[i] = items[n + i]
  BY <1>1, <1>2
<1>4. first \in Seq(Item) /\ Len(first) = n /\ \A i \in 1 .. n : first[i] = items[i]
  BY <1>1, <1>2
<1>5. all \in Seq(Item) /\ Len(all) = end /\ \A i \in 1 .. end : all[i] = items[i]
  BY <1>1, <1>2
<1>6. /\ first \o page \in Seq(Item) /\ Len(first \o page) = end
      /\ \A i \in 1 .. end : (first \o page)[i] = items[i]
  <2>1. /\ first \o page \in Seq(Item) /\ Len(first \o page) = n + (end - n)
        /\ \A i \in 1 .. n + (end - n) :
             (first \o page)[i] = IF i <= n THEN first[i] ELSE page[i - n]
    <3>1. first \in Seq(Item) /\ page \in Seq(Item)
      BY <1>3, <1>4
    <3>2. /\ first \o page \in Seq(Item) /\ Len(first \o page) = Len(first) + Len(page)
          /\ \A i \in 1 .. Len(first) + Len(page) :
               (first \o page)[i] = IF i <= Len(first) THEN first[i] ELSE page[i - Len(first)]
      BY <3>1, ConcatProperties, Zenon
    <3>3. Len(first) = n /\ Len(page) = end - n
      BY <1>3, <1>4
    <3> QED BY <3>2, <3>3, Zenon
  <2>2. n + (end - n) = end
    BY <1>2
  <2>3. ASSUME NEW i \in 1 .. end PROVE (first \o page)[i] = items[i]
    <3>1. CASE i <= n
      BY <1>2, <1>4, <2>1, <2>2, <3>1
    <3>2. CASE ~(i <= n)
      <4>1. i - n \in 1 .. end - n /\ n + (i - n) = i
        BY <1>2, <3>2
      <4> QED BY <1>3, <2>1, <2>2, <3>2, <4>1
    <3> QED BY <3>1, <3>2
  <2> QED BY <2>1, <2>2, <2>3
<1>7. first \o page = all
  BY <1>5, <1>6, SeqEqual
<1> QED BY <1>1, <1>3, <1>7

LEMMA PrefixListed ==
  ASSUME NEW items \in Seq(Item), NEW listed \in Seq(Item)
  PROVE  IsPrefix(listed, items) <=>
           Len(listed) \in 0 .. Len(items) /\ listed = SubSeq(items, 1, Len(listed))
<1>1. SubSeq(listed, 1, Len(listed)) = listed /\ Len(listed) \in Nat /\ Len(items) \in Nat
  BY SubSeqFull
<1> QED BY <1>1 DEF IsPrefix

\* ListAt.
LEMMA ListAtKeeps ==
  ASSUME ListInv, ListAt
  PROVE  ListInv'
<1>1. PICK items, listed, n, end, page :
        /\ items = lister.items /\ listed = lister.listed /\ n = Len(listed)
        /\ end = Min({n + PageSize, Len(items)}) /\ page = SubSeq(items, n + 1, end)
  OBVIOUS
<1>2. /\ items \in Seq(Item) /\ listed \in Seq(Item) /\ n \in 0 .. Len(items)
      /\ listed = SubSeq(items, 1, n)
  <2>1. items \in Seq(Item) /\ listed \in Seq(Item) /\ IsPrefix(listed, items)
    BY <1>1 DEF ListInv, ListedOnce
  <2> QED BY <1>1, <2>1, PrefixListed
<1>3. /\ Len(items) \in Nat /\ n \in Nat /\ PageSize \in Nat /\ PageSize > 0
  BY <1>2, PageSizeAssumption
<1>4. PICK told \in BOOLEAN, at \in {"open", "end"} :
        /\ lister' = [lister EXCEPT !.listed = listed \o page, !.told = told, !.at = at]
        /\ told => n >= Len(items) \/ (n > 0 /\ n + Len(page) >= Len(items))
                                 \/ Len(page) < PageSize
        /\ Len(page) < PageSize => told
        /\ at = "end" => page = <<>>
  <2>1. lister' = [lister EXCEPT !.listed = listed \o page, !.told = TellsEnd(n, Len(page)),
                                !.at = IF page = <<>> THEN "end" ELSE "open"]
    BY <1>1 DEF ListAt, PageFrom
  <2>2. /\ TellsEnd(n, Len(page)) \in BOOLEAN
        /\ TellsEnd(n, Len(page)) <=>
             \/ n >= Len(items)
             \/ n > 0 /\ n + Len(page) >= Len(items)
             \/ Len(page) < PageSize
    <3>1. lister.items = items
      BY <1>1
    <3> QED BY <3>1, Zenon DEF TellsEnd
  <2> QED BY <2>1, <2>2
<1>5. /\ listed \o page = SubSeq(items, 1, end) /\ end \in n .. Len(items)
      /\ Len(page) = end - n
      /\ Len(page) < PageSize => end = Len(items)
  <2>1. /\ end \in {n + PageSize, Len(items)}
        /\ end <= n + PageSize /\ end <= Len(items)
    <3>1. n + PageSize \in Nat
      BY <1>3
    <3> QED BY <1>1, <1>3, <3>1, SmallerOfTwo
  <2>2. end \in n .. Len(items)
    BY <1>2, <1>3, <2>1
  <2>3. Len(page) = end - n /\ listed \o page = SubSeq(items, 1, end)
    <3>1. Len(SubSeq(items, n + 1, end)) = end - n
      BY <1>2, <2>2, PageListed
    <3>2. SubSeq(items, 1, n) \o SubSeq(items, n + 1, end) = SubSeq(items, 1, end)
      BY <1>2, <2>2, PageListed
    <3> QED BY <1>1, <1>2, <3>1, <3>2
  <2>4. Len(page) < PageSize => end = Len(items)
    BY <1>3, <2>1, <2>3
  <2> QED BY <2>2, <2>3, <2>4
<1>6. told => end = Len(items)
  <2>1. n >= Len(items) => end = Len(items)
    BY <1>3, <1>5
  <2>2. n + Len(page) >= Len(items) => end = Len(items)
    BY <1>3, <1>5
  <2> QED BY <1>4, <1>5, <2>1, <2>2
<1>7. page = <<>> => told
  <2>1. page = <<>> => Len(page) = 0
    OBVIOUS
  <2>2. page = <<>> => Len(page) < PageSize
    BY <1>3, <2>1
  <2> QED BY <1>4, <2>2
<1>8. /\ listed \o page \in Seq(Item) /\ IsPrefix(listed \o page, items)
      /\ told => listed \o page = items
  <2>1. /\ SubSeq(items, 1, end) \in Seq(Item) /\ Len(SubSeq(items, 1, end)) = end
        /\ end \in 0 .. Len(items)
    <3>1. \A i \in 1 .. end : items[i] \in Item
      BY <1>2, <1>3, <1>5
    <3>2. end \in Nat /\ end <= Len(items)
      BY <1>3, <1>5
    <3> QED BY <1>2, <1>3, <3>1, <3>2
  <2>2. end = Len(items) => SubSeq(items, 1, end) = items
    BY <1>2, SubSeqFull
  <2> QED BY <1>2, <1>5, <1>6, <2>1, <2>2, PrefixListed
<1>9. /\ lister'.items = items /\ lister'.listed = listed \o page
      /\ lister'.told = told /\ lister'.at = at
      /\ lister' \in [at : {"closed", "open", "end", "failed"}, items : Seq(Item), listed : Seq(Item),
                     told : BOOLEAN]
  <2>1. lister \in [at : {"closed", "open", "end", "failed"}, items : Seq(Item), listed : Seq(Item),
                    told : BOOLEAN]
    BY DEF ListInv
  <2>2. PICK all : all = listed \o page /\ all \in Seq(Item)
    BY <1>8
  <2>3. lister' = [lister EXCEPT !.listed = all, !.told = told, !.at = at]
    BY <1>4, <2>2
  <2> QED BY <1>1, <2>1, <2>2, <2>3
<1>10. /\ directory' = directory
       /\ directory \in [handler : BOOLEAN, entries : Seq(Entries)]
       /\ ~directory.handler => \A i \in DOMAIN items :
            StattedAsDir(items[i].entry) => items[i].isDir \/ items[i].entry.dirMode
  BY <1>1 DEF ListInv, ListedOnce, ListAt
<1>11. ListedOnce'
  <2>1. ~directory'.handler => \A i \in DOMAIN lister'.items :
          StattedAsDir(lister'.items[i].entry)
            => lister'.items[i].isDir \/ lister'.items[i].entry.dirMode
    BY <1>9, <1>10
  <2>2. /\ IsPrefix(lister'.listed, lister'.items)
        /\ lister'.told => lister'.listed = lister'.items
        /\ lister'.at = "end" => lister'.told
    BY <1>4, <1>7, <1>8, <1>9
  <2> QED BY <2>1, <2>2 DEF ListedOnce, StattedAsDir
<1> QED BY <1>9, <1>10, <1>11 DEF ListInv

\* A listing is a prefix of what the directory had when it began, and all of it
\* when its end is told.
THEOREM ListingsCorrect == SpecSftp => []ListInv
<1>1. InitSftp => ListInv
  <2> SUFFICES ASSUME InitSftp PROVE ListInv
    OBVIOUS
  <2>1. directory \in [handler : BOOLEAN, entries : Seq(Entries)]
    <3>1. /\ directory.entries \in UNION {[1 .. n -> Entries] : n \in 0 .. MaxEntries}
          /\ directory = [handler |-> directory.handler, entries |-> directory.entries]
          /\ directory.handler \in BOOLEAN
      BY DEF InitSftp
    <3>2. directory.entries \in Seq(Entries)
      BY <3>1, MaxEntriesAssumption
    <3> QED BY <3>1, <3>2
  <2>2. /\ lister = [at |-> "closed", items |-> <<>>, listed |-> <<>>, told |-> FALSE]
        /\ <<>> \in Seq(Item)
    BY DEF InitSftp
  <2>3. IsPrefix(<<>>, <<>>)
    BY DEF IsPrefix
  <2>4. ListedOnce
    BY <2>2, <2>3 DEF ListedOnce
  <2> QED BY <2>1, <2>2, <2>4 DEF ListInv
<1>2. ListInv /\ [NextSftp]_sftpVars => ListInv'
  <2> SUFFICES ASSUME ListInv, [NextSftp]_sftpVars PROVE ListInv'
    OBVIOUS
  <2>0. CASE /\ Filelist
             /\ lister' = [lister EXCEPT !.at = "open", !.items = Items(directory)]
    <3>1. PICK items : items = Items(directory)
      OBVIOUS
    <3>2. /\ lister' = [lister EXCEPT !.at = "open", !.items = items]
          /\ lister.listed = <<>> /\ lister.told = FALSE /\ UNCHANGED directory
          /\ directory \in [handler : BOOLEAN, entries : Seq(Entries)]
      BY <2>0, <3>1 DEF Filelist, ListInv
    <3>3. /\ items \in Seq(Item)
          /\ ~directory.handler =>
               \A i \in DOMAIN items : items[i].isDir = ListedAsDir(items[i].entry)
      BY <3>1, <3>2, ListedItems
    <3>4. /\ lister'.at = "open" /\ lister'.items = items
          /\ lister'.listed = <<>> /\ lister'.told = FALSE
          /\ lister' \in [at : {"closed", "open", "end", "failed"}, items : Seq(Item),
                         listed : Seq(Item), told : BOOLEAN]
      BY <3>2, <3>3 DEF ListInv
    <3>5. IsPrefix(<<>>, items)
      BY <3>3, SubSeqEmpty DEF IsPrefix
    <3>6. ~directory'.handler => \A i \in DOMAIN lister'.items :
            StattedAsDir(lister'.items[i].entry)
              => lister'.items[i].isDir \/ lister'.items[i].entry.dirMode
      BY <3>2, <3>3, <3>4 DEF ListedAsDir, StattedAsDir
    <3>7. ListedOnce'
      BY <3>4, <3>5, <3>6 DEF ListedOnce, StattedAsDir
    <3> QED BY <3>2, <3>4, <3>7 DEF ListInv
  <2>6. CASE Filelist /\ lister' = [lister EXCEPT !.at = "failed"]
    <3>1. /\ lister'.at = "failed" /\ lister'.items = lister.items
          /\ lister'.listed = <<>> /\ lister'.told = FALSE
          /\ lister' \in [at : {"closed", "open", "end", "failed"}, items : Seq(Item),
                         listed : Seq(Item), told : BOOLEAN]
      BY <2>6 DEF Filelist, ListInv
    <3>2. UNCHANGED directory /\ directory \in [handler : BOOLEAN, entries : Seq(Entries)]
      BY <2>6 DEF Filelist, ListInv
    <3>3. IsPrefix(lister'.listed, lister'.items)
      BY <2>6, <3>1 DEF Filelist, ListInv, ListedOnce
    <3>4. ListedOnce'
      BY <3>1, <3>2, <3>3 DEF ListInv, ListedOnce, StattedAsDir
    <3> QED BY <3>1, <3>2, <3>4 DEF ListInv
  <2>1. CASE Filelist
    BY <2>0, <2>1, <2>6 DEF Filelist
  <2>2. CASE EntriesChange
    <3>1. /\ directory.entries # <<>> /\ UNCHANGED lister
          /\ directory' = [directory EXCEPT !.entries = Tail(@)]
      BY <2>2 DEF EntriesChange
    <3>2. directory' \in [handler : BOOLEAN, entries : Seq(Entries)]
          /\ directory'.handler = directory.handler
      BY <3>1, HeadTailProperties DEF ListInv
    <3> QED BY <3>1, <3>2 DEF ListInv, ListedOnce
  <2>3. CASE ListAt
    BY <2>3, ListAtKeeps
  <2>4. CASE UNCHANGED listVars
    BY <2>4 DEF listVars, ListInv, ListedOnce
  <2>5. \/ Filelist \/ EntriesChange \/ ListAt \/ UNCHANGED listVars
    <3>1. ASSUME NEW h \in Handles,
                 \/ Filewrite(h) \/ SendChunk(h) \/ CacheAnswer(h) \/ CloseFile(h)
                 \/ \E i \in 1 .. FileLength : ServeChunk(h, i)
          PROVE  UNCHANGED listVars
      BY <3>1, Zenon DEF Filewrite, SendChunk, CacheAnswer, CloseFile, ServeChunk
    <3>2. Fileread \/ Filecmd \/ UNCHANGED sftpVars => UNCHANGED listVars
      BY Zenon DEF Fileread, Filecmd, sftpVars
    <3> QED BY <3>1, <3>2 DEF NextSftp
  <2> QED BY <2>1, <2>2, <2>3, <2>4, <2>5
<1> QED BY <1>1, <1>2, PTL DEF SpecSftp

\* A client that lists a directory page by page gets each entry once, as they
\* were when it began, and is told the end when and only when it has them all.
THEOREM EntriesListedOnce == SpecSftp => []ListedOnce
<1>1. ListInv => ListedOnce
  BY DEF ListInv
<1> QED BY <1>1, ListingsCorrect, PTL

----------------------------------------------------------------------------
(* SCP: one session *)

----------------------------------------------------------------------------
(* Bytes and lines *)

\* The answers, and what is left of them when they are read.
LEMMA Answers ==
  /\ OK \in Seq(Bytes) /\ OK # <<>> /\ Head(OK) = "0" /\ Tail(OK) = <<>>
  /\ Error \in Seq(Bytes) /\ Error # <<>> /\ Head(Error) = "1"
BY DEF OK, Error, Bytes

\* What is put behind nothing, or behind one byte.
LEMMA Behind ==
  ASSUME NEW q \in Seq(Bytes)
  PROVE  /\ <<>> \o q = q /\ q \o <<>> = q
         /\ OK \o q \in Seq(Bytes) /\ OK \o q # <<>>
         /\ Head(OK \o q) = "0" /\ Tail(OK \o q) = q
<1>1. /\ OK \o q \in Seq(Bytes) /\ Len(OK \o q) = Len(q) + 1 /\ (OK \o q)[1] = "0"
      /\ \A i \in 1 .. Len(q) : (OK \o q)[i + 1] = q[i]
  BY DEF OK, Bytes
<1>2. OK \o q # <<>> /\ Head(OK \o q) = "0"
  BY <1>1
<1>3. /\ Tail(OK \o q) \in Seq(Bytes) /\ Len(Tail(OK \o q)) = Len(q)
      /\ \A i \in 1 .. Len(q) : Tail(OK \o q)[i] = q[i]
  BY <1>1, <1>2, HeadTailProperties
<1>4. Tail(OK \o q) = q
  BY <1>3, SeqEqual
<1> QED BY <1>1, <1>2, <1>4, ConcatEmptySeq

\* What is left after the first bytes.
LEMMA Rest ==
  ASSUME NEW q \in Seq(Bytes), NEW n \in 0 .. Len(q)
  PROVE  /\ AfterFirst(q, n) \in Seq(Bytes) /\ Len(AfterFirst(q, n)) = Len(q) - n
         /\ \A i \in 1 .. Len(q) - n : AfterFirst(q, n)[i] = q[i + n]
BY DEF AfterFirst

LEMMA TailRest ==
  ASSUME NEW q \in Seq(Bytes), q # <<>>
  PROVE  Tail(q) = AfterFirst(q, 1) /\ Head(q) = q[1] /\ Len(q) \in Nat \ {0}
<1>1. Len(q) \in Nat \ {0}
  BY EmptySeq
<1> QED BY <1>1 DEF AfterFirst

LEMMA NothingRest ==
  ASSUME NEW q \in Seq(Bytes), NEW n, n = Len(q)
  PROVE  AfterFirst(q, n) = <<>>
BY SubSeqEmpty DEF AfterFirst

\* How many bytes there are, from how many there are not.
LEMMA Lengths ==
  ASSUME NEW q \in Seq(Bytes)
  PROVE  /\ Len(q) \in Nat
         /\ q # <<>> /\ Len(q) # 1 => Len(q) > 1
         /\ Len(q) - 2 = 1 => Len(q) = 3
<1> DEFINE n == Len(q)
<1>1. n \in Nat /\ (q # <<>> => n >= 1)
  BY EmptySeq
<1> HIDE DEF n
<1>2. (n >= 1 /\ n # 1 => n > 1) /\ (n - 2 = 1 => n = 3)
  BY <1>1
<1> QED BY <1>1, <1>2 DEF n

\* The first newline is where the line ends.
LEMMA FirstNewline ==
  ASSUME NEW q \in Seq(Bytes), NEW n \in 1 .. Len(q), q[n] = "newline",
         \A j \in 1 .. n - 1 : q[j] # "newline"
  PROVE  LineEnd(q) = n /\ HasLine(q)
<1>1. DOMAIN q = 1 .. Len(q) /\ Len(q) \in Nat
  OBVIOUS
<1>2. \A m \in DOMAIN q :
        q[m] = "newline" /\ (\A j \in 1 .. m - 1 : q[j] # "newline") => m = n
  BY <1>1
<1>3. LineEnd(q) = n
  BY <1>1, <1>2 DEF LineEnd
<1>4. HasLine(q)
  BY <1>1 DEF HasLine, ToSet
<1> QED BY <1>3, <1>4

\* The record of a file is one line.
LEMMA FileRecord ==
  /\ Record("C") \in Seq(Bytes) /\ Record("C") # <<>> /\ Head(Record("C")) = "C"
  /\ AfterFirst(Record("C"), LineEnd(Record("C"))) = <<>> /\ HasLine(Record("C"))
<1>1. /\ Record("C") \in Seq(Bytes) /\ Len(Record("C")) = 3 /\ Record("C")[3] = "newline"
      /\ Record("C")[1] = "C" /\ Record("C")[2] = "text"
  BY DEF Record, Bytes
<1>2. LineEnd(Record("C")) = 3 /\ HasLine(Record("C"))
  BY <1>1, FirstNewline
<1>3. AfterFirst(Record("C"), 3) = <<>>
  BY <1>1, NothingRest
<1> QED BY <1>1, <1>2, <1>3

\* What is left of framed lines is framed, and has its record where it was.
LEMMA RestFramed ==
  ASSUME NEW q \in Seq(Bytes), NEW n \in 0 .. Len(q), Framed(q)
  PROVE  /\ Framed(AfterFirst(q, n))
         /\ \A letters : Asks(q, letters) => Asks(AfterFirst(q, n), letters)
         /\ n \in 1 .. Len(q) - 1 => Head(AfterFirst(q, n)) \in Follows(q[n])
         /\ Comes(q) /\ (\A i \in 1 .. n : q[i] \notin Letters) => Comes(AfterFirst(q, n))
<1> DEFINE r == AfterFirst(q, n)
<1>1. /\ r \in Seq(Bytes) /\ Len(r) = Len(q) - n /\ Len(r) \in Nat /\ Len(q) \in Nat
      /\ \A i \in 1 .. Len(r) : r[i] = q[i + n]
  BY Rest
<1> HIDE DEF r
<1>2. \A i \in 1 .. Len(r) : IF i = Len(r) THEN r[i] = "newline" ELSE r[i + 1] \in Follows(r[i])
  <2> TAKE i \in 1 .. Len(r)
  <2>1. i + n \in 1 .. Len(q) /\ r[i] = q[i + n]
    BY <1>1
  <2>2. i # Len(r) => r[i + 1] = q[i + n + 1] /\ i + n # Len(q)
    BY <1>1
  <2>3. i = Len(r) => i + n = Len(q)
    BY <1>1
  <2> QED BY <2>1, <2>2, <2>3 DEF Framed
<1>3. ASSUME NEW letters, Asks(q, letters) PROVE Asks(r, letters)
  <2> SUFFICES ASSUME NEW i \in 1 .. Len(r), r[i] \in Letters
               PROVE  i = Len(r) - 2 /\ r[i] \in letters
    BY DEF Asks
  <2>1. i + n \in 1 .. Len(q) /\ r[i] = q[i + n]
    BY <1>1
  <2>2. i + n = Len(q) - 2 /\ q[i + n] \in letters
    BY <1>3, <2>1 DEF Asks
  <2> DEFINE k == Len(q)
             m == Len(r)
  <2>3. k \in Nat /\ m = k - n /\ i + n = k - 2
    BY <1>1, <2>2
  <2> HIDE DEF k, m
  <2>4. i = m - 2
    BY <2>3
  <2> QED BY <2>1, <2>2, <2>4 DEF m
<1>4. n \in 1 .. Len(q) - 1 => Head(r) \in Follows(q[n])
  <2> SUFFICES ASSUME n \in 1 .. Len(q) - 1 PROVE Head(r) \in Follows(q[n])
    OBVIOUS
  <2>1. q[n + 1] \in Follows(q[n])
    BY <1>1 DEF Framed
  <2>2. r # <<>> /\ r[1] = q[n + 1]
    BY <1>1
  <2> QED BY <1>1, <2>1, <2>2
<1>5. Comes(q) /\ (\A i \in 1 .. n : q[i] \notin Letters) => Comes(r)
  <2> SUFFICES ASSUME NEW i \in 1 .. Len(q), q[i] \in Letters,
                      \A j \in 1 .. n : q[j] \notin Letters
               PROVE  \E j \in 1 .. Len(r) : r[j] \in Letters
    BY DEF Comes
  <2>1. i - n \in 1 .. Len(r) /\ r[i - n] = q[i]
    BY <1>1
  <2> QED BY <2>1
<1> QED BY <1>2, <1>3, <1>4, <1>5 DEF Framed, r

\* A line that is put behind framed ones leaves them framed.
LEMMA LineFramed ==
  ASSUME NEW q \in Seq(Bytes), Framed(q), NEW t \in Seq(Bytes), t # <<>>, Framed(t),
         t[1] \in Starts
  PROVE  /\ Framed(q \o t) /\ q \o t \in Seq(Bytes) /\ q \o t # <<>>
         /\ Head(q \o t) = IF q = <<>> THEN t[1] ELSE Head(q)
<1> DEFINE s == q \o t
<1>1. /\ s \in Seq(Bytes) /\ Len(s) = Len(q) + Len(t) /\ Len(q) \in Nat /\ Len(t) \in Nat \ {0}
      /\ \A i \in 1 .. Len(s) : s[i] = IF i <= Len(q) THEN q[i] ELSE t[i - Len(q)]
  BY ConcatProperties, EmptySeq
<1> HIDE DEF s
<1>2. \A i \in 1 .. Len(s) : IF i = Len(s) THEN s[i] = "newline" ELSE s[i + 1] \in Follows(s[i])
  <2> TAKE i \in 1 .. Len(s)
  <2>1. CASE i < Len(q)
    <3>1. i \in 1 .. Len(q) /\ i # Len(q) /\ i # Len(s) /\ s[i] = q[i] /\ s[i + 1] = q[i + 1]
      BY <1>1, <2>1
    <3> QED BY <3>1 DEF Framed
  <2>2. CASE i = Len(q)
    <3>1. i \in 1 .. Len(q) /\ i # Len(s) /\ s[i] = q[i] /\ s[i + 1] = t[1]
      <4>1. i + 1 \in 1 .. Len(s) /\ ~(i + 1 <= Len(q)) /\ i + 1 - Len(q) = 1
        BY <1>1, <2>2
      <4> QED BY <1>1, <2>2, <4>1
    <3>2. q[i] = "newline"
      BY <2>2, <3>1 DEF Framed
    <3>3. Follows("newline") = Starts
      BY DEF Follows, Letters
    <3> QED BY <3>1, <3>2, <3>3
  <2>3. CASE i > Len(q)
    <3> DEFINE j == i - Len(q)
    <3>1. j \in 1 .. Len(t) /\ s[i] = t[j] /\ (i = Len(s) <=> j = Len(t))
      BY <1>1, <2>3
    <3>2. i # Len(s) => s[i + 1] = t[j + 1]
      BY <1>1, <2>3
    <3> HIDE DEF j
    <3> QED BY <3>1, <3>2 DEF Framed
  <2> QED BY <1>1, <2>1, <2>2, <2>3
<1>3. s # <<>> /\ Head(s) = IF q = <<>> THEN t[1] ELSE Head(q)
  <2>1. s # <<>> /\ Head(s) = s[1]
    BY <1>1
  <2>2. q # <<>> => Len(q) >= 1 /\ Head(q) = q[1]
    BY <1>1, EmptySeq
  <2> QED BY <1>1, <2>1, <2>2
<1> QED BY <1>1, <1>2, <1>3 DEF Framed, s

\* What a client says of a file that it cannot read, and what it asks for with a
\* record.
LEMMA WarningSaid ==
  ASSUME NEW q \in Seq(Bytes), Framed(q), Asks(q, {})
  PROVE  LET s == q \o <<"1", "text", "newline">> IN
         /\ s \in Seq(Bytes) /\ s # <<>> /\ Framed(s) /\ Asks(s, {})
         /\ Head(s) \in IF q = <<>> THEN Starts ELSE {Head(q)}
<1> DEFINE t == <<"1", "text", "newline">>
<1>1. /\ t \in Seq(Bytes) /\ t # <<>> /\ Len(t) = 3 /\ t[1] = "1" /\ t[2] = "text"
      /\ t[3] = "newline" /\ t[1] \in Starts
  BY DEF Bytes, Starts
<1> HIDE DEF t
<1>2. Framed(t)
  BY <1>1 DEF Framed, Follows
<1>3. /\ Len(q \o t) = Len(q) + 3 /\ Len(q) \in Nat
      /\ \A i \in 1 .. Len(q) + 3 : (q \o t)[i] = IF i <= Len(q) THEN q[i] ELSE t[i - Len(q)]
  <2>1. PICK m \in Nat : Len(q) = m
    BY Lengths
  <2>2. ASSUME NEW n \in Nat, Len(t) = n
        PROVE  /\ Len(q \o t) = m + n
               /\ \A i \in 1 .. m + n : (q \o t)[i] = IF i <= m THEN q[i] ELSE t[i - m]
    BY <1>1, <2>1, <2>2, ConcatProperties
  <2>3. /\ Len(q \o t) = m + 3
        /\ \A i \in 1 .. m + 3 : (q \o t)[i] = IF i <= m THEN q[i] ELSE t[i - m]
    BY <1>1, <2>2
  <2> QED BY <2>1, <2>3
<1>4. \A j \in 1 .. 3 : t[j] \notin Letters
  BY <1>1 DEF Letters
<1>5. \A i \in 1 .. Len(q) : q[i] \notin Letters
  BY DEF Asks
<1>6. Asks(q \o t, {})
  <2>1. \A i \in 1 .. Len(q) + 3 : (q \o t)[i] \notin Letters
    BY <1>3, <1>4, <1>5
  <2> QED BY <1>3, <2>1 DEF Asks
<1> QED BY <1>1, <1>2, <1>6, LineFramed DEF t

LEMMA RecordSaid ==
  ASSUME NEW q \in Seq(Bytes), Framed(q), Asks(q, {}), NEW letter \in Letters
  PROVE  LET s == q \o Prefixed(Record(letter)) IN
         /\ s \in Seq(Bytes) /\ s # <<>> /\ Framed(s) /\ Asks(s, {letter}) /\ Comes(s)
         /\ Head(s) \in IF q = <<>> THEN Starts ELSE {Head(q)}
<1> DEFINE t == Prefixed(Record(letter))
           k == IF LeadingByte THEN 1 ELSE 0
<1>1. letter \in Bytes /\ letter # "0" /\ letter # "1" /\ letter # "text" /\ letter # "newline"
      /\ {"text", "newline", "0", "1"} \cap Letters = {}
  BY DEF Letters, Bytes
<1>2. /\ t \in Seq(Bytes) /\ t # <<>> /\ Len(t) = k + 3
      /\ t[k + 1] = letter /\ t[k + 2] = "text" /\ t[k + 3] = "newline"
      /\ LeadingByte => t[1] = "0"
  <2>1. CASE LeadingByte
    <3> DEFINE o == <<"0">>
               u == <<letter, "text", "newline">>
    <3>1. t = o \o u /\ k = 1
      BY <2>1 DEF Prefixed, Record, OK
    <3>2. /\ o \in Seq(Bytes) /\ Len(o) = 1 /\ o[1] = "0"
          /\ u \in Seq(Bytes) /\ Len(u) = 3
          /\ u[1] = letter /\ u[2] = "text" /\ u[3] = "newline"
      BY <1>1 DEF Bytes
    <3> HIDE DEF o, u, t, k
    <3>3. /\ t \in Seq(Bytes) /\ Len(t) = 4
          /\ \A i \in 1 .. 4 : t[i] = IF i <= 1 THEN o[i] ELSE u[i - 1]
      <4>1. ASSUME NEW m \in Nat, NEW n \in Nat, Len(o) = m, Len(u) = n
            PROVE  /\ o \o u \in Seq(Bytes) /\ Len(o \o u) = m + n
                   /\ \A i \in 1 .. m + n : (o \o u)[i] = IF i <= m THEN o[i] ELSE u[i - m]
        BY <3>2, <4>1, ConcatProperties
      <4>2. /\ o \o u \in Seq(Bytes) /\ Len(o \o u) = 1 + 3
            /\ \A i \in 1 .. 1 + 3 : (o \o u)[i] = IF i <= 1 THEN o[i] ELSE u[i - 1]
        BY <3>2, <4>1
      <4> QED BY <3>1, <4>2
    <3> QED BY <2>1, <3>1, <3>2, <3>3
  <2>2. CASE ~LeadingByte
    <3>1. t = <<letter, "text", "newline">>
      BY <2>2 DEF Prefixed, Record, OK
    <3> QED BY <1>1, <2>2, <3>1 DEF Bytes
  <2> QED BY <2>1, <2>2
<1>3. t[1] \in Starts /\ k \in {0, 1} /\ (LeadingByte <=> k = 1)
  BY <1>2, LeadingByteAssumption DEF Starts
<1> HIDE DEF t, k
<1>4. Framed(t)
  <2>1. Follows(letter) = {"text"} /\ Follows("text") = {"newline"} /\ Follows("0") = Letters
    BY <1>1 DEF Follows
  <2>2. CASE k = 0
    BY <1>2, <2>1, <2>2 DEF Framed
  <2>3. CASE k = 1
    BY <1>2, <1>3, <2>1, <2>3 DEF Framed
  <2> QED BY <1>3, <2>2, <2>3
<1>5. /\ Len(q \o t) = Len(q) + (k + 3) /\ Len(q) \in Nat
      /\ \A i \in 1 .. Len(q) + (k + 3) :
           (q \o t)[i] = IF i <= Len(q) THEN q[i] ELSE t[i - Len(q)]
  BY <1>2, ConcatProperties
<1>6. /\ \A j \in 1 .. k + 3 : t[j] \in Letters => j = k + 1
      /\ \A i \in 1 .. Len(q) : q[i] \notin Letters
  BY <1>1, <1>2, <1>3 DEF Asks
<1>7. Asks(q \o t, {letter})
  <2> SUFFICES ASSUME NEW i \in 1 .. Len(q) + (k + 3), (q \o t)[i] \in Letters
               PROVE  i = Len(q) + k + 1 /\ (q \o t)[i] = letter
    BY <1>3, <1>5 DEF Asks
  <2>1. i > Len(q) /\ i - Len(q) \in 1 .. k + 3 /\ (q \o t)[i] = t[i - Len(q)]
    BY <1>3, <1>5, <1>6
  <2>2. i - Len(q) = k + 1
    BY <1>6, <2>1
  <2> QED BY <1>2, <1>3, <1>5, <2>1, <2>2
<1>8. Comes(q \o t)
  <2> DEFINE i == Len(q) + k + 1
  <2>1. i \in 1 .. Len(q) + (k + 3) /\ ~(i <= Len(q)) /\ i - Len(q) = k + 1
    BY <1>3, <1>5
  <2>2. (q \o t)[i] \in Letters /\ i \in 1 .. Len(q \o t)
    BY <1>2, <1>5, <2>1
  <2> QED BY <2>2 DEF Comes
<1> QED BY <1>2, <1>3, <1>4, <1>7, <1>8, LineFramed DEF t

\* What a server reads of framed lines: the byte before a line, the rest of a
\* warning, and a record, behind which nothing is.
LEMMA ByteRead ==
  ASSUME NEW q \in Seq(Bytes), Framed(q), q # <<>>, Head(q) \in Starts
  PROVE  /\ Tail(q) \in Seq(Bytes) /\ Tail(q) # <<>> /\ Framed(Tail(q))
         /\ Head(Tail(q)) \in Follows(Head(q))
         /\ \A letters : Asks(q, letters) => Asks(Tail(q), letters)
         /\ Comes(q) => Comes(Tail(q))
<1>1. /\ Tail(q) = AfterFirst(q, 1) /\ Head(q) = q[1]
      /\ Len(q) \in Nat /\ Len(q) >= 1 /\ 1 \in 0 .. Len(q)
  BY TailRest
<1>2. q[1] # "newline" /\ (LeadingByte => q[1] \notin Letters)
  BY <1>1 DEF Starts, Letters
<1>3. Len(q) > 1
  BY <1>1, <1>2, Lengths DEF Framed
<1>4. Tail(q) \in Seq(Bytes) /\ Len(Tail(q)) = Len(q) - 1
  BY <1>1, Rest
<1>5. Tail(q) # <<>>
  BY <1>3, <1>4, EmptySeq
<1>6. Comes(q) => Comes(Tail(q))
  <2>1. CASE LeadingByte
    <3>1. \A i \in 1 .. 1 : q[i] \notin Letters
      BY <1>2, <2>1
    <3> QED BY <1>1, <3>1, RestFramed
  <2>2. CASE ~LeadingByte
    BY <2>2 DEF Comes
  <2> QED BY <2>1, <2>2
<1>7. 1 \in 1 .. Len(q) - 1
  BY <1>1, <1>3
<1> QED BY <1>1, <1>4, <1>5, <1>6, <1>7, RestFramed

LEMMA WarningRead ==
  ASSUME NEW q \in Seq(Bytes), Framed(q), q # <<>>, Head(q) = "text"
  PROVE  /\ HasLine(q)
         /\ LET r == AfterFirst(q, LineEnd(q)) IN
            /\ r \in Seq(Bytes) /\ Framed(r) /\ (r # <<>> => Head(r) \in Starts)
            /\ \A letters : Asks(q, letters) => Asks(r, letters)
            /\ Comes(q) => Comes(r)
<1>1. /\ Head(q) = q[1] /\ Len(q) \in Nat /\ Len(q) >= 1
      /\ Follows("text") = {"newline"} /\ Follows("newline") = Starts
  BY TailRest DEF Follows, Letters
<1>2. Len(q) > 1 /\ q[2] = "newline"
  <2>1. Len(q) > 1
    BY <1>1, Lengths DEF Framed
  <2>2. 1 \in 1 .. Len(q) /\ 1 # Len(q)
    BY <2>1
  <2> QED BY <1>1, <2>1, <2>2 DEF Framed
<1>3. 2 \in 1 .. Len(q) /\ 2 \in 0 .. Len(q) /\ \A j \in 1 .. 2 - 1 : q[j] # "newline"
  BY <1>1, <1>2
<1>4. LineEnd(q) = 2 /\ HasLine(q)
  BY <1>2, <1>3, FirstNewline
<1> DEFINE r == AfterFirst(q, 2)
<1>5. r \in Seq(Bytes) /\ Len(r) = Len(q) - 2 /\ Framed(r)
      /\ \A letters : Asks(q, letters) => Asks(r, letters)
  BY <1>3, Rest, RestFramed
<1>6. Comes(q) => Comes(r)
  <2>1. \A i \in 1 .. 2 : q[i] \notin Letters
    BY <1>1, <1>2 DEF Letters
  <2> QED BY <1>3, <2>1, RestFramed
<1>7. r # <<>> => Head(r) \in Starts
  <2> SUFFICES ASSUME r # <<>> PROVE Head(r) \in Starts
    OBVIOUS
  <2>1. 2 \in 1 .. Len(q) - 1
    BY <1>1, <1>2, <1>5, EmptySeq
  <2> QED BY <1>1, <1>2, <1>3, <2>1, RestFramed
<1> QED BY <1>4, <1>5, <1>6, <1>7

LEMMA RecordRead ==
  ASSUME NEW q \in Seq(Bytes), Framed(q), q # <<>>, Head(q) \in Letters, NEW letters,
         Asks(q, letters)
  PROVE  HasLine(q) /\ AfterFirst(q, LineEnd(q)) = <<>> /\ Head(q) \in letters
<1>1. /\ Head(q) = q[1] /\ Len(q) \in Nat /\ Len(q) >= 1 /\ Follows("text") = {"newline"}
      /\ Follows(Head(q)) = {"text"} /\ Head(q) # "newline"
  BY TailRest DEF Follows, Letters
<1>2. Len(q) = 3 /\ q[1] \in letters
  <2>1. 1 \in 1 .. Len(q) /\ q[1] \in Letters
    BY <1>1
  <2>2. 1 = Len(q) - 2 /\ q[1] \in letters
    BY <2>1 DEF Asks
  <2> QED BY <2>2, Lengths
<1>3. q[2] = "text" /\ q[3] = "newline"
  BY <1>1, <1>2 DEF Framed
<1>4. 3 \in 1 .. Len(q) /\ \A j \in 1 .. 3 - 1 : q[j] # "newline"
  BY <1>1, <1>2, <1>3
<1>5. LineEnd(q) = 3 /\ HasLine(q)
  BY <1>3, <1>4, FirstNewline
<1> QED BY <1>1, <1>2, <1>5, NothingRest

\* Nothing is framed, and data is read as it was sent.
LEMMA NothingFramed ==
  /\ <<>> \in Seq(Bytes) /\ Framed(<<>>) /\ \A letters : Asks(<<>>, letters)
  /\ OK # <<>> /\ Error # <<>> /\ Record("C") # <<>>
BY Answers, FileRecord DEF Framed, Asks

LEMMA DataFramed ==
  ASSUME NEW f \in Seq(Bytes)
  PROVE  /\ f \o OK \in Seq(Bytes) /\ f \o OK # <<>>
         /\ SubSeq(f \o OK, 1, Len(f)) = f /\ AfterFirst(f \o OK, Len(f)) = OK
         /\ SubSeq(f, 1, Len(f)) = f /\ AfterFirst(f, Len(f)) = <<>>
         /\ Len(<<>>) >= Len(f) => f = <<>>
<1> DEFINE s == f \o OK
<1>1. /\ OK \in Seq(Bytes) /\ s \in Seq(Bytes) /\ Len(s) = Len(f) + Len(OK)
      /\ Len(OK) = 1 /\ Len(f) \in Nat /\ OK[1] = "0"
      /\ \A i \in 1 .. Len(f) + Len(OK) : s[i] = IF i <= Len(f) THEN f[i] ELSE OK[i - Len(f)]
  BY Answers, ConcatProperties DEF OK
<1> HIDE DEF s
<1>2. SubSeq(s, 1, Len(f)) = f
  <2>1. /\ SubSeq(s, 1, Len(f)) \in Seq(Bytes) /\ Len(SubSeq(s, 1, Len(f))) = Len(f)
        /\ \A i \in 1 .. Len(f) : SubSeq(s, 1, Len(f))[i] = f[i]
    BY <1>1
  <2> QED BY <2>1, SeqEqual
<1>3. AfterFirst(s, Len(f)) = OK
  <2>1. /\ AfterFirst(s, Len(f)) \in Seq(Bytes) /\ Len(AfterFirst(s, Len(f))) = Len(OK)
        /\ \A i \in 1 .. Len(OK) : AfterFirst(s, Len(f))[i] = OK[i]
    BY <1>1 DEF AfterFirst
  <2> QED BY <1>1, <2>1, SeqEqual
<1>4. s # <<>>
  BY <1>1
<1>5. Len(<<>>) >= Len(f) => f = <<>>
  BY EmptySeq
<1> QED BY <1>1, <1>2, <1>3, <1>4, <1>5, NothingRest, SubSeqFull DEF s

LEMMA FilesFramed ==
  ASSUME NEW f \in Files
  PROVE  f \in Seq(Bytes)
BY FilesAssumption

----------------------------------------------------------------------------
(* The server *)

\* Where a session is, by the next step of its handler and of its client.
LEMMA Phases ==
  ASSUME ScpInv
  PROVE  /\ server = "start" => NotBegun
         /\ server \in {"first", "warning", "record"} =>
              job = "put" /\ received = <<>> /\ ~acked /\ PutLines
         /\ server = "data" => job = "put" /\ received = <<>> /\ ~acked /\ PutData
         /\ server = "trail" => job = "put" /\ received = <<>> /\ ~acked /\ PutTrail
         /\ server \in {"serve", "metaack", "lastack"} => job = "get" /\ GetInv
         /\ client \in {"send", "otherack", "metaack", "dataack"} => job = "put" /\ PutInv
         /\ client \in {"record", "data"} => job = "get" /\ GetInv
<1>1. /\ NotBegun => server = "start" /\ client \in {"hello", "closed"}
      /\ PutLines => server \in {"first", "warning", "record"}
                     /\ client \in {"hello", "send", "otherack", "metaack", "closed"}
      /\ PutData => server = "data" /\ client \in {"metaack", "dataack", "closed"}
      /\ PutTrail => server = "trail" /\ client \in {"metaack", "dataack", "closed"}
      /\ PutFails => server = "done"
                     /\ client \in {"hello", "otherack", "send", "metaack", "closed"}
      /\ PutDone => server = "done" /\ client \in {"dataack", "closed"}
      /\ GetInv => server \in {"serve", "metaack", "lastack", "done"}
                   /\ client \in {"hello", "record", "data", "closed"}
  BY DEF NotBegun, PutLines, PutData, PutTrail, PutFails, PutDone, GetInv
<1>2. \/ NotBegun
      \/ /\ job = "put" /\ received = <<>>
         /\ (~acked /\ (PutLines \/ PutData \/ PutTrail \/ PutFails)) \/ PutDone
      \/ job = "get" /\ GetInv
  BY DEF ScpInv, PutInv
<1> QED BY <1>1, <1>2 DEF PutInv

LEMMA PutPhase ==
  ASSUME ScpTyped', job' = "put", received' = <<>>, ~acked',
         PutLines' \/ PutData' \/ PutTrail' \/ PutFails' \/ PutDone'
  PROVE  ScpInv'
BY DEF ScpInv, PutInv

\* handleSCP.
LEMMA StartKeeps ==
  ASSUME ScpInv, Start
  PROVE  ScpInv'
<1>1. /\ client \in {"hello", "closed"} /\ stored = <<>> /\ received = <<>>
      /\ toServer = <<>> /\ toClient = <<>> /\ ~acked /\ ScpTyped
  BY Phases DEF Start, ScpInv, NotBegun
<1>2. /\ \/ toClient' = toClient \o OK /\ server' = IF job = "put" THEN "first" ELSE "serve"
         \/ toClient' = toClient \o Error /\ server' = "done"
      /\ UNCHANGED <<job, file, fatal, toServer, stored, client, acked, received>>
  BY DEF Start, Send, GoTo, Handler, clientVars
<1>3. /\ <<>> \o OK = OK /\ <<>> \o Error = Error
      /\ OK \in Seq(Bytes) /\ Error \in Seq(Bytes)
  BY Answers, Behind
<1>4. ScpTyped'
  BY <1>1, <1>2, <1>3 DEF ScpTyped
<1>5. CASE job = "put"
  <2>1. server' = "first" => PutLines'
    BY <1>1, <1>2, <1>3, <1>5, NothingFramed DEF PutLines, AtByte
  <2>2. server' = "done" => PutFails'
    BY <1>1, <1>2, <1>3, <1>5 DEF PutFails
  <2> QED BY <1>1, <1>2, <1>4, <1>5, <2>1, <2>2, PutPhase
<1>6. CASE job = "get"
  <2>1. client = "hello" => GetOpening'
    BY <1>1, <1>2, <1>3, <1>6 DEF GetOpening
  <2>2. GetInv'
    BY <1>1, <1>2, <1>6, <2>1 DEF GetInv
  <2> QED BY <1>2, <1>4, <1>6, <2>2 DEF ScpInv
<1> QED BY <1>1, <1>5, <1>6 DEF ScpTyped

\* receiveSCP's first byte of a line.
LEMMA ReadFirstKeeps ==
  ASSUME ScpInv, ReadFirst
  PROVE  ScpInv'
<1>1. /\ server = "first" /\ toServer # <<>> /\ toServer' = Tail(toServer)
      /\ fatal' = (Head(toServer) = "2")
      /\ server' = IF Head(toServer) = "0" THEN "record" ELSE "warning"
      /\ UNCHANGED <<job, file, toClient, stored, client, acked, received>>
  BY DEF ReadFirst, CanRead, TakeByte, GoTo, clientVars
<1>2. job = "put" /\ received = <<>> /\ ~acked /\ PutLines /\ ScpTyped
  BY <1>1, Phases DEF ScpInv
<1>3. /\ toServer \in Seq(Bytes) /\ Framed(toServer) /\ Head(toServer) \in Starts
      /\ Asks(toServer, Letters)
  BY <1>1, <1>2 DEF PutLines, AtByte, ScpTyped
<1>4. /\ toServer' \in Seq(Bytes) /\ toServer' # <<>> /\ Framed(toServer')
      /\ Head(toServer') \in Follows(Head(toServer))
      /\ \A letters : Asks(toServer, letters) => Asks(toServer', letters)
      /\ Comes(toServer) => Comes(toServer')
  BY <1>1, <1>3, ByteRead
<1>5. ScpTyped'
  <2>1. Head(toServer) # "2"
    BY <1>3 DEF Starts, Letters
  <2> QED BY <1>1, <1>2, <1>4, <2>1 DEF ScpTyped
<1>6. AtByte'
  <2>1. Head(toServer) = "0" => Follows(Head(toServer)) = Letters
    BY DEF Follows, Letters
  <2>2. Head(toServer) # "0" => Follows(Head(toServer)) = {"text"}
    BY <1>3 DEF Follows, Starts, Letters
  <2> QED BY <1>1, <1>4, <2>1, <2>2 DEF AtByte
<1>7. PutLines'
  <2>1. /\ server' \in {"first", "warning", "record"} /\ stored' = <<>>
        /\ Framed(toServer') /\ Asks(toServer', Letters)
    BY <1>1, <1>2, <1>3, <1>4 DEF PutLines
  <2>2. \/ client = "send" /\ Asks(toServer', {}) /\ toClient' = <<>>
        \/ /\ client = "otherack" /\ Comes(toServer') /\ Asks(toServer', {"D", "E", "T"})
           /\ toClient' = <<>>
        \/ /\ client = "metaack" /\ Comes(toServer') /\ Asks(toServer', {"C"})
           /\ toClient' = <<>>
        \/ client = "closed"
    BY <1>1, <1>2, <1>4 DEF PutLines
  <2> QED BY <1>1, <1>4, <1>6, <2>1, <2>2 DEF PutLines
<1> QED BY <1>1, <1>2, <1>5, <1>7, PutPhase

\* The rest of a warning.
LEMMA ReadWarningKeeps ==
  ASSUME ScpInv, ReadWarning
  PROVE  ScpInv'
<1>1. /\ server = "warning" /\ toServer' = AfterFirst(toServer, LineEnd(toServer))
      /\ server' = IF fatal THEN "done" ELSE "first"
      /\ UNCHANGED <<job, file, fatal, toClient, stored, client, acked, received>>
  BY DEF ReadWarning, TakeLine, GoTo, clientVars
<1>2. job = "put" /\ received = <<>> /\ ~acked /\ PutLines /\ ScpTyped /\ server' = "first"
  BY <1>1, Phases DEF ScpInv, ScpTyped
<1>3. /\ toServer \in Seq(Bytes) /\ Framed(toServer) /\ toServer # <<>>
      /\ Head(toServer) = "text" /\ Asks(toServer, Letters)
  BY <1>1, <1>2 DEF PutLines, AtByte, ScpTyped
<1>4. /\ toServer' \in Seq(Bytes) /\ Framed(toServer')
      /\ toServer' # <<>> => Head(toServer') \in Starts
      /\ \A letters : Asks(toServer, letters) => Asks(toServer', letters)
      /\ Comes(toServer) => Comes(toServer')
  BY <1>1, <1>3, WarningRead
<1>5. ScpTyped'
  BY <1>1, <1>2, <1>4 DEF ScpTyped
<1>6. AtByte'
  BY <1>2, <1>4 DEF AtByte
<1>7. PutLines'
  <2>1. /\ stored' = <<>> /\ Asks(toServer', Letters)
    BY <1>1, <1>2, <1>3, <1>4 DEF PutLines
  <2>2. \/ client = "send" /\ Asks(toServer', {}) /\ toClient' = <<>>
        \/ /\ client = "otherack" /\ Comes(toServer') /\ Asks(toServer', {"D", "E", "T"})
           /\ toClient' = <<>>
        \/ /\ client = "metaack" /\ Comes(toServer') /\ Asks(toServer', {"C"})
           /\ toClient' = <<>>
        \/ client = "closed"
    BY <1>1, <1>2, <1>3, <1>4 DEF PutLines
  <2> QED BY <1>1, <1>2, <1>4, <1>6, <2>1, <2>2 DEF PutLines
<1> QED BY <1>1, <1>2, <1>5, <1>7, PutPhase

\* A record, and what it is answered with.
LEMMA ReadRecordKeeps ==
  ASSUME ScpInv, ReadRecord
  PROVE  ScpInv'
<1> DEFINE letter == Head(toServer)
<1>1. /\ server = "record" /\ toServer' = AfterFirst(toServer, LineEnd(toServer))
      /\ toClient' = toClient \o Answer(letter) /\ server' = AfterRecord(letter)
      /\ UNCHANGED <<job, file, fatal, stored, client, acked, received>>
  BY DEF ReadRecord, TakeLine, GoTo, Send, clientVars
<1>2. job = "put" /\ received = <<>> /\ ~acked /\ PutLines /\ ScpTyped
  BY <1>1, Phases DEF ScpInv
<1>3. /\ toServer \in Seq(Bytes) /\ Framed(toServer) /\ toServer # <<>>
      /\ letter \in Letters /\ Asks(toServer, Letters)
  BY <1>1, <1>2 DEF PutLines, AtByte, ScpTyped
<1>4. toServer' = <<>> /\ \A letters : Asks(toServer, letters) => letter \in letters
  BY <1>1, <1>3, RecordRead
<1>5. Answer(letter) \in {OK, Error} /\ toClient \in Seq(Bytes) /\ Answer(letter) \in Seq(Bytes)
  BY <1>2, <1>3, Answers DEF Answer, Letters, ScpTyped
<1>6. ScpTyped'
  <2>1. toClient' \in Seq(Bytes) /\ toServer' \in Seq(Bytes)
    BY <1>1, <1>4, <1>5, ConcatProperties, NothingFramed
  <2> QED BY <1>1, <1>2, <2>1 DEF ScpTyped
<1>7. \/ client = "otherack" /\ letter \in {"D", "E", "T"} /\ toClient' = Answer(letter)
      \/ client = "metaack" /\ letter = "C" /\ toClient' = Answer(letter)
      \/ client = "closed"
  <2>1. toClient = <<>> => toClient' = Answer(letter)
    BY <1>1, <1>5, Behind
  <2> QED BY <1>2, <1>3, <1>4, <2>1 DEF PutLines
<1>8. stored' = <<>> /\ AtByte'
  BY <1>1, <1>2, <1>4 DEF PutLines, AtByte
<1>9. CASE letter = "D"
  <2>1. Answer(letter) = OK /\ server' = "first"
    BY <1>1, <1>9 DEF Answer, AfterRecord
  <2>2. PutLines'
    BY <1>1, <1>4, <1>7, <1>8, <1>9, <2>1, NothingFramed DEF PutLines
  <2> QED BY <1>1, <1>2, <1>6, <2>2, PutPhase
<1>10. CASE letter = "C"
  <2>1. Answer(letter) = OK /\ server' = "data"
    BY <1>1, <1>10 DEF Answer, AfterRecord
  <2>2. PutData'
    BY <1>1, <1>4, <1>7, <1>8, <1>10, <2>1 DEF PutData
  <2> QED BY <1>1, <1>2, <1>6, <2>2, PutPhase
<1>11. CASE letter \in {"E", "T"}
  <2>1. Answer(letter) \in {OK, Error} /\ server' = "done"
    BY <1>1, <1>11 DEF Answer, AfterRecord
  <2>2. PutFails'
    BY <1>1, <1>7, <1>8, <1>11, <2>1 DEF PutFails
  <2> QED BY <1>1, <1>2, <1>6, <2>2, PutPhase
<1> QED BY <1>3, <1>9, <1>10, <1>11 DEF Letters

\* The data, which is the file's whatever its bytes look like.
LEMMA ReadDataKeeps ==
  ASSUME ScpInv, ReadData
  PROVE  ScpInv'
<1>1. /\ server = "data" /\ server' = "trail" /\ Len(toServer) >= Len(file)
      /\ stored' = Append(stored, SubSeq(toServer, 1, Len(file)))
      /\ toServer' = AfterFirst(toServer, Len(file))
      /\ UNCHANGED <<job, file, fatal, toClient, client, acked, received>>
  BY DEF ReadData, CanRead, DataSize, GoTo, clientVars
<1>2. job = "put" /\ received = <<>> /\ ~acked /\ PutData /\ ScpTyped
  BY <1>1, Phases DEF ScpInv
<1>3. /\ SubSeq(file \o OK, 1, Len(file)) = file /\ AfterFirst(file \o OK, Len(file)) = OK
      /\ SubSeq(file, 1, Len(file)) = file /\ AfterFirst(file, Len(file)) = <<>>
      /\ Len(<<>>) >= Len(file) => file = <<>>
  BY <1>2, FilesFramed, DataFramed DEF ScpTyped
<1>4. /\ SubSeq(toServer, 1, Len(file)) = file
      /\ toServer = file \o OK => toServer' = OK
      /\ toServer = <<>> => toServer' = <<>> /\ file = <<>>
  BY <1>1, <1>2, <1>3 DEF PutData
<1>5. stored' = <<file>>
  BY <1>1, <1>2, <1>4 DEF PutData
<1>6. PutTrail'
  BY <1>1, <1>2, <1>4, <1>5 DEF PutData, PutTrail
<1>7. ScpTyped'
  <2>1. toServer' \in {<<>>, OK}
    BY <1>2, <1>4 DEF PutData
  <2> QED BY <1>1, <1>2, <2>1, Answers, NothingFramed DEF ScpTyped
<1> QED BY <1>1, <1>2, <1>6, <1>7, PutPhase

\* The byte after it.
LEMMA ReadTrailKeeps ==
  ASSUME ScpInv, ReadTrail
  PROVE  ScpInv'
<1>1. /\ server = "trail" /\ server' = "done" /\ toServer # <<>>
      /\ toServer' = Tail(toServer) /\ toClient' = toClient \o OK
      /\ UNCHANGED <<job, file, fatal, stored, client, acked, received>>
  BY DEF ReadTrail, CanRead, Trail, TakeByte, GoTo, Send, clientVars
<1>2. job = "put" /\ received = <<>> /\ ~acked /\ PutTrail /\ ScpTyped
  BY <1>1, Phases DEF ScpInv
<1>3. toServer' = <<>> /\ (toClient = <<>> => toClient' = OK) /\ toClient' \in Seq(Bytes)
  <2>1. toServer = OK /\ toClient \in Seq(Bytes)
    BY <1>1, <1>2 DEF PutTrail, ScpTyped
  <2> QED BY <1>1, <2>1, Answers, Behind, ConcatProperties
<1>4. PutFails' \/ PutDone'
  BY <1>1, <1>2, <1>3 DEF PutTrail, PutFails, PutDone
<1>5. ScpTyped'
  BY <1>1, <1>2, <1>3, NothingFramed DEF ScpTyped
<1> QED BY <1>1, <1>2, <1>4, <1>5, PutPhase

\* sendSCP's record.
LEMMA SendRecordKeeps ==
  ASSUME ScpInv, SendRecord
  PROVE  ScpInv'
<1>1. /\ server = "serve"
      /\ \/ toClient' = toClient \o Record("C") /\ server' = "metaack"
         \/ toClient' = toClient \o Error /\ server' = "done"
      /\ UNCHANGED <<job, file, fatal, toServer, stored, client, acked, received>>
  BY DEF SendRecord, GoTo, Send, clientVars
<1>2. job = "get" /\ GetInv /\ ScpTyped
  BY <1>1, Phases DEF ScpInv
<1>3. /\ <<>> \o Error = Error /\ Record("C") \in Seq(Bytes) /\ Error \in Seq(Bytes)
      /\ toClient \in Seq(Bytes)
  BY <1>2, Answers, Behind, FileRecord DEF ScpTyped
<1>4. client \in {"hello", "record"} => GetOpening'
  BY <1>1, <1>2, <1>3 DEF GetInv, GetOpening
<1>5. client \notin {"hello", "record"} => client = "closed" /\ received = <<>>
  BY <1>1, <1>2 DEF GetInv, GetData, GetDone
<1>6. GetInv'
  BY <1>1, <1>2, <1>4, <1>5 DEF GetInv
<1>7. ScpTyped'
  <2>1. toClient' \in Seq(Bytes)
    BY <1>1, <1>3, ConcatProperties
  <2> QED BY <1>1, <1>2, <2>1 DEF ScpTyped
<1> QED BY <1>1, <1>2, <1>6, <1>7 DEF ScpInv

\* The answer to the record, and the file.
LEMMA ReadMetaAckKeeps ==
  ASSUME ScpInv, ReadMetaAck
  PROVE  ScpInv'
<1>1. /\ server = "metaack" /\ toServer # <<>> /\ toServer' = Tail(toServer)
      /\ UNCHANGED <<job, file, fatal, stored, client, acked, received>>
      /\ Head(toServer) = "0" => toClient' = toClient \o file /\ server' = "lastack"
      /\ Head(toServer) # "0" => UNCHANGED toClient /\ server' = "done"
  BY DEF ReadMetaAck, CanRead, TakeByte, GoTo, Send, Sent, clientVars
<1>2. job = "get" /\ GetInv /\ ScpTyped /\ server' \in {"lastack", "done"}
  BY <1>1, Phases DEF ScpInv
<1>3. /\ file \in Seq(Bytes) /\ toClient \in Seq(Bytes) /\ toServer \in Seq(Bytes)
      /\ <<>> \o file = file
      /\ Head(OK) = "0" /\ Tail(OK) = <<>> /\ Head(OK \o OK) = "0" /\ Tail(OK \o OK) = OK
  BY <1>2, FilesFramed, Answers, Behind DEF ScpTyped
<1>4. ScpTyped'
  <2>1. toServer' \in Seq(Bytes)
    BY <1>1, <1>3, HeadTailProperties
  <2>2. toClient' \in Seq(Bytes)
    BY <1>1, <1>3, ConcatProperties
  <2> QED BY <1>1, <1>2, <2>1, <2>2 DEF ScpTyped
<1>5. client \in {"data", "closed"}
  BY <1>1, <1>2 DEF GetInv, GetOpening
<1>6. CASE client = "data"
  <2>1. toServer = OK /\ toClient = <<>> /\ received = <<>>
    BY <1>1, <1>2, <1>6 DEF GetInv, GetData
  <2>2. GetData'
    BY <1>1, <1>3, <2>1 DEF GetData
  <2> QED BY <1>1, <1>2, <1>4, <1>6, <2>2 DEF GetInv, ScpInv
<1>7. CASE client = "closed"
  <2>1. received = <<>> \/ GetDone
    BY <1>2, <1>7 DEF GetInv
  <2>2. GetDone => GetDone'
    <3>1. GetDone => toServer = OK \o OK /\ file = <<>> /\ toClient = <<>> /\ received = <<file>>
      BY <1>1 DEF GetDone
    <3> QED BY <1>1, <1>3, <3>1 DEF GetDone
  <2> QED BY <1>1, <1>2, <1>4, <1>7, <2>1, <2>2 DEF GetInv, ScpInv
<1> QED BY <1>5, <1>6, <1>7

LEMMA ReadLastAckKeeps ==
  ASSUME ScpInv, ReadLastAck
  PROVE  ScpInv'
<1>1. /\ server = "lastack" /\ server' = "done" /\ toServer # <<>>
      /\ toServer' = Tail(toServer)
      /\ UNCHANGED <<job, file, fatal, toClient, stored, client, acked, received>>
  BY DEF ReadLastAck, CanRead, TakeByte, GoTo, clientVars
<1>2. job = "get" /\ GetInv /\ ScpTyped
  BY <1>1, Phases DEF ScpInv
<1>3. ScpTyped'
  <2>1. toServer' \in Seq(Bytes)
    BY <1>1, <1>2, HeadTailProperties DEF ScpTyped
  <2> QED BY <1>1, <1>2, <2>1 DEF ScpTyped
<1>4. client = "closed"
  BY <1>1, <1>2 DEF GetInv, GetOpening, GetData
<1>5. GetDone => GetDone'
  BY <1>1, Answers DEF GetDone
<1> QED BY <1>1, <1>2, <1>3, <1>4, <1>5 DEF GetInv, ScpInv

\* A handler whose client is gone stops; a client that has its file is not gone
\* before its last answer is read.
LEMMA ReadFailsKeeps ==
  ASSUME ScpInv, ReadFails
  PROVE  ScpInv'
<1>1. /\ Reading /\ ~CanRead /\ client = "closed" /\ server' = "done"
      /\ UNCHANGED <<job, file, fatal, toServer, toClient, stored, client, acked, received>>
  BY DEF ReadFails, GoTo, clientVars
<1>2. ScpTyped'
  BY <1>1 DEF ScpInv, ScpTyped
<1>3. CASE server \in {"first", "warning", "record", "data", "trail"}
  <2>1. job = "put" /\ received = <<>> /\ ~acked /\ stored \in {<<>>, <<file>>}
    BY <1>3, Phases DEF PutLines, PutData, PutTrail
  <2>2. PutFails'
    BY <1>1, <2>1 DEF PutFails
  <2> QED BY <1>1, <1>2, <2>1, <2>2, PutPhase
<1>4. CASE server \in {"metaack", "lastack"}
  <2>1. job = "get" /\ GetInv
    BY <1>4, Phases
  <2>2. toServer = <<>>
    BY <1>1, <1>4 DEF CanRead
  <2>3. received = <<>>
    <3>1. OK # <<>> /\ OK \o OK # <<>>
      BY Answers, Behind
    <3> QED BY <1>1, <1>4, <2>1, <2>2, <3>1 DEF GetInv, GetDone
  <2> QED BY <1>1, <1>2, <2>1, <2>3 DEF GetInv, ScpInv
<1> QED BY <1>1, <1>3, <1>4 DEF Reading

----------------------------------------------------------------------------
(* The client *)

\* The server's first OK.
LEMMA GreetedKeeps ==
  ASSUME ScpInv, Greeted
  PROVE  ScpInv'
<1>1. /\ client = "hello" /\ toClient # <<>> /\ Head(toClient) = "0"
      /\ toClient' = Tail(toClient)
      /\ client' = IF job = "put" THEN "send" ELSE "record"
      /\ UNCHANGED <<job, file, server, fatal, stored, toServer, acked, received>>
  BY DEF Greeted, Hears, Hear, ServerSide
<1>2. ScpTyped /\ ScpTyped'
  <2>1. ScpTyped
    BY DEF ScpInv
  <2>2. toClient' \in Seq(Bytes)
    BY <1>1, <2>1, HeadTailProperties DEF ScpTyped
  <2> QED BY <1>1, <2>1, <2>2 DEF ScpTyped
<1>3. ~NotBegun
  BY <1>1 DEF NotBegun
<1>4. /\ Head(Error) = "1" /\ Tail(OK) = <<>> /\ Tail(OK \o Record("C")) = Record("C")
      /\ Tail(OK \o Error) = Error
      /\ <<>> \o Record("C") = Record("C") /\ <<>> \o Error = Error
  BY Answers, Behind, FileRecord
<1>5. CASE job = "put"
  <2>1. PutInv
    BY <1>3, <1>5 DEF ScpInv
  <2>2. PutLines /\ ~acked /\ received = <<>>
    BY <1>1, <1>4, <2>1 DEF PutInv, PutData, PutTrail, PutFails, PutDone
  <2>3. toServer = <<>> /\ toClient' = <<>>
    BY <1>1, <1>4, <2>2 DEF PutLines
  <2>4. PutLines'
    <3>1. AtByte'
      BY <1>1, <2>3 DEF AtByte
    <3> QED BY <1>1, <1>5, <2>2, <2>3, <3>1, NothingFramed DEF PutLines
  <2> QED BY <1>1, <1>2, <1>5, <2>2, <2>4, PutPhase
<1>6. CASE job = "get"
  <2>1. GetInv
    BY <1>3, <1>6 DEF ScpInv
  <2>2. GetOpening
    BY <1>1, <2>1 DEF GetInv
  <2>3. GetOpening'
    BY <1>1, <1>4, <1>6, <2>2 DEF GetOpening
  <2>4. GetInv'
    BY <1>1, <1>6, <2>1, <2>3 DEF GetInv
  <2> QED BY <1>1, <1>2, <1>6, <2>4 DEF ScpInv
<1> QED BY <1>2, <1>5, <1>6 DEF ScpTyped

\* What a client says before the data.
LEMMA SaidKeeps ==
  ASSUME ScpInv, client = "send", toServer' \in Seq(Bytes), toServer' # <<>>,
         Framed(toServer'),
         Head(toServer') \in IF toServer = <<>> THEN Starts ELSE {Head(toServer)},
         \/ Asks(toServer', {}) /\ client' = "send"
         \/ Asks(toServer', {"D", "E", "T"}) /\ Comes(toServer') /\ client' = "otherack"
         \/ Asks(toServer', {"C"}) /\ Comes(toServer') /\ client' = "metaack",
         UNCHANGED <<job, file, server, fatal, stored, toClient, acked, received>>
  PROVE  ScpInv'
<1>1. job = "put" /\ PutInv
  BY Phases
<1>2. ScpTyped'
  BY DEF ScpInv, ScpTyped
<1>3. received = <<>> /\ ~acked /\ (PutLines \/ PutFails)
  BY <1>1 DEF PutInv, PutData, PutTrail, PutDone
<1>4. CASE PutLines
  <2>1. AtByte'
    BY <1>4 DEF PutLines, AtByte
  <2>2. Asks(toServer', Letters)
    BY DEF Asks, Letters
  <2> QED BY <1>1, <1>2, <1>3, <1>4, <2>1, <2>2, PutPhase DEF PutLines
<1>5. CASE PutFails
  BY <1>1, <1>2, <1>3, <1>5, PutPhase DEF PutFails
<1> QED BY <1>3, <1>4, <1>5

LEMMA SendKeeps ==
  ASSUME ScpInv, SendWarning \/ SendOther \/ SendMeta
  PROVE  ScpInv'
<1>1. /\ client = "send"
      /\ UNCHANGED <<job, file, server, fatal, stored, toClient, acked, received>>
  BY DEF SendWarning, SendOther, SendMeta, ServerSide
<1>2. toServer \in Seq(Bytes) /\ job = "put" /\ PutInv
  BY <1>1, Phases DEF ScpInv, ScpTyped
<1>3. CASE PutLines
  <2>1. Framed(toServer) /\ Asks(toServer, {})
    BY <1>1, <1>3 DEF PutLines
  <2>2. CASE SendWarning
    <3>1. toServer' = toServer \o <<"1", "text", "newline">> /\ client' = "send"
      BY <2>2 DEF SendWarning, Say
    <3> QED BY <1>1, <1>2, <2>1, <3>1, WarningSaid, SaidKeeps
  <2>3. CASE SendOther
    <3>1. PICK letter \in {"D", "E", "T"} :
            toServer' = toServer \o Prefixed(Record(letter)) /\ client' = "otherack"
      BY <2>3 DEF SendOther, Say
    <3>2. /\ letter \in Letters
          /\ \A q : Asks(q, {letter}) => Asks(q, {"D", "E", "T"})
      BY DEF Letters, Asks
    <3> QED BY <1>1, <1>2, <2>1, <3>1, <3>2, RecordSaid, SaidKeeps
  <2>4. CASE SendMeta
    <3>1. toServer' = toServer \o Prefixed(Record("C")) /\ client' = "metaack" /\ "C" \in Letters
      BY <2>4 DEF SendMeta, Say, Letters
    <3> QED BY <1>1, <1>2, <2>1, <3>1, RecordSaid, SaidKeeps
  <2> QED BY <2>2, <2>3, <2>4
<1>4. CASE ~PutLines
  <2>1. PutFails /\ ~acked /\ received = <<>>
    BY <1>1, <1>2, <1>4 DEF PutInv, PutData, PutTrail, PutDone
  <2>2. client' \in {"send", "otherack", "metaack"}
    BY <1>1 DEF SendWarning, SendOther, SendMeta
  <2>3. toServer' \in Seq(Bytes)
    <3>1. /\ OK \in Seq(Bytes) /\ <<"1", "text", "newline">> \in Seq(Bytes)
          /\ \A letter \in Letters : Record(letter) \in Seq(Bytes)
      BY Answers DEF Bytes, Letters, Record
    <3>2. \A letter \in Letters : Prefixed(Record(letter)) \in Seq(Bytes)
      BY <3>1, ConcatProperties DEF Prefixed
    <3>3. \/ toServer' = toServer \o <<"1", "text", "newline">>
          \/ \E letter \in Letters : toServer' = toServer \o Prefixed(Record(letter))
      BY DEF SendWarning, SendOther, SendMeta, Say, Letters
    <3> QED BY <1>2, <3>1, <3>2, <3>3, ConcatProperties
  <2>4. ScpTyped'
    BY <1>1, <2>3 DEF ScpInv, ScpTyped
  <2>5. PutFails'
    BY <1>1, <2>1, <2>2 DEF PutFails
  <2> QED BY <1>1, <1>2, <2>1, <2>4, <2>5, PutPhase
<1> QED BY <1>3, <1>4

\* The answers to a record, and what follows them.
LEMMA OtherAckedKeeps ==
  ASSUME ScpInv, OtherAcked
  PROVE  ScpInv'
<1>1. /\ client = "otherack" /\ client' = "send" /\ toClient # <<>>
      /\ Head(toClient) = "0" /\ toClient' = Tail(toClient)
      /\ UNCHANGED <<job, file, server, fatal, stored, toServer, acked, received>>
  BY DEF OtherAcked, Hears, Hear, ServerSide
<1>2. job = "put" /\ PutInv /\ ScpTyped
  BY <1>1, Phases DEF ScpInv
<1>3. received = <<>> /\ ~acked /\ (PutLines \/ PutFails)
  BY <1>1, <1>2 DEF PutInv, PutData, PutTrail, PutDone
<1>4. toClient = OK /\ toClient' = <<>>
  BY <1>1, <1>3, Answers DEF PutLines, PutFails
<1>5. ScpTyped'
  BY <1>1, <1>2, <1>4, NothingFramed DEF ScpTyped
<1>6. CASE PutLines
  <2>1. toServer = <<>> /\ AtByte'
    BY <1>1, <1>4, <1>6, NothingFramed DEF PutLines, AtByte
  <2>2. PutLines'
    BY <1>1, <1>4, <1>6, <2>1, NothingFramed DEF PutLines
  <2> QED BY <1>1, <1>2, <1>3, <1>5, <2>2, PutPhase
<1>7. CASE PutFails
  <2>1. PutFails'
    BY <1>1, <1>4, <1>7 DEF PutFails
  <2> QED BY <1>1, <1>2, <1>3, <1>5, <2>1, PutPhase
<1> QED BY <1>3, <1>6, <1>7

LEMMA SendDataKeeps ==
  ASSUME ScpInv, SendData
  PROVE  ScpInv'
<1>1. /\ client = "metaack" /\ client' = "dataack" /\ toClient # <<>>
      /\ toClient' = Tail(toClient) /\ toServer' = toServer \o (file \o OK)
      /\ UNCHANGED <<job, file, server, fatal, stored, acked, received>>
  BY DEF SendData, Hears, Hear, Say, ServerSide
<1>2. job = "put" /\ PutInv /\ ScpTyped
  BY <1>1, Phases DEF ScpInv
<1>3. received = <<>> /\ ~acked /\ (PutData \/ PutTrail)
  BY <1>1, <1>2 DEF PutInv, PutLines, PutFails, PutDone
<1>4. toServer = <<>> /\ toClient' = <<>>
  BY <1>1, <1>3, Answers DEF PutData, PutTrail
<1>5. /\ toServer' = file \o OK /\ toServer' \in Seq(Bytes)
      /\ file = <<>> => toServer' = OK
  BY <1>1, <1>2, <1>4, FilesFramed, DataFramed, Behind, Answers DEF ScpTyped
<1>6. ScpTyped'
  BY <1>1, <1>2, <1>4, <1>5, NothingFramed DEF ScpTyped
<1>7. PutData' \/ PutTrail'
  BY <1>1, <1>3, <1>4, <1>5 DEF PutData, PutTrail
<1> QED BY <1>1, <1>2, <1>3, <1>6, <1>7, PutPhase

LEMMA DataAckedKeeps ==
  ASSUME ScpInv, DataAcked
  PROVE  ScpInv'
<1>1. /\ client = "dataack" /\ client' = "closed" /\ toClient # <<>>
      /\ toClient' = Tail(toClient) /\ acked' = TRUE
      /\ UNCHANGED <<job, file, server, fatal, stored, toServer, received>>
  BY DEF DataAcked, Hears, Hear, ServerSide
<1>2. job = "put" /\ PutInv /\ ScpTyped
  BY <1>1, Phases DEF ScpInv
<1>3. PutDone /\ received = <<>>
  BY <1>1, <1>2 DEF PutInv, PutLines, PutData, PutTrail, PutFails
<1>4. toClient' = <<>>
  BY <1>1, <1>3, Answers DEF PutDone
<1>5. PutDone'
  BY <1>1, <1>3, <1>4 DEF PutDone
<1>6. ScpTyped'
  BY <1>1, <1>2, <1>4, NothingFramed DEF ScpTyped
<1> QED BY <1>1, <1>2, <1>3, <1>5, <1>6 DEF ScpInv, PutInv

\* The record and the data of a fetched file.
LEMMA HearRecordKeeps ==
  ASSUME ScpInv, HearRecord
  PROVE  ScpInv'
<1>1. /\ client = "record" /\ client' = "data" /\ toClient # <<>> /\ Head(toClient) = "C"
      /\ toClient' = AfterFirst(toClient, LineEnd(toClient)) /\ toServer' = toServer \o OK
      /\ UNCHANGED <<job, file, server, fatal, stored, acked, received>>
  BY DEF HearRecord, Hears, Say, ServerSide
<1>2. job = "get" /\ GetInv /\ ScpTyped
  BY <1>1, Phases DEF ScpInv
<1>3. GetOpening
  BY <1>1, <1>2 DEF GetInv
<1>4. <<>> \o Record("C") = Record("C") /\ <<>> \o Error = Error /\ <<>> \o OK = OK
  BY Answers, Behind, FileRecord
<1>5. /\ server = "metaack" /\ toClient = Record("C") /\ received = <<>>
      /\ toServer = <<>>
  BY <1>1, <1>3, <1>4, Answers DEF GetOpening
<1>6. toClient' = <<>> /\ toServer' = OK
  BY <1>1, <1>4, <1>5, FileRecord
<1>7. GetData'
  BY <1>1, <1>5, <1>6 DEF GetData
<1>8. ScpTyped'
  BY <1>1, <1>2, <1>6, Answers, NothingFramed DEF ScpTyped
<1> QED BY <1>1, <1>2, <1>7, <1>8 DEF GetInv, ScpInv

LEMMA HearDataKeeps ==
  ASSUME ScpInv, HearData
  PROVE  ScpInv'
<1>1. /\ client = "data" /\ client' = "closed" /\ Len(toClient) >= Len(file)
      /\ received' = Append(received, SubSeq(toClient, 1, Len(file)))
      /\ toClient' = AfterFirst(toClient, Len(file)) /\ toServer' = toServer \o OK
      /\ UNCHANGED <<job, file, server, fatal, stored, acked>>
  BY DEF HearData, Say, ServerSide
<1>2. job = "get" /\ GetInv /\ ScpTyped
  BY <1>1, Phases DEF ScpInv
<1>3. GetData
  BY <1>1, <1>2 DEF GetInv
<1>4. /\ SubSeq(file, 1, Len(file)) = file /\ AfterFirst(file, Len(file)) = <<>>
      /\ Len(<<>>) >= Len(file) => file = <<>>
      /\ <<>> \o OK = OK
  BY <1>2, FilesFramed, DataFramed, Answers, Behind DEF ScpTyped
<1>5. toClient = file /\ received = <<>>
  BY <1>1, <1>3, <1>4 DEF GetData
<1>6. received' = <<file>> /\ toClient' = <<>>
  BY <1>1, <1>4, <1>5
<1>7. GetDone'
  BY <1>1, <1>3, <1>4, <1>5, <1>6 DEF GetData, GetDone
<1>8. ScpTyped'
  <2>1. toServer' \in Seq(Bytes)
    BY <1>1, <1>2, Answers, ConcatProperties DEF ScpTyped
  <2> QED BY <1>1, <1>2, <1>6, <2>1, NothingFramed DEF ScpTyped
<1> QED BY <1>1, <1>2, <1>7, <1>8 DEF GetInv, ScpInv

\* A client that gives up, by itself or because its user stops it.
LEMMA ClosedKeeps ==
  ASSUME ScpInv, ClientFails \/ Quit
  PROVE  ScpInv'
<1>1. /\ client # "closed" /\ client' = "closed"
      /\ UNCHANGED <<job, file, server, fatal, stored, toServer, toClient, acked, received>>
  BY DEF ClientFails, Quit, Awaiting, ServerSide
<1>2. ScpTyped'
  BY <1>1 DEF ScpInv, ScpTyped
<1>3. CASE NotBegun
  BY <1>1, <1>2, <1>3 DEF NotBegun, ScpInv
<1>4. CASE job = "put" /\ PutInv
  <2>1. received = <<>> /\ ~acked
    BY <1>1, <1>4 DEF PutInv, PutDone
  <2>2. PutLines => PutLines'
    BY <1>1 DEF PutLines, AtByte
  <2>3. (PutData => PutData') /\ (PutTrail => PutTrail')
    BY <1>1 DEF PutData, PutTrail
  <2>4. PutFails \/ PutDone => PutFails'
    BY <1>1 DEF PutFails, PutDone
  <2> QED BY <1>1, <1>2, <1>4, <2>1, <2>2, <2>3, <2>4, PutPhase DEF PutInv
<1>5. CASE job = "get" /\ GetInv
  <2>1. received = <<>>
    BY <1>1, <1>5 DEF GetInv, GetOpening, GetData
  <2> QED BY <1>1, <1>2, <1>5, <2>1 DEF GetInv, ScpInv
<1> QED BY <1>3, <1>4, <1>5 DEF ScpInv

----------------------------------------------------------------------------
(* The session *)

\* Whatever is stored or fetched, whoever stops when: both sides are where the
\* bytes under way leave them.
THEOREM SessionCorrect == Spec => []ScpInv
<1>1. Init => ScpInv
  BY NothingFramed DEF Init, ScpInv, ScpTyped, NotBegun
<1>2. ScpInv /\ [Next]_svars => ScpInv'
  <2> SUFFICES ASSUME ScpInv, [Next]_svars PROVE ScpInv'
    OBVIOUS
  <2>1. CASE ServerStep
    BY <2>1, StartKeeps, ReadFirstKeeps, ReadWarningKeeps, ReadRecordKeeps, ReadDataKeeps,
       ReadTrailKeeps, SendRecordKeeps, ReadMetaAckKeeps, ReadLastAckKeeps, ReadFailsKeeps
    DEF ServerStep
  <2>2. CASE ClientStep \/ Quit
    BY <2>2, GreetedKeeps, SendKeeps, OtherAckedKeeps, SendDataKeeps, DataAckedKeeps,
       HearRecordKeeps, HearDataKeeps, ClosedKeeps
    DEF ClientStep
  <2>3. CASE UNCHANGED svars
    <3>1. UNCHANGED <<job, file, server, fatal, toServer, toClient, client, acked,
                      received, stored>>
      BY <2>3 DEF svars
    <3>2. ScpTyped' /\ (NotBegun => NotBegun')
      BY <3>1 DEF ScpInv, ScpTyped, NotBegun
    <3>3. PutInv => PutInv'
      BY <3>1 DEF PutInv, PutLines, AtByte, PutData, PutTrail, PutFails, PutDone
    <3>4. GetInv => GetInv'
      BY <3>1 DEF GetInv, GetOpening, GetData, GetDone
    <3> QED BY <3>1, <3>2, <3>3, <3>4 DEF ScpInv
  <2> QED BY <2>1, <2>2, <2>3 DEF Next
<1> QED BY <1>1, <1>2, PTL DEF Spec

\* receiveSCP calls the write handler with the bytes of the file that the client
\* sent, whatever came before them and whatever they look like.
THEOREM StoredFilesAreSent == Spec => []StoredIsSent
<1>1. ScpInv => StoredIsSent
  <2> SUFFICES ASSUME ScpInv PROVE stored = <<>> \/ stored = <<file>>
    BY DEF StoredIsSent
  <2> QED BY DEF ScpInv, NotBegun, PutInv, PutLines, PutData, PutTrail, PutFails, PutDone,
                 GetInv
<1> QED BY <1>1, SessionCorrect, PTL

\* A client is told that its file is stored only after the handler had it, once.
THEOREM AckedFilesAreServed == Spec => []AckedIsServed
<1>1. ScpInv => AckedIsServed
  BY DEF AckedIsServed, ScpInv, NotBegun, PutInv, PutDone, GetInv
<1> QED BY <1>1, SessionCorrect, PTL

\* sendSCP's client has the file that the read handler answered.
THEOREM ReceivedFilesAreRead == Spec => []ReceivedIsRead
<1>1. ScpInv => ReceivedIsRead
  <2> SUFFICES ASSUME ScpInv PROVE received = <<>> \/ received = <<file>>
    BY DEF ReceivedIsRead
  <2> QED BY DEF ScpInv, NotBegun, PutInv, GetInv, GetOpening, GetData, GetDone
<1> QED BY <1>1, SessionCorrect, PTL

\* A transfer that went well leaves nothing unread, so the next thing said on the
\* session would be understood.
THEOREM NothingIsLeft == Spec => []NothingLeft
<1>1. ScpInv => NothingLeft
  <2> SUFFICES ASSUME ScpInv, server = "done", acked \/ received # <<>>
               PROVE  toServer = <<>> /\ toClient = <<>>
    BY DEF NothingLeft
  <2>1. CASE job = "put" /\ PutInv
    <3>1. PutDone /\ acked
      BY <2>1 DEF PutInv
    <3> QED BY <3>1 DEF PutDone
  <2>2. CASE job = "get" /\ GetInv
    <3>1. GetDone
      BY <2>2 DEF GetInv, GetOpening, GetData
    <3> QED BY <3>1 DEF GetDone
  <2> QED BY <2>1, <2>2 DEF ScpInv, NotBegun
<1> QED BY <1>1, SessionCorrect, PTL

\* A client that sends an OK byte before every record is never kept waiting by a
\* handler that waits for it: what the server reads next, or the answer that the
\* client waits for, is there.
THEOREM NeverBothWait ==
  ASSUME LeadingByte
  PROVE  Spec => []NoMutualWait
<1>1. ScpInv => NoMutualWait
  <2> SUFFICES ASSUME ScpInv, ServerWaits, Awaiting PROVE CanHear
    BY DEF NoMutualWait, ClientWaits
  <2>1. /\ OK # <<>> /\ Head(OK) = "0" /\ \A q \in Seq(Bytes) : OK \o q # <<>> /\ Head(OK \o q) = "0"
    BY Answers, Behind
  <2>2. ScpTyped /\ Reading /\ ~CanRead /\ client # "closed" /\ client # "send"
    BY DEF ScpInv, ServerWaits, Awaiting
  <2>3. CASE server \in {"first", "warning", "record"}
    <3>1. PutLines
      BY <2>3, Phases
    <3>2. toServer = <<>>
      <4>1. CASE server = "first"
        BY <2>2, <4>1 DEF CanRead
      <4>2. CASE server # "first"
        <5>1. /\ toServer \in Seq(Bytes) /\ Framed(toServer) /\ Asks(toServer, Letters)
              /\ ~HasLine(toServer)
          BY <2>2, <2>3, <3>1, <4>2 DEF CanRead, PutLines, ScpTyped
        <5>2. toServer # <<>> => Head(toServer) \in {"text"} \cup Letters
          BY <2>3, <3>1, <4>2 DEF PutLines, AtByte
        <5> QED BY <5>1, <5>2, WarningRead, RecordRead
      <4> QED BY <4>1, <4>2
    <3>3. ~Comes(toServer)
      BY <3>2 DEF Comes
    <3>4. toClient = OK /\ client \notin {"record", "data"}
      BY <2>2, <3>1, <3>3 DEF PutLines
    <3> QED BY <2>1, <3>4 DEF CanHear, Hears
  <2>4. CASE server \in {"data", "trail"}
    <3>1. PutData \/ PutTrail
      BY <2>4, Phases
    <3>2. client # "dataack"
      <4>1. Len(file \o OK) >= Len(file)
        BY <2>2, FilesFramed, Answers, ConcatProperties DEF ScpTyped
      <4> QED BY <2>1, <2>2, <3>1, <4>1 DEF CanRead, PutData, PutTrail
    <3>3. client = "metaack" /\ toClient = OK
      BY <2>2, <3>1, <3>2 DEF PutData, PutTrail
    <3> QED BY <2>1, <3>3 DEF CanHear, Hears
  <2>5. CASE server \in {"metaack", "lastack"}
    <3>1. GetInv
      BY <2>5, Phases
    <3>2. CASE client \in {"hello", "record"}
      <4>1. server = "metaack" /\ toClient = (IF client = "hello" THEN OK ELSE <<>>) \o Record("C")
        BY <2>5, <3>1, <3>2 DEF GetInv, GetOpening
      <4>2. client = "hello" => Hears("0")
        BY <2>1, <4>1, FileRecord DEF Hears
      <4>3. client = "record" => toClient = Record("C")
        BY <4>1, FileRecord, Behind
      <4>4. client = "record" => Hears("C") /\ HasLine(toClient)
        BY <4>3, FileRecord DEF Hears
      <4> QED BY <3>2, <4>2, <4>4 DEF CanHear
    <3>3. CASE client = "data"
      <4>1. toServer = <<>>
        BY <2>2, <2>5 DEF CanRead
      <4>2. toClient = file
        BY <2>1, <3>1, <3>3, <4>1 DEF GetInv, GetData
      <4>3. Len(file) \in Nat
        BY <2>2, FilesFramed DEF ScpTyped
      <4> QED BY <3>3, <4>2, <4>3 DEF CanHear
    <3> QED BY <2>2, <3>1, <3>2, <3>3 DEF GetInv
  <2> QED BY <2>2, <2>3, <2>4, <2>5 DEF Reading
<1> QED BY <1>1, SessionCorrect, PTL
=============================================================================
