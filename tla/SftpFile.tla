------------------------------ MODULE SftpFile ------------------------------
(***************************************************************************)
(* The SFTP requests of internal/sshfs/server.go: routerFS with its cache  *)
(* of write responses, shared by all sessions, the writeBuffer of an open  *)
(* handle, and directory listings served page by page.  The SFTP library   *)
(* (external) runs a handle's WriteAt calls in goroutines, in any order,   *)
(* and closes a handle after its last one; it asks a lister for pages      *)
(* until one is empty.                                                     *)
(*                                                                         *)
(* A client works on files or on one directory.  The files are one path,   *)
(* written through several handles; chunk i of a file is its byte i - 1.   *)
(* What a script answers a write with is numbered; 0 is the empty answer.  *)
(***************************************************************************)
EXTENDS Naturals, Sequences, SequencesExt, FiniteSets

CONSTANTS Handles,    \* open writes
          FileLength, \* the bytes, and chunks, of the file that is written
          Window,     \* bound on the chunks a client has under way
          MaxAnswers, \* bound on the answers of the write handler
          Entries,    \* what a directory's entries may be, of type Entry
          MaxEntries, \* bound on the entries of a directory
          PageSize    \* the entries the library asks for at a time

Entry == [readdir : BOOLEAN, children : BOOLEAN, dirMode : BOOLEAN,
          slash : BOOLEAN, blank : BOOLEAN]

ASSUME FileLengthAssumption == FileLength \in Nat \ {0}
ASSUME WindowAssumption == Window \in Nat \ {0}
ASSUME MaxAnswersAssumption == MaxAnswers \in Nat
ASSUME EntriesAssumption == Entries # {} /\ Entries \subseteq Entry
ASSUME MaxEntriesAssumption == MaxEntries \in Nat
ASSUME PageSizeAssumption == PageSize \in Nat \ {0}

VARIABLES subject,     \* what a client works on: "files" or "list"
          readHandler, \* the script's read handler: "none", "works" or "fails"
          writeCache,  \* the response kept for the path, 0 if there is none
          handle,      \* [Handles -> the state of an open write]
          answers,     \* how many calls of the write handler were answered
          overlapped,  \* two answers waited to be cached at the same time
          lastAnswer,  \* the last of them that was not empty
          found,       \* what the last Fileread answered
          directory,   \* the directory's own readdir handler, and its entries
          lister       \* a client's progress in listing it

fileVars == <<writeCache, handle, answers, overlapped, lastAnswer, found>>
listVars == <<directory, lister>>
sftpVars == <<subject, readHandler, fileVars, listVars>>

File == [i \in 1 .. FileLength |-> i]
Gap == 0

Closed == [at |-> "closed", sent |-> 0, flight |-> {}, data |-> <<>>,
           call |-> <<>>, inOrder |-> TRUE, answer |-> 0, chunk |-> 0]

Nothing == [result |-> "nothing", answer |-> 0, last |-> 0]

InitSftp ==
  /\ subject \in {"files", "list"}
  /\ readHandler \in {"none", "works", "fails"}
  /\ writeCache = 0 /\ answers = 0 /\ overlapped = FALSE /\ lastAnswer = 0
  /\ handle = [h \in Handles |-> Closed] /\ found = Nothing
  /\ directory \in [handler : BOOLEAN,
                    entries : UNION {[1 .. n -> Entries] : n \in 0 .. MaxEntries}]
  /\ subject = "files" => directory.entries = <<>> /\ ~directory.handler
  /\ subject = "list" => readHandler = "none"
  /\ lister = [at |-> "closed", items |-> <<>>, listed |-> <<>>, told |-> FALSE]

----------------------------------------------------------------------------
(* Writing *)

\* Filewrite makes a buffer for every open.
Filewrite(h) ==
  /\ subject = "files" /\ handle[h].at = "closed"
  /\ handle' = [handle EXCEPT ![h].at = "open"]
  /\ UNCHANGED <<subject, readHandler, writeCache, answers, overlapped, lastAnswer,
                 found, listVars>>

\* A client sends the next chunk of the file.
SendChunk(h) ==
  /\ handle[h].at \in {"open", "serving"}
  /\ handle[h].sent < FileLength /\ Cardinality(handle[h].flight) < Window
  /\ handle' = [handle EXCEPT ![h].sent = @ + 1,
                              ![h].flight = @ \cup {handle[h].sent + 1}]
  /\ UNCHANGED <<subject, readHandler, writeCache, answers, overlapped, lastAnswer,
                 found, listVars>>

\* WriteAt's buffer: grown with zeros up to the chunk's end, never shrunk.
WithChunkAlone(data, i) ==
  [j \in 1 .. (IF i > Len(data) THEN i ELSE Len(data)) |-> IF j = i THEN i ELSE Gap]
WithChunk(data, i) ==
  [j \in 1 .. (IF i > Len(data) THEN i ELSE Len(data)) |->
     IF j = i THEN i ELSE IF j <= Len(data) THEN data[j] ELSE Gap]

\* WriteAt takes wb.mu, which another chunk of the handle may hold, and calls
\* the write handler with everything up to the chunk's end.
ServeChunk(h, i) ==
  /\ handle[h].at = "open" /\ i \in handle[h].flight /\ answers < MaxAnswers
  /\ LET data == WithChunk(handle[h].data, i) IN
     \E answer \in {0, answers + 1} :
       /\ handle' = [handle EXCEPT ![h].at = "serving", ![h].data = data,
                       ![h].call = SubSeq(data, 1, i), ![h].chunk = i,
                       ![h].inOrder = @ /\ i = Len(handle[h].call) + 1,
                       ![h].answer = answer]
       /\ overlapped' = (overlapped \/ \E k \in Handles \ {h} :
                                         handle[k].at = "serving")
  /\ answers' = answers + 1
  /\ UNCHANGED <<subject, readHandler, writeCache, lastAnswer, found, listVars>>

\* What is cached: an error, or an empty answer, leaves the cache alone.
KeptUnlessFirst(answer) == IF writeCache = 0 THEN answer ELSE writeCache
Kept(answer) == IF answer = 0 THEN writeCache ELSE answer

\* The rest of WriteAt; an error of the handler is only logged.
CacheAnswer(h) ==
  /\ handle[h].at = "serving"
  /\ writeCache' = Kept(handle[h].answer)
  /\ lastAnswer' = IF handle[h].answer > lastAnswer THEN handle[h].answer ELSE lastAnswer
  /\ handle' = [handle EXCEPT ![h].at = "open", ![h].answer = 0,
                              ![h].flight = @ \ {handle[h].chunk}]
  /\ UNCHANGED <<subject, readHandler, answers, overlapped, found, listVars>>

\* The library closes a handle after its last WriteAt.
CloseFile(h) ==
  /\ handle[h].at = "open" /\ handle[h].sent = FileLength /\ handle[h].flight = {}
  /\ handle' = [handle EXCEPT ![h].at = "done"]
  /\ UNCHANGED <<subject, readHandler, writeCache, answers, overlapped, lastAnswer,
                 found, listVars>>

----------------------------------------------------------------------------
(* Reading and removing *)

\* Fileread: what it finds, fixed when the file is opened.
Finds ==
  CASE readHandler = "works" -> "script's"
    [] readHandler = "none" /\ writeCache # 0 -> "cached"
    [] OTHER -> "NoSuchFile"

Fileread ==
  /\ subject = "files"
  /\ found' = [result |-> Finds, answer |-> writeCache, last |-> lastAnswer]
  /\ UNCHANGED <<subject, readHandler, writeCache, handle, answers, overlapped,
                 lastAnswer, listVars>>

\* Filecmd "Remove" and "Rmdir" call the unlink handler, whose error is
\* NoSuchFile to the client.  The cache is not told either way.
Filecmd ==
  /\ subject = "files"
  /\ \E result \in {"removed", "not removed"} :
       found' = [Nothing EXCEPT !.result = result]
  /\ UNCHANGED <<subject, readHandler, writeCache, handle, answers, overlapped,
                 lastAnswer, listVars>>

----------------------------------------------------------------------------
(* Listing *)

\* readDir's kinds of the tree's children, without a readdir handler of the
\* directory's own, and getFileInfo's, with routerFileInfo.IsDir.
ListedAsDir(e) == e.readdir \/ e.children
StattedAsDir(e) == e.readdir \/ e.dirMode

\* readDir: the lines of the handler's answer that are not blank, or the
\* children in the tree; each with what it is listed as.
NotBlank(entries) ==
  LET upTo[n \in 0 .. Len(entries)] ==
        IF n = 0 THEN <<>>
        ELSE IF entries[n].blank THEN upTo[n - 1] ELSE Append(upTo[n - 1], entries[n])
  IN upTo[Len(entries)]
Items(d) ==
  IF d.handler
    THEN LET names == NotBlank(d.entries)
         IN [i \in DOMAIN names |-> [entry |-> names[i], isDir |-> names[i].slash]]
    ELSE [i \in DOMAIN d.entries |->
            [entry |-> d.entries[i], isDir |-> ListedAsDir(d.entries[i])]]

\* Filelist "List": refused if the handler fails, or the tree has no such path.
Filelist ==
  /\ subject = "list" /\ lister.at = "closed"
  /\ \/ lister' = [lister EXCEPT !.at = "open", !.items = Items(directory)]
     \/ /\ directory.handler \/ directory.entries = <<>>
        /\ lister' = [lister EXCEPT !.at = "failed"]
  /\ UNCHANGED <<subject, readHandler, fileVars, directory>>

\* The script lists something else from now on.
EntriesChange ==
  /\ lister.at # "closed" /\ directory.entries # <<>>
  /\ directory' = [directory EXCEPT !.entries = Tail(@)]
  /\ UNCHANGED <<subject, readHandler, fileVars, lister>>

\* ListAt: a page, and whether it tells the end with it.
PageFrom(offset) ==
  SubSeq(lister.items, offset + 1, Min({offset + PageSize, Len(lister.items)}))
TellsEndEarly(offset, n) == offset > 0 \/ n < PageSize
TellsEnd(offset, n) ==
  \/ offset >= Len(lister.items)
  \/ offset > 0 /\ offset + n >= Len(lister.items)
  \/ n < PageSize

\* The library asks from where the last page ended, and passes the end on to
\* the client when a page is empty.
ListAt ==
  /\ lister.at = "open"
  /\ LET offset == Len(lister.listed)
         page == PageFrom(offset) IN
     lister' = [lister EXCEPT !.listed = @ \o page,
                              !.told = TellsEnd(offset, Len(page)),
                              !.at = IF page = <<>> THEN "end" ELSE "open"]
  /\ UNCHANGED <<subject, readHandler, fileVars, directory>>

----------------------------------------------------------------------------
NextSftp ==
  \/ \E h \in Handles :
       \/ Filewrite(h) \/ SendChunk(h) \/ CacheAnswer(h) \/ CloseFile(h)
       \/ \E i \in 1 .. FileLength : ServeChunk(h, i)
  \/ Fileread \/ Filecmd \/ Filelist \/ EntriesChange \/ ListAt

SpecSftp == InitSftp /\ [][NextSftp]_sftpVars

----------------------------------------------------------------------------
(* Properties *)

\* Whatever order the chunks come in, the buffer of a closed handle is the
\* file.  What the script was given last is the file if they came in order;
\* a call before that holds zeros where chunks have not come, and nothing else
\* that the client did not send.  (A chunk that comes after a later one ends
\* in a call with less than the script has been given already.)
WholeFileServed ==
  \A h \in Handles : LET w == handle[h] IN
    /\ w.at = "done" => w.data = File
    /\ w.at = "done" /\ w.inOrder => w.call = File
    /\ \A j \in DOMAIN w.call : w.call[j] = j \/ (w.call[j] = Gap /\ ~w.inOrder)

\* A path without read handler reads as the last answer that was not empty and
\* whose write was acknowledged, until the next one, removed or not: unless
\* answers to two handles overlapped, which are cached in any order.  It is
\* missing only as long as there was none, and the cache never shows where
\* there is a read handler, even one that fails.
ReadsLastAnswer ==
  /\ found.result = "cached" => /\ readHandler = "none"
                                /\ found.answer # 0
                                /\ overlapped \/ found.answer = found.last
  /\ found.result = "NoSuchFile" /\ readHandler = "none" => found.last = 0

\* A client that lists a directory page by page gets each entry once, as they
\* were when it began, and is told the end when and only when it has them all.
\* What is listed as a file from the tree is not a directory to stat, unless
\* its getattr handler says so.
ListedOnce ==
  /\ IsPrefix(lister.listed, lister.items)
  /\ lister.told => lister.listed = lister.items
  /\ lister.at = "end" => lister.told
  /\ ~directory.handler =>
       \A i \in DOMAIN lister.items : LET e == lister.items[i].entry IN
         StattedAsDir(e) => lister.items[i].isDir \/ e.dirMode

\* What makes the first two inductive.  A buffer holds what was served and zeros,
\* and a script that was given the chunks in order was given all of them; as
\* long as answers do not overlap the one that waits is newer than the cache.
HandleState ==
  [at : {"closed", "open", "serving", "done"}, sent : 0 .. FileLength,
   flight : SUBSET (1 .. FileLength), data : Seq(Nat), call : Seq(Nat),
   inOrder : BOOLEAN, answer : Nat, chunk : Nat]

Answered(w) == IF w.at = "serving" THEN {w.chunk} ELSE {}
Written(w) == (1 .. w.sent) \ (w.flight \ Answered(w))

InFlight(w) ==
  /\ w.flight \subseteq 1 .. w.sent
  /\ w.at = "serving" => w.chunk \in w.flight
  /\ w.at = "done" => w.sent = FileLength /\ w.flight = {}
Buffered(w) ==
  /\ Written(w) \subseteq 1 .. Len(w.data) /\ Len(w.data) <= w.sent
  /\ \A j \in 1 .. Len(w.data) : w.data[j] = IF j \in Written(w) THEN j ELSE Gap
Called(w) ==
  /\ w.inOrder => Written(w) = 1 .. Len(w.call)
  /\ \A j \in 1 .. Len(w.call) : w.call[j] = j \/ (w.call[j] = Gap /\ ~w.inOrder)
GoodHandle(w) == w \in HandleState /\ InFlight(w) /\ Buffered(w) /\ Called(w)

WriteInv ==
  /\ handle = [h \in Handles |-> handle[h]] /\ answers \in Nat
  /\ \A h \in Handles : GoodHandle(handle[h])

Waits(h) == handle[h].at = "serving"
OneWaits == ~overlapped => \A h, k \in Handles : Waits(h) /\ Waits(k) => h = k
NewerWaits == \A h \in Handles : Waits(h) =>
  /\ handle[h].answer <= answers
  /\ handle[h].answer # 0 /\ ~overlapped => handle[h].answer > lastAnswer
CacheIsLast ==
  /\ writeCache \in Nat /\ answers \in Nat /\ lastAnswer \in Nat
  /\ lastAnswer <= answers
  /\ ~overlapped => writeCache = lastAnswer
  /\ lastAnswer # 0 => writeCache # 0
ReadInv == OneWaits /\ NewerWaits /\ CacheIsLast /\ ReadsLastAnswer

\* The last one needs no more than its types.
Item == [entry : Entries, isDir : BOOLEAN]
ListInv ==
  /\ directory \in [handler : BOOLEAN, entries : Seq(Entries)]
  /\ lister \in [at : {"closed", "open", "end", "failed"}, items : Seq(Item), listed : Seq(Item),
                 told : BOOLEAN]
  /\ lister.at \in {"closed", "failed"} => lister.listed = <<>> /\ ~lister.told
  /\ ListedOnce
=============================================================================
