----------------------------- MODULE ScpSession -----------------------------
(***************************************************************************)
(* One SCP session of internal/sshfs/server.go: handleSCP, receiveSCP and  *)
(* sendSCP on the server's side, and a client (external) that stores a     *)
(* file ("put") or fetches one ("get").  Both sides write bytes into a     *)
(* queue and block where they read.                                        *)
(*                                                                         *)
(* A byte is a token.  A record is its letter, "text" for the rest of the  *)
(* line, and the newline; sizes are parsed from the text and are right.  A *)
(* "C" record that does not parse is answered like a "T" record.  A file   *)
(* may hold any bytes, also those that records and answers are made of.    *)
(***************************************************************************)
EXTENDS Naturals, Sequences, SequencesExt

CONSTANTS Files,        \* the contents of files, sequences of tokens
          LeadingByte,  \* the client sends an OK byte before every record
          MaxRecords    \* bound on the records before a file's

Bytes == {"0", "1", "2", "C", "D", "E", "T", "text", "newline", "x"}
ASSUME FilesAssumption == Files # {} /\ \A f \in Files : f \in Seq(Bytes)
ASSUME LeadingByteAssumption == LeadingByte \in BOOLEAN
ASSUME MaxRecordsAssumption == MaxRecords \in Nat

VARIABLES job,        \* "put" or "get"
          file,       \* what the client stores, or what the read handler has
          server,     \* the next step of the session's handler
          fatal,      \* the warning being read ends the session
          toServer, toClient,  \* the bytes under way
          client,     \* the next step of the client
          records,    \* the records and warnings sent before the file's
          acked,      \* the client was told that its file is stored
          received,   \* the files the client fetched
          quit,       \* the client gave up
          stored      \* the files the write handler was called with

svars == <<job, file, server, fatal, toServer, toClient, client, records,
           acked, received, quit, stored>>
clientVars == <<client, records, acked, received, quit>>

OK == <<"0">>
Error == <<"1", "text", "newline", "2">>
Record(letter) == <<letter, "text", "newline">>

Init ==
  /\ job \in {"put", "get"} /\ file \in Files
  /\ server = "start" /\ fatal = FALSE
  /\ toServer = <<>> /\ toClient = <<>>
  /\ client = "hello" /\ records = 0
  /\ acked = FALSE /\ received = <<>> /\ quit = FALSE /\ stored = <<>>

----------------------------------------------------------------------------
(* Reading *)

HasLine(q) == "newline" \in ToSet(q)
LineEnd(q) == CHOOSE i \in DOMAIN q :
  q[i] = "newline" /\ \A j \in 1 .. i - 1 : q[j] # "newline"

AfterFirst(q, n) == SubSeq(q, n + 1, Len(q))
TakeByte == toServer' = Tail(toServer)
TakeLine == toServer' = AfterFirst(toServer, LineEnd(toServer))

\* What the handler reads next has arrived.
CanRead ==
  CASE server \in {"first", "trail", "metaack", "lastack"} -> toServer # <<>>
    [] server \in {"warning", "record"} -> HasLine(toServer)
    [] server = "data" -> Len(toServer) >= Len(file)
    [] OTHER -> FALSE

Reading == server \in {"first", "warning", "record", "data", "trail", "metaack",
                       "lastack"}

Send(bytes) == toClient' = toClient \o bytes
GoTo(label) == server' = label

----------------------------------------------------------------------------
(* The server *)

\* handleSCP: the first OK, whoever of the two is to speak first, or an error
\* if the command names no path.
Handler == IF job = "put" THEN "first" ELSE "serve"

Start ==
  /\ server = "start"
  /\ \/ Send(OK) /\ GoTo(Handler)
     \/ Send(Error) /\ GoTo("done")
  /\ UNCHANGED <<job, file, fatal, toServer, stored, clientVars>>

\* receiveSCP reads a byte that says whether a record or a warning follows.
ReadFirst ==
  /\ server = "first" /\ CanRead
  /\ TakeByte
  /\ fatal' = (Head(toServer) = "2")
  /\ GoTo(IF Head(toServer) = "0" THEN "record" ELSE "warning")
  /\ UNCHANGED <<job, file, toClient, stored, clientVars>>

ReadWarning ==
  /\ server = "warning" /\ CanRead
  /\ TakeLine
  /\ GoTo(IF fatal THEN "done" ELSE "first")
  /\ UNCHANGED <<job, file, fatal, toClient, stored, clientVars>>

\* What a record is answered with.  Only one file is received.
AnswerUnlessDir(letter) == IF letter = "C" THEN OK ELSE <<>>
AnswerTwice(letter) == IF letter = "C" THEN OK \o OK ELSE OK
Answer(letter) ==
  CASE letter = "newline" -> <<>>
    [] letter \in {"C", "D", "E"} -> OK
    [] OTHER -> Error
AfterRecord(letter) ==
  CASE letter \in {"newline", "D"} -> "first"
    [] letter = "C" -> "data"
    [] OTHER -> "done"

ReadRecord ==
  /\ server = "record" /\ CanRead
  /\ TakeLine
  /\ Send(Answer(Head(toServer)))
  /\ GoTo(AfterRecord(Head(toServer)))
  /\ UNCHANGED <<job, file, fatal, stored, clientVars>>

\* The declared number of bytes goes to the write handler, whose error is not
\* told to the client.
DataSizeOneMore == IF Len(toServer) > Len(file) THEN Len(file) + 1 ELSE Len(file)
DataSize == Len(file)

ReadData ==
  /\ server = "data" /\ CanRead
  /\ stored' = Append(stored, SubSeq(toServer, 1, DataSize))
  /\ toServer' = AfterFirst(toServer, DataSize)
  /\ GoTo("trail")
  /\ UNCHANGED <<job, file, fatal, toClient, clientVars>>

\* The byte after the data, whatever it is, and the last OK.
TrailSkipped == UNCHANGED toServer
Trail == TakeByte

ReadTrail ==
  /\ server = "trail" /\ CanRead
  /\ Trail
  /\ Send(OK)
  /\ GoTo("done")
  /\ UNCHANGED <<job, file, fatal, stored, clientVars>>

\* sendSCP: the record of the file, or an error if there is no handler or it
\* fails.
SendRecord ==
  /\ server = "serve"
  /\ \/ Send(Record("C")) /\ GoTo("metaack")
     \/ Send(Error) /\ GoTo("done")
  /\ UNCHANGED <<job, file, fatal, toServer, stored, clientVars>>

SentWithStatus == OK \o file
Sent == file

ReadMetaAck ==
  /\ server = "metaack" /\ CanRead
  /\ TakeByte
  /\ IF Head(toServer) = "0" THEN Send(Sent) /\ GoTo("lastack")
                             ELSE GoTo("done") /\ UNCHANGED toClient
  /\ UNCHANGED <<job, file, fatal, stored, clientVars>>

ReadLastAck ==
  /\ server = "lastack" /\ CanRead
  /\ TakeByte
  /\ GoTo("done")
  /\ UNCHANGED <<job, file, fatal, toClient, stored, clientVars>>

\* The client has closed the session and what is read does not come any more.
ReadFails ==
  /\ Reading /\ ~CanRead /\ client = "closed"
  /\ GoTo("done")
  /\ UNCHANGED <<job, file, fatal, toServer, toClient, stored, clientVars>>

ServerStep ==
  \/ Start \/ ReadFirst \/ ReadWarning \/ ReadRecord \/ ReadData \/ ReadTrail
  \/ SendRecord \/ ReadMetaAck \/ ReadLastAck \/ ReadFails

----------------------------------------------------------------------------
(* The client *)

ServerSide == <<job, file, server, fatal, stored>>
Say(bytes) == toServer' = toServer \o bytes
Prefixed(bytes) == IF LeadingByte THEN OK \o bytes ELSE bytes
Hears(byte) == toClient # <<>> /\ Head(toClient) = byte
Hear == toClient' = Tail(toClient)

\* Every session starts with an OK of the server.
Greeted ==
  /\ client = "hello" /\ Hears("0")
  /\ Hear
  /\ client' = IF job = "put" THEN "send" ELSE "record"
  /\ UNCHANGED <<ServerSide, toServer, records, acked, received, quit>>

\* A warning about a file that cannot be read locally is not answered.
SendWarning ==
  /\ client = "send" /\ records < MaxRecords
  /\ Say(<<"1", "text", "newline">>)
  /\ records' = records + 1
  /\ UNCHANGED <<ServerSide, toClient, client, acked, received, quit>>

\* The records of a directory, its end, or times are.
SendOther ==
  /\ client = "send" /\ records < MaxRecords
  /\ \E letter \in {"D", "E", "T"} : Say(Prefixed(Record(letter)))
  /\ records' = records + 1
  /\ client' = "otherack"
  /\ UNCHANGED <<ServerSide, toClient, acked, received, quit>>

SendMeta ==
  /\ client = "send"
  /\ Say(Prefixed(Record("C")))
  /\ client' = "metaack"
  /\ UNCHANGED <<ServerSide, toClient, records, acked, received, quit>>

OtherAcked ==
  /\ client = "otherack" /\ Hears("0")
  /\ Hear
  /\ client' = "send"
  /\ UNCHANGED <<ServerSide, toServer, records, acked, received, quit>>

\* The data, and an OK byte that says it was all there was.
SendData ==
  /\ client = "metaack" /\ Hears("0")
  /\ Hear
  /\ Say(file \o OK)
  /\ client' = "dataack"
  /\ UNCHANGED <<ServerSide, records, acked, received, quit>>

DataAcked ==
  /\ client = "dataack" /\ Hears("0")
  /\ Hear
  /\ acked' = TRUE
  /\ client' = "closed"
  /\ UNCHANGED <<ServerSide, toServer, records, received, quit>>

\* A fetching client answers the record and the data.
HearRecord ==
  /\ client = "record" /\ Hears("C") /\ HasLine(toClient)
  /\ toClient' = AfterFirst(toClient, LineEnd(toClient))
  /\ Say(OK)
  /\ client' = "data"
  /\ UNCHANGED <<ServerSide, records, acked, received, quit>>

HearData ==
  /\ client = "data" /\ Len(toClient) >= Len(file)
  /\ received' = Append(received, SubSeq(toClient, 1, Len(file)))
  /\ toClient' = AfterFirst(toClient, Len(file))
  /\ Say(OK)
  /\ client' = "closed"
  /\ UNCHANGED <<ServerSide, records, acked, quit>>

\* An error instead of an answer, or the end of the session, ends the client.
Awaiting == client \in {"hello", "otherack", "metaack", "dataack", "record", "data"}
ClientFails ==
  /\ \/ Awaiting /\ client # "data" /\ Hears("1")
     \/ Awaiting /\ server = "done" /\ toClient = <<>>
     \/ client = "send" /\ server = "done"
  /\ client' = "closed"
  /\ UNCHANGED <<ServerSide, toServer, toClient, records, acked, received, quit>>

\* The user stops the client.
Quit ==
  /\ client # "closed"
  /\ client' = "closed" /\ quit' = TRUE
  /\ UNCHANGED <<ServerSide, toServer, toClient, records, acked, received>>

ClientStep ==
  \/ Greeted \/ SendWarning \/ SendOther \/ SendMeta \/ OtherAcked \/ SendData
  \/ DataAcked \/ HearRecord \/ HearData \/ ClientFails

Next == ServerStep \/ ClientStep \/ Quit

Spec == Init /\ [][Next]_svars

\* Both sides go on when they can; nobody has to give up.
FairSpec == Spec /\ WF_svars(ServerStep) /\ WF_svars(ClientStep)

----------------------------------------------------------------------------
(* Properties *)

\* The server never waits for a byte of a client that waits for one of the
\* server's.
ServerWaits == Reading /\ ~CanRead
CanHear ==
  CASE client = "record" -> Hears("1") \/ (Hears("C") /\ HasLine(toClient))
    [] client = "data" -> Len(toClient) >= Len(file)
    [] OTHER -> Hears("0") \/ Hears("1")
ClientWaits == Awaiting /\ ~CanHear
NoMutualWait == ~(ServerWaits /\ ClientWaits)

\* The write handler is called with what the client sent: records, warnings and
\* answers before it, or bytes in the file that look like them, do not shift the
\* frame.
StoredIsSent == \A i \in DOMAIN stored : stored[i] = file

\* A client that was told its file is stored has had the handler called.
AckedIsServed == acked => stored = <<file>>

\* A fetched file is the one the read handler answered.
ReceivedIsRead == \A i \in DOMAIN received : received[i] = file

\* A transfer that went well leaves no byte unread on either side.
NothingLeft ==
  server = "done" /\ (acked \/ received # <<>>) /\ ~quit =>
    toServer = <<>> /\ toClient = <<>>

\* Every session ends, with or without an error.
SessionEnds == <>(server = "done" /\ client = "closed")

\* "sender: C..., receiver: ACK, sender: <file data>, receiver: ACK"
\* (server.go:154): a client that does just this is served, and not kept
\* waiting.
DocumentedClientIsServed == NoMutualWait

\* What makes them inductive.  Before the data, what a storing client says is
\* lines whose bytes follow one another as they should and whose last one, at
\* most, is a record, since the client waits for its answer; the server is at
\* the byte that its step expects.
Letters == {"C", "D", "E", "T"}
Starts == IF LeadingByte THEN {"0", "1"} ELSE {"1"} \cup Letters
Follows(byte) ==
  CASE byte = "0" -> Letters
    [] byte \in {"1"} \cup Letters -> {"text"}
    [] byte = "text" -> {"newline"}
    [] byte = "newline" -> Starts
    [] OTHER -> {}
Framed(q) == \A i \in 1 .. Len(q) :
  IF i = Len(q) THEN q[i] = "newline" ELSE q[i + 1] \in Follows(q[i])
Asks(q, letters) == \A i \in 1 .. Len(q) :
  q[i] \in Letters => i = Len(q) - 2 /\ q[i] \in letters
Comes(q) == LeadingByte => \E i \in 1 .. Len(q) : q[i] \in Letters

AtByte == toServer # <<>> => Head(toServer) \in
  CASE server = "first" -> Starts
    [] server = "warning" -> {"text"}
    [] server = "record" -> Letters
    [] OTHER -> {}

PutLines ==
  /\ server \in {"first", "warning", "record"} /\ stored = <<>>
  /\ Framed(toServer) /\ AtByte /\ (toServer = <<>> => server = "first")
  /\ Asks(toServer, Letters)
  /\ \/ client = "hello" /\ toServer = <<>> /\ toClient = OK
     \/ client = "send" /\ Asks(toServer, {}) /\ toClient = <<>>
     \/ /\ client = "otherack"
        /\ \/ toServer = <<>> /\ toClient = OK
           \/ Comes(toServer) /\ Asks(toServer, {"D", "E", "T"}) /\ toClient = <<>>
     \/ /\ client = "metaack"
        /\ Comes(toServer) /\ Asks(toServer, {"C"}) /\ toClient = <<>>
     \/ client = "closed"
PutData ==
  /\ server = "data" /\ stored = <<>>
  /\ \/ client = "metaack" /\ toServer = <<>> /\ toClient = OK
     \/ client = "dataack" /\ toServer = file \o OK /\ toClient = <<>>
     \/ client = "closed" /\ toServer \in {<<>>, file \o OK}
PutTrail ==
  /\ server = "trail" /\ stored = <<file>>
  /\ \/ client = "metaack" /\ toServer = <<>> /\ toClient = OK /\ file = <<>>
     \/ client = "dataack" /\ toServer = OK /\ toClient = <<>>
     \/ client = "closed" /\ toServer \in {<<>>, OK}
PutFails ==
  /\ server = "done" /\ stored \in {<<>>, <<file>>}
  /\ \/ client = "hello" /\ toClient = Error
     \/ client = "otherack" /\ toClient \in {<<>>, OK, Error}
     \/ client \in {"send", "metaack"} /\ toClient = <<>>
     \/ client = "closed"
PutDone ==
  /\ server = "done" /\ stored = <<file>> /\ toServer = <<>>
  /\ \/ client = "dataack" /\ toClient = OK /\ ~acked
     \/ client = "closed" /\ toClient = <<>>
NotBegun ==
  /\ server = "start" /\ client \in {"hello", "closed"} /\ stored = <<>>
  /\ received = <<>> /\ toServer = <<>> /\ toClient = <<>> /\ ~acked
PutInv ==
  /\ received = <<>>
  /\ \/ ~acked /\ (PutLines \/ PutData \/ PutTrail \/ PutFails)
     \/ PutDone

\* Of a fetching client: what has come of the record and of the file, and what
\* they were answered with.
GetOpening ==
  /\ received = <<>> /\ toServer = <<>>
  /\ LET greeting == IF client = "hello" THEN OK ELSE <<>> IN
     \/ server = "serve" /\ toClient = greeting
     \/ server = "metaack" /\ toClient = greeting \o Record("C")
     \/ server = "done" /\ toClient \in {Error, greeting \o Error}
GetData ==
  /\ received = <<>>
  /\ \/ server = "metaack" /\ toServer = OK /\ toClient = <<>>
     \/ server = "lastack" /\ toServer = <<>> /\ toClient = file
GetDone ==
  /\ received = <<file>> /\ toClient = <<>>
  /\ \/ server = "metaack" /\ toServer = OK \o OK /\ file = <<>>
     \/ server = "lastack" /\ toServer = OK
     \/ server = "done" /\ toServer = <<>>
GetInv ==
  /\ ~acked /\ stored = <<>> /\ server \in {"serve", "metaack", "lastack", "done"}
  /\ \/ client \in {"hello", "record"} /\ GetOpening
     \/ client = "data" /\ GetData
     \/ client = "closed" /\ (received = <<>> \/ GetDone)

ScpTyped ==
  /\ job \in {"put", "get"} /\ file \in Files
  /\ toServer \in Seq(Bytes) /\ toClient \in Seq(Bytes)
  /\ fatal = FALSE /\ acked \in BOOLEAN
ScpInv == ScpTyped /\ (NotBegun \/ (job = "put" /\ PutInv) \/ (job = "get" /\ GetInv))
=============================================================================
