# nklhd in TLA+

nklhd lets a script (Lua or Tengo) be a file system: the script registers a
handler per operation and path pattern, and the process serves those paths over
FUSE, 9p and SSH (SFTP and SCP). This directory models the parts of it where a
wrong answer depends on an order of steps, on a long sequence of calls, or on
two structures that have to agree. TLC checks the models on small instances;
the TLA+ proof system proves invariants of ten of them for every size.

## The system

Every request takes the same way: a protocol server finds a node for the path,
hands an operation and the path to `router.Serve`, the radix tree picks a
handler and its parameters, and the handler runs script code and answers a
text. What the servers keep of that answer is their state.

| Component | State | Operations | Talks to |
|---|---|---|---|
| Radix tree (`router/radix.go`, `router.go`) | one tree of static, expression, parameter and catch-all nodes with an endpoint per operation | `Register`, `Find`, `Serve`, `routes` | called by everything; calls handlers |
| Route tree (`router/tree.go`) | directories by component, built from `routes` | `BuildTree`, `FindNode`, `ComponentMatches` | built at mount, walked by the servers |
| Route registry (`script/registry.go`) | the router and a map of handlers | `Register` (converts globs), `FindHandler` | called while the script loads |
| FUSE file node (`fuse/server.go`) | `cachedData`, `cachedSize`, `cachedErr`, `mu` | `Attr`, `Read`, `Write`, `Setattr`, `fetchData` | one goroutine per kernel request; router |
| FUSE directory node (`fuse/server.go`) | tree node, captured parameters, cached listing | `Lookup`, `ReadDirAll`, `Open`, `Create`, `Remove` | route tree; `readdir`, `create`, `unlink` handlers |
| FUSE server (`fuse/server.go`) | mount point, connection, context, `serveDone` | `Mount`, `Unmount`, `Wait`, `serve` | kernel session, `fusermount` |
| 9p server (`ninep/server.go`) | listener, static tree, `nodeMap`, a cache per file | `Serve`, `Stop`, `walkFail`, `Children`, `createFile`, `removeFile`, `Read`, `Write` | one goroutine per connection; router |
| SSH server (`sshfs/server.go`) | listener, SSH server, `writeCache`, a buffer per open file | `Serve`, `Stop`, SFTP requests, SCP sessions | SFTP library, clients, router |
| Lua backend (`lua/`) | interpreter states shared by all handlers | `LoadScript`, `RouteHandler.Serve`, `Close` | called by any server's goroutine |
| Tengo backend (`tengo/`) | bytecode, constants and copied globals per handler | `LoadScript`, `RouteHandler.Serve` | a virtual machine per request |
| Process (`cmd/nklhd/main.go`) | configuration, protocols, servers | start, signal, shutdown, unmount mode | all servers, the backend |
| Configuration (`config/`) | flags, environment, files | `LoadConfig`, `ResolveRootScript`, … | read once at start |
| Exports (`exports/`, module adapters) | host files, HTTP clients, OAuth tokens | file, HTTP, OAuth, JSON, YAML, jq functions | called by scripts |

What is hard in it:

* **File nodes** are used by many goroutines, and one of their critical sections
  calls the script. `Write` calls the script outside the lock, `Attr` lets the
  lock go between fetching and reading the size. Correct means: no read goes
  back behind a write that completed, no error hides content, sizes are sizes of
  contents, every request ends.
* **The radix tree** backtracks, with a stack of captured values that it takes
  back by hand, over nodes that earlier insertions split and sorted. Correct
  means: what is found fits the path, what fits is found, and the order of
  registration makes no difference but where two tails or expressions fit one
  path.
* **The route tree** and the radix tree are two readings of one set of routes.
  The walk picks a child per component and never goes back; the radix tree
  matches characters and does. Correct means: what the walk shows is served, by
  the handler and with the parameters it showed.
* **Shutdown** involves main, the serve goroutine, two `Serve` goroutines, the
  kernel, clients and signals, with five ways to unmount that may all fail.
  Correct means: nobody uses the script after it is closed, no mount is left
  behind, and the process ends.
* **Directory nodes** fill a list of names with the lock held and keep it, or the
  error, for as long as the kernel keeps the node, whatever the script lists
  later. Correct means: one answer per node and name, and a reason in the script
  for each.
* **9p and SFTP files** cache responses of the write handler; 9p creates and
  removes change the script and the directory in two steps; the SFTP library
  writes chunks concurrently and out of order, and an SCP session waits for
  its peer at every step. Correct means: reads see the last answer, the
  directory has the script's files, handlers get whole files, sessions end.
* **The Lua backend** shares one interpreter between all goroutines; Tengo gives
  every request one of its own and lets them share what globals refer to.
  Correct means: a request gets the answer of its own handler call.
* **The fs module** of the scripts works on the host's files with many system
  calls per function, while other handlers do the same. Correct means: a copy
  keeps what it was not told to replace, and copies all the rest.

PROJECT.json lists the hazards with their lines and the properties that cover
them, and the status of each component.

## The modules

| Module | Models | State and actions |
|---|---|---|
| `MountedFile` | the promise to readers of a mounted file | versions a node has established, calls open or answered |
| `FuseNode` | file nodes of `fuse/server.go` | `data`, `size`, `err`, `lock` are the node's fields and its RWMutex; a goroutine's `pc` stands between two lock sections or handler calls; one action per section |
| `FuseNodeProofs` | | the proofs about `FuseNode` |
| `RadixTree` | `router/radix.go`, `router.go` | the heap the code builds: `tree` maps a node's name to its prefix, endpoints and groups of children, which are names too; `InsertRoute` and `FindRoute` follow the code's loops, `Register` is the action |
| `RouteTree` | `router/tree.go`, `findChild`, `Lookup`, `Create`, the registry | EXTENDS `RadixTree`: routes are registered, listed at `Mount`, and `at` walks the directories |
| `RouteTreeProofs` | | the proofs about `RadixTree` and `RouteTree` |
| `RouteTreeTerms` | | the terms those proofs speak in: places in patterns, ways in the tree, how a path reads along them; it models no code |
| `Lifecycle` | `main.go`, FUSE `Mount`/`Unmount`/`Wait`, 9p and SSH `Serve`/`Stop` | `main` is the next step of main; `serve`, `session`, `pc`, `socket`, `field`, `conns`, `calls` are the other parties |
| `LifecycleProofs` | | the proofs about `Lifecycle` |
| `FuseDir` | directory nodes of `fuse/server.go`: `Lookup`, `getListEntries`, `ReadDirAll`, `Create`, `Remove` | `cachedList`, `mu` are the node's; `listed`, `failing` what the readdir handler does; one action per lock section or handler call of a lookup |
| `FuseDirProofs` | | the proofs about `FuseDir` |
| `NinepDir` | `routerDir`, `routerFile`, `walkFail`, `createFile`, `removeFile` of `ninep/server.go` | `children` is the directory, `node` the files, created ones and those a walk made; `known` is what the script has; create, remove and write are two actions each, the handler call and the change |
| `NinepDirProofs` | | the proofs about `NinepDir` |
| `SftpFile` | the SFTP requests of `sshfs/server.go` | `writeCache` is `routerFS`'s, `handle` the open `writeBuffer`s with the chunks under way, `lister` a client's progress through `ListAt` |
| `ScpSession` | `handleSCP`, `receiveSCP`, `sendSCP` of `sshfs/server.go` | `server` and `client` are the next steps of the two sides, `toServer` and `toClient` the bytes between them; one action per read that blocks, with what follows it up to the next |
| `SshfsProofs` | | the proofs about `SftpFile` and `ScpSession` |
| `Backends` | executors and `RouteHandler.Serve` of `lua/` and `tengo/`, `FindHandler` | a script is a sequence of statements, run by `Assign`, `Route`, `LoadFails`; a call is entered, runs, leaves and is answered, on the Lua `stack` or in a `frame` of its own |
| `BackendsProofs` | | the proofs about `Backends` |
| `HostFs` | `exports/fs/fs.go` and the functions of the two fs modules that change the tree or the contents of files | `disk` is the host's file system, `run` a handler's call with the tasks that its recursion, or its walk, has left; one action per system call, or per few (see below) |
| `HostFsProofs` | | the proofs about `HostFs` |
| `MCFuseNode`, `MCFuseDir`, `MCRadixTree`, `MCRouteTree`, `MCNinepDir`, `MCSftpFile`, `MCScpSession`, `MCBackends`, `MCHostFs` | | constants of the small instances |

Data is abstracted to what the code tells apart. A file's content is a version
(one per run of the write handler) and a length, since the code only compares
with `""` and takes lengths. A pattern is a sequence of tokens: a character, a
parameter, an expression or the catch-all; a path is a sequence of characters. A
node's prefix is a sequence of edges, one per token: what the code keeps in `typ`,
`label`, `prefix`, `tail` and `rex` is in the first of them. A node is named by the
registration that made it and by where in its pattern it ends, so that the heap
needs no other addresses.
Expressions are sets of texts (`Language`). Patterns are well formed, so the
panics on malformed ones are left out. An SCP record is its letter, one token
for the text of the line, and the newline; a file is made of the bytes that records,
warnings and answers are made of.

A definition that stands beside a modelled one with a name of its own
(`LockSkipped` beside `Lock`, `PopForgotten` beside `Pop`) is a fault somebody
could make in that piece of code; it is used in no action. Each property has
one that breaks it, listed under "mutants".

`FuseDir` leaves the tree to `RouteTree`: which names it has is a constant. What a
script answers is chosen anew at each call, or, in `NinepDir` and `SftpFile`, is a
number. In `HostFs` a call that changes the disk twice, or looks and then changes
it, does so in steps of their own: the look at a destination, each of the two
times that are compared, the opening of both files and the copying of the bytes;
each entry that is listed, copied or counted; the truncation by a write and its
bytes. `os.MkdirAll` and `os.RemoveAll` are one step each, of which the second may
stop half-way. A path is a sequence of names, a content a sequence of tokens
and a modification time the number of the call that wrote it; relative link
targets are paths from the root, as for a process that works there.

History variables, on which no step depends: `floor` and `since` of `FuseNode` (what a
node had established, for the properties and the refinement), `stopped` and `late`
of `Lifecycle`, `told`, `wasListed`, `wasMissing`, `everFailed` and `entries` of
`FuseDir`, `refused`, `raced`, `found` and a node's `last` and `overlapped` in
`NinepDir`, `lastAnswer`, `overlapped` and `found` of `SftpFile`, and a call's `found`
and `rivals` in `HostFs`.

## The runs

**file** (`MCFuseNode`, two goroutines, one node, read, write, stat and truncate,
up to two runs of the write handler; every choice of handlers present;
fairness). Two goroutines are the least that overlap, each makes any number of
requests, and two lengths tell `""` from a text. Overlaps of more goroutines, and
longer histories, are covered by the proofs. It checks:

* `FreshReads`: a read never goes behind what was established when it began;
* `ErrorWithoutContent`: a cached error hides no content;
* `FillsOnlyEmpty`: of goroutines that found the cache empty one calls the
  script;
* `ImplementsMountedFile`: refinement of `MountedFile`;
* `EveryRequestReturns`, although `fetchData` holds the lock over a handler call.

**routes** (`MCRadixTree`, 15 patterns, two operations, up to three
registrations, the 85 paths of up to four characters). Three routes are enough
for a node to be split twice, for a group to hold two nodes besides a static
sibling, and for a dead end with a route for the other operation. It checks
that no route is lost (`ListsEveryRoute`), that what is found fits (`FoundFits`)
against a definition of matching that knows no tree (`Matches`), that what
matches is found (`FindsARoute`), that literals win (`LiteralFirst`), and that the
order of registration is irrelevant (`OrderIrrelevant`) unless it decides
(`OrderDecides`), which it does among expressions of one tail, and among
parameters at one place with different tails that are both not "/". The patterns
have both: `/{x}-b` and `/{y}b` serve `/a-b` by whichever came first.
The two operations are symmetric, since the router only compares them.

**walk** (`MCRouteTree`, eight script patterns with literals, parameters, a
catch-all and globs, three operations, up to three registrations, walks of two
names). Two names are as deep as the patterns. It checks that what the walk
reaches is served (`WalkedIsServed`, `RoutedNameByName`), by the handler
the walk found (`ServedByItsNode`), with the parameters of its route
(`ServedItsParams`), that a walk on the way of a route is not refused its next
name (`NextNameIsFound`), and that the SFTP server's `FindNode` agrees
(`FindNodeAgrees`). The conditions in these properties are where the two
structures really differ: expressions restrict what the radix tree takes and
not what the walk takes, "{x}-{y}" is one parameter to the walk and two to the
radix tree (both are what `WholeParams` asks of a route: its parameters are
components, and without expressions), a parameter inside a component ("a{x}") is
plain text to the walk, and among two parameters of one directory the walk picks
either.

**dir** (`MCFuseDir`, two goroutines, one directory node, three names: one in the
tree, one that is a pattern there, one only listed; fairness). Two goroutines
are the least that fill a list at once, and the script lists any names and
fails at any step. It checks: lookups of one name have one answer for the
node's life (`LookupsAgree`), each answer has a reason in the tree or the script
(`AnswersAreFounded`), a listing and a node whose list is current agree
(`ListedIsFound`), and lookups return (`EveryLookupReturns`).

**shutdown** (`Lifecycle`, every choice of protocols, two calls in flight per
protocol, fairness). Two calls are enough for one to return while another has
not. Any of the five unmount attempts may fail, clients call and connect at any
time, somebody may unmount from outside, signals arrive at any step. It checks:
no FUSE request meets a closed script (`NoFuseCallOnClosedBackend`), main's end
leaves no mount (`NoMountLeft`), and that after the signal the process ends or
waits for somebody to unmount (`ShutdownCompletes`).

**stop**: a comment of the 9p server's `Stop` that does not hold.

**ninep** (`MCNinepDir`, two clients with one fid each, two names: one from the
static tree, one listed and with a read handler; handlers succeed or fail, and
answer something or nothing). Two clients are the least between whose handler
and directory steps the other's can come. It checks: what a node reads as is
the last answer to a write of it (`ReadsLastAnswer`), and the directory has the
script's files when nothing is under way (`AgreesWithScript`); names that are
created and removed at the same time are excepted, since the two handlers and
the two changes of the directory may come in different orders, and so are
names whose create handler failed, which stay in the directory.

**sftp** (`MCSftpFile`, two handles on one path, three chunks, at most two under
way in each, six answers; directories of up to five entries in pages of two).
Three chunks can come in an order that leaves a gap and closes it; five entries
fill two pages and a half, so that pages end with, before and after the list.
It checks: the buffer of a closed handle is the file, and the last call had all
of it if the chunks came in order (`WholeFileServed`), a path without read
handler reads as the last answer that was kept (`ReadsLastAnswer`), and a
listing that is not refused tells every entry once and ends (`ListedOnce`).

**scp** (`MCScpSession`, files of up to three bytes of six kinds, up to three
directory, time or other records and warnings before the file's, fairness). The
six are those of records, warnings and answers, and three bytes are enough for a
file that is a whole record, or a warning, and for an OK that is first, last and in
between; two records are the least after which a shifted answer meets another record. The
client sends an OK byte before each record, stores a file or fetches one, may
get errors, and may quit at any step. It checks: the write handler gets exactly
the file (`StoredIsSent`) and has been called when the client hears that it is
stored (`AckedIsServed`), a fetched file is the one the handler answered
(`ReceivedIsRead`), a good transfer leaves no byte unread (`NothingLeft`), and
every session ends (`SessionEnds`), which it could not if the two sides waited for
each other.

**scpwait** (the same, without the byte before the records): a client that does
what the comment of `handleSCP` describes.

**backends** (`MCBackends`, three requests, four scripts with handlers of every
kind of result and globals assigned before and after registration, both
languages). Three requests are enough for two to overlap and a third to find
what they left. It checks: a request is answered with the result of its own call
(`OwnAnswer`), what handlers keep between calls (`KeptBetweenCalls`), and that a
request's fields are what the documentation says whatever parameters a route has
(`FieldsAreDocumented`). In Lua the first two hold until two goroutines are in
the state at once; nothing in the code prevents that, and what follows is
`AnswerAny` and `Crash`.

**hostfs** (`MCHostFs`, one handler that makes any of some 350 calls and one that
makes one of fourteen, on three file systems of two names and three
levels, one of them with a link; 1.7 million states). Three levels are enough for a
copy to recurse and to meet what it has just made. The second handler's calls
are the ones that come between: they overwrite, move, remove, resize and link what
the first one copies or counts. It checks: a copy that may not replace files changes
none that it found (`KeepsWhatItFound`), an undisturbed recursive copy has made all
of its source at its destination and nothing else (`CopiesWhole`), and removals
are counted (`RemovedAreCounted`).

Deadlock is checked where the system goes on: in `FuseNode`. Registration ends
at `MaxRoutes`, a walk at `MaxDepth`, the process exits, an SCP session, an SFTP
job and a set of requests or calls end: those runs say CHECK_DEADLOCK FALSE
(`SessionEnds`, `ShutdownCompletes` and `EveryLookupReturns` say where waiting must
not happen).

Bounds: `MaxVer`, `Lengths` (`FuseNode`), `MaxRoutes` (`RadixTree`), `MaxDepth`
(`RouteTree`), `MaxCalls` (`Lifecycle`), `Files` and `MaxRecords`
(`ScpSession`), `FileLength`, `Window`, `MaxAnswers`, `MaxEntries` (`SftpFile`),
`MaxDepth` (`HostFs`, the longest path the system takes; `Real` follows three links,
where the three file systems of the run have one and copies of it), and the finite sets of
the others. `MaxVer` bounds the successful write
handler runs only: a failing one is always possible, so the bound never blocks a
goroutine.

### Fairness

`FuseNode`: strong fairness of each goroutine's steps. Handlers are assumed to
return (one that does not blocks its request by itself), and Go's
`sync.RWMutex` lets no waiter starve: a blocked `Lock` keeps new readers out,
and a waiting reader goes before the next writer. A step that needs the lock is
enabled again and again, not continuously, which is why weak fairness would not
express that. Arrivals of requests are not fair.

`FuseDir`: strong fairness of each goroutine's steps, for the same two reasons.

`Lifecycle`: weak fairness of main, of the serve goroutine's return, of returning
handlers and of the end of a detached session. The last is the kernel's: the
session ends when the last open file is closed, so files are assumed to be
closed at some time. Signals, unmounting from outside, accepting and calling are
not fair, and neither are unmount attempts bound to succeed.

`ScpSession`: weak fairness of each side. A side that can go on does: bytes that
were written arrive, and handlers return. Which record comes next is the
client's choice, and quitting is not fair, so `SessionEnds` does not rest on
somebody giving up.

## What is proved

For every value of the constants that the named assumptions of the modules
allow (every set of goroutines, nodes, names, lengths, clients, scripts and
requests, every `MaxVer`, every positive `MaxCalls`):

* `FuseNodeProofs!TypeCorrect`, `CacheCorrect`, `CacheIsFresh`, `ReadsAreFresh`,
  `FillsAreFirst`, `Refinement`, `ErrorsHideNothing`, `SizesAreOfContent`.

  `FreshCache` alone is not inductive. A fetch stores what its handler answered
  some steps ago; that it is not stale needs that no write completed since,
  which holds because a write needs the lock that the fetch holds (`LockInv`),
  and that what other goroutines established before is no newer
  (`StoreFresh`). Without a read handler, the responses of overlapping writes
  reach the cache in any order; `PendingFresh` says that what is still to come
  is no older than what is established. `CacheInv` is the conjunction. The
  refinement maps each action to an action of `MountedFile` or to a stutter, and
  uses `CacheInv` for the bounds on the version that is answered.

  `ErrorWithoutContent` needs, besides `CacheInv`, that only a read handler's
  failure is on its way to the cache (`FailSteps`); `SizeOfContent` that
  nobody is on the way to set a size alone (`SizeSteps`).

* `LifecycleProofs!TypeCorrect`, `ShutdownCorrect`, `BackendOutlivesFuse`,
  `LeavesNoMount`.

  `ShutdownInv` links main's step to the serve goroutine and to the session:
  main is past `Wait` only if the goroutine is done (`ClosedAtEnd`), the
  goroutine is done only if the session ended (`DoneMeansEnded`) and its calls
  returned (`Unserved`), and there is a session whenever main is past mounting
  with FUSE configured (`FuseIsMounted`). Each of the two properties is one
  step from there.

* `FuseDirProofs!DirCorrect`, `AnswersAgree`, `AnswersFounded`, `ListingsFound`.

  That lookups agree needs that a node's list is set once. `DirInv` says so in
  parts: the goroutine that asks the handler holds the node's lock (`Locked`)
  and finds no list (`ServesEmpty`), and what lookups were told is what the list
  says (`ToldByList`), so that no list means nothing told. The list is what the
  script listed at one time (`ListWas`), which founds the answers.

* `NinepDirProofs!AgreesCorrect`, `DirectoryAgrees`, `CachesCorrect`,
  `ReadsAreLastAnswers`.

  `AgreesWithScript` only speaks of times when nothing is under way. `AgreesInv`
  says what holds in between: a file the script knows is in the directory or its
  create is on its way there (`KnownIsThere`), one in the directory is known,
  refused or on its way out (`ThereIsKnown`), and no name is on both ways but the
  raced ones (`NotBoth`).

  That a read finds the last answer is about one node of the many a name may have
  had. `CacheInv` says that a node's cache is its last answer (`CachedIsLast`), and
  that the answer of a write still to be cached is the last there will be
  (`LastComes`), until two writes of the node overlap; a client's node is one that
  was made before (`HasNode`), so that what a create or a walk makes anew is
  nobody's yet.

* `SshfsProofs!GoodHandles`, `WholeFilesServed`, `CacheIsLastAnswer`,
  `ReadsAreLastAnswers`, for any file length, window and number of open writes;
  `ListingsCorrect`, `EntriesListedOnce`, for any directory and page size.

  `WholeFileServed` speaks of closed handles. `WriteInv` says of every handle what
  its buffer holds: the chunks that were sent and are not still to be served
  (`Written`), and zeros elsewhere (`Buffered`); and that a script that was given
  the chunks in order was given just those (`Called`). When a handle closes,
  nothing is in flight, so `Written` is the whole file. `ReadsLastAnswer` needs that
  the cache is the last answer (`CacheIsLast`) until answers overlap, which needs
  that at most one waits (`OneWaits`) and that it is newer (`NewerWaits`).

  `ListedOnce` needs no more than types (`ListInv`): a page continues the prefix
  that was listed (`PageListed`), and whichever of the three reasons `ListAt` has to
  tell the end, the prefix is then the list. That the list is one at all needs an
  induction over the lines of the handler's answer, since `NotBlank` drops the blank
  ones by recursion: the least number for which it goes wrong cannot exist
  (`AllNumbers`, `NotBlankLines`).

* `SshfsProofs!SessionCorrect`, `StoredFilesAreSent`, `AckedFilesAreServed`,
  `ReceivedFilesAreRead`, `NothingIsLeft`, for any files, any bytes in them and any
  number of records; `NeverBothWait`, for a client with the byte before records.

  Each property is about what two sides have read, and needs what is between them.
  `ScpInv` says it byte by byte. Before a file's data everything a client has said
  is made of lines whose bytes follow one another (`Framed`), the server stands at a
  byte its step expects (`AtByte`), and at most the last line is a record that the
  client waits to have answered (`Asks`). After that record, what is on its way is
  exactly the file and the byte behind it, or nothing (`PutData`, `PutTrail`), so
  that bytes of the file that look like records, warnings or answers are read as
  the file. A fetching
  session goes through three phases (`GetOpening`, `GetData`, `GetDone`).
  `NeverBothWait` is the safety part of `SessionEnds`: if the server has nothing it
  could read, the client has. It uses that a client which waits for the answer to a
  record has said that record (`Comes`); without the byte before it `receiveSCP`
  reads the record's letter as a warning, which is what **scpwait** shows.

* `BackendsProofs!AnswersCorrect`, `AnswersAreOwn`, `CountsCorrect`,
  `HandlersKeepCounts`, `RequestsAreDocumented`, for any scripts, requests and
  modules.

  In Tengo the result is in the array of its own call (`OwnFrame`). In Lua the
  results of all calls are on one stack, and `Serve` takes the top; that it is the
  call's own needs that at most one call is inside (`OneInside`), and that the
  stack is then empty, or holds what that call returned (`OwnStack`).

  What handlers keep (`KeptInv`): while the script loads its scalar is the last one
  assigned so far (`AssignedSoFar`), from then on a Tengo call's copy is of that
  value (`CopiesAreOfTheLoaded`); and as long as calls have not overlapped, one
  handler runs at a time (`OneEntered`), and what it has read counts all that ran
  before it (`Counted`). That the fields of a request are the documented ones holds
  in every state: it is a fact about the order in which `Serve` fills its map, and
  about the names of modules (`ModulesAssumption`).

* `HostFsProofs!CopiesKeepFiles`, `CountsAreRight`, for any handlers, calls, names
  and file systems, with links. It is assumed that the file systems handlers find
  are trees (`DisksAssumption`) and that no call names the root itself
  (`CallsAssumption`); a path is followed through three links, and one that has more
  ends at a link.

  `DiskInv` says that the disk is a tree, that a task in hand which holds a file open
  holds one of the disk, and that calls which run at the same time know of each
  other (`AreRivals`). That the disk stays a tree is a fact about the model of package
  `os`, a lemma per system call (`MadeDisk`, `OpenedDisk`, `NamedDisk`, `RemovedDisk`,
  `RenamedDisk`): a rename moves what is below its path as a whole (`MovedParent`) and
  onto nothing (`MovedApart`), a removal takes no directory from under its entries
  (`IsClosed`).

  `KeepsWhatItFound` is about two steps of `copyFile` between which other calls do
  what they like: it looks at the destination, and it opens it. `KeepInv` says that
  a file it is about to open is one the call has not found, and so is the one it
  fills. That others keep this true is what `Quiet` says of a system call: a path
  that leads to a file led to it before, or the file is new. All are quiet but
  rename and the two that make links, by themselves or as copies of links, and the
  property is about copies beside none of them. For removals this needs that a path
  whose link is gone leads nowhere at all (`RealAfterRemoval`).

  `RemovedAreCounted` needs `CountInv`. While a `remove_all` walks, its tasks come to
  parts of the tree that have nothing in common (`Span`), and what it has counted is
  what none of them comes to any more (`IsWalk`); a step of the walk replaces a part
  by the entry it counts and the parts below it (`Covers`, `WalkGoesOn`). When only
  the removal is left everything is counted, and the disk is still as it was found,
  because a call that could change it would be a rival.

* `RouteTreeProofs`, of the radix tree, for any patterns, paths and operations and
  any number of registrations: `TreeOfPatterns`, `RoutesAreListed`, `FoundRouteFits`,
  `LiteralWins`, `NoRouteIsHidden`.

  `RadixInv` says what a heap of nodes that were split and sorted has to do with the
  patterns that were registered. Every node but the top is the kid of one other, by
  the type of its first edge (`IsHeap`, `KidsFit`, `Connected`); its way from the top
  is the way of a pattern up to where the node ends (`Placed`); the kids of a node
  differ in their first edge, and in their first character if they are static
  (`SiblingsDiffer`). Every registration has a node that ends where its pattern does
  (`HasEnds`), whose endpoint is of the last registration of that shape (`LastWins`).
  `InsertRoute` preserves it case by case: where the loop stops (`Descend`), the
  chain that is added, the child that is split. That no route is lost follows.

  What `FindRoute` finds is a statement about a search. That the recursive functions
  are functions at all is proved by induction over the size of a call, the rest of
  the path and the depth below a node (`RecursionExists`, `FindIs`). By the same
  induction: what a call finds reads the path along one way in the tree (`Reads`),
  with the values that the pattern's wild tokens stand for, and what it takes back
  when it finds nothing is what it pushed; from which `FoundRouteFits`. In the other
  direction, a path cut as a pattern stands for it (`Cuts`) leads the search from
  node to node, or to another hit before. A literal path's own nodes are met first
  (`LiteralWins`). `NoRouteIsHidden` has a hypothesis the code states as a fact,
  "its not possible to have adjacent param nodes" (`radix.go:342`): in every pattern a
  parameter that is not last has a plain character behind it (`CharacterFollows`).
  Where it
  has not, routes are hidden: `/{x}*` is found with an empty `x` only, and beside
  `/{y}/b` not at all.

* `RouteTreeProofs`, of the route tree: `RegistryRegisters`, `WalksAreWalks`,
  `FindNodeIsTheWalk`, `WayStaysOpen`, `TakenRoutesAreServed`, `WalkedRoutesAreServed`,
  `ServedByHandlers`.

  Every behaviour of the route tree is one of the radix tree (`RegistryRegisters`), so
  that `RadixInv` holds of it. `WalkInv` says that what is mounted is what is
  registered, and that the walk is at a node whose every component was chosen by
  `findChild`. The two structures meet at the slashes: a pattern and the path of a walk
  are cut into components at the same slashes (`ComponentCut`), so that a name that
  fits a component is the value of its parameter, which the radix tree takes up to
  its tail, the next slash. The cut is then one along which the search finds a route.

  Which route it finds is a question of preference (`ServedByHandlers`). The walk's names cut the
  path at its own route's components. A route the search would rather find shares
  that route's nodes up to some component, and so, where a directory has one parameter
  at most, the same directories of the route tree (`SameBefore`). There it would go on to a
  child of an earlier kind, a literal before a parameter and both before a star, which
  `findChild` prefers as well, and the walk would have taken it (`PrefersParts`,
  `WalkPassed`). So no other route is found first (`Preferred`, `FindsOwn`). With two
  parameters in a directory the trees may disagree, and the property
  excludes it.

  The assumptions are on what scripts write and clients ask for: a pattern begins
  with a slash and only ends with a star, and braces make a token of its own
  (`PatternsAssumption`, `TokensAssumption`: the code panics otherwise), a requested
  path has characters only (`PathsAssumption`), a name is not empty and has no slash
  (`NamesAssumption`: the kernel and the protocols see to that), globs are converted to
  expressions (`GlobsAssumption`), and converted patterns have no empty component,
  and stars that are components (`ScriptsAssumption`; `splitPath` drops empty
  components, which are then not what the radix tree matches).

Theorems about properties that no run lists (`CacheIsFresh`, `SizesAreOfContent`
and the inductive invariants) state facts the others rest on, or facts about the
code that hold beside them.

Only model-checked: liveness (of `SessionEnds` the part that is safety is proved,
`NeverBothWait`); `CopiesWhole`, whose invariant would have to say of every task
that is left what it will have copied; and two properties of the two trees.
`OrderIrrelevant` relates two trees that were built in different orders, where the
invariant is about one. `ServedItsParams` needs, beyond the route that is found, what `SelectSeq` makes
of its pattern.

## Where code and comments disagree

Two of these are runs; the others are short enough to follow in the text.

* "After Stop returns, no new connections will be accepted."
  (`ninep/server.go:311`): not if `Stop` comes before `Serve` has set the listener
  (**stop**).
* "sender: "C%04o %lld %s\n"", then "receiver: ACK" (`sshfs/server.go:154`):
  `receiveSCP` takes the first byte for a status, so a sender that begins with
  the 'C' is read as a warning and is not answered (**scpwait**). Only a client
  that sends a zero byte before each record is served.
* `Attr` "fetch[es] data to determine size" (`fuse/server.go:471`), but reads the
  size in a second lock section: after a write in between it is not the size of
  what was fetched.
* "Continue with size 0" (`fuse/server.go:474`): the size reported after a failed
  fetch is the cached one, which a truncate may have set.
* "no matching route for empty param values" (`radix.go:475`): only an
  empty rest of the path is caught; a tail at the front of the rest gives an
  empty value, as in `/{x}-b` for `/-b`.
* "tailSort pushes nodes with '/' as the tail to the end" (`radix.go:743`): it moves
  one, and what is found is right all the same.
* `walkFail` "handles […] glob patterns" (`ninep/server.go:102`): scripts' globs are
  converted before they reach the tree, and the converted text matches no name.
  FUSE's `Lookup` has the same `findChild`.
* "Cancel the context to signal serve goroutine to exit" (`fuse/server.go:232`):
  nothing listens to the context; when every unmount attempt fails the goroutine
  serves on.
* "Check cached data first (populated by Write for write-only files, or by a
  previous Read for read handler results)" (`ninep/server.go:418`): reads never
  populate it, so every 9p read of a file with a read handler calls the script.
* "Lua handlers return any value" (`examples/README.md:129`): numbers and booleans,
  and tables from handlers other than readdir and getattr, are errors
  (`lua/registry.go:79`). Tengo formats them, the error values of its own fs
  module included (`tengo/registry.go:151`): they are served as content.
* Numbers as flags: Lua's fs module takes them for true in the options of `copy`
  and raises an error in `cp` and `rm`, Tengo's takes them for false in all three
  (`lua/modules/fs/fs.go:139`, `tengo/modules/fs/fs.go:114`, `560`).

What `CopiesWhole` and `KeepsWhatItFound` leave out is what the recursive copy
does otherwise: a directory copied below itself goes on until a path is too long
(`exports/fs/fs.go:147`); a file copied onto itself with `overwrite_existing` is
truncated before it is read (`100`); a link inside a copied tree that leads to a
directory counts as a file, which cannot be read (`146`); a relative link is
followed from the working directory (`44`); a rename, a hard link, a symbolic link or
the copy of one, between the look at the destination and its opening, lets a copy
truncate a file it was to keep (`71`, `100`): the file that was found has then the
name that was seen to be free. A file that meets a directory of its name goes into it
(`66`), which `CopiesWhole` allows for. What `RemovedAreCounted` leaves out: an entry
that another call removes under the walk makes `RemoveAll` answer 0 without an
error, having removed nothing (`190`), and a removal that stops half-way answers an
error and no count (`196`).

## What is not modelled, and why

* HTTP, OAuth and the formats (JSON, YAML, jq): requests to other hosts and
  conversions, sequential and with no state between calls. The device flow's poll
  is a loop with a count.
* In the fs modules: attributes, sizes, walks and listings, which change
  nothing; `permissions`, which changes the mode of a file and with it what later
  calls are refused (`354`): every access is allowed in the model; and `work_dir`, which
  changes the working directory of the whole process and with it every relative path
  of every handler (`exports/fs/fs.go:472`).
* The extra parameters that `ExecuteHandler` and `ExecuteListHandler` can be given
  (`lua/executor.go:200`, `tengo/executor.go:395`): only tests pass them.
* An SCP record whose size is not that of the bytes behind it.
* `Executor.ExecuteScript` of the Lua backend, which no server calls.
* Configuration: read once by one goroutine; a table of precedence.
* The system calls in `fuse/mount.go`, which the server does not use.
* Mounting again after an unmount: `serveDone` is made once, so a second `Mount`
  would panic when it ends, but main mounts once.
* Deeper 9p directories, the open handler's result, SSH authentication, the
  attributes of SFTP files.
* The interpreters, the kernel, `bazil.org/fuse`, the 9p, SSH and SFTP libraries, and
  package `os`: external. What the code relies on is an action, an operator or a
  fairness assumption: a goroutine per request, `fs.Serve` waits for its
  requests, a lazy unmount ends with the last open file, a handle is closed after
  its last chunk.
* Panics on malformed patterns, and text: logging, times, modes and owners.

## Plan

Written so far, in this order: the file node and what it promises, the radix tree,
the directory tree over it, the lifecycle, the SCP session; then the directory
node, the 9p directory, the SFTP file, the two backends and the host's files;
with the proofs of the file node, the lifecycle, the directory node, the 9p
directory, the SFTP file, the SCP session, the backends and the host's files.

Then the radix tree and the route tree, which were checked first and proved last.

Left: `CopiesWhole` for a tree of any depth; that the values a handler
gets are the names the walk took (`ServedItsParams`); a second level of directories in
`NinepDir`.
