------------------------------- MODULE HostFs -------------------------------
(***************************************************************************)
(* What scripts do to the host's file system: the fs module of Lua and of  *)
(* Tengo (src/internal/lua/modules/fs/fs.go, src/internal/tengo/modules/fs *)
(* /fs.go) over the operations they share (src/internal/exports/fs/fs.go). *)
(*                                                                         *)
(* Handlers run on the goroutines of the protocol servers, so calls of two *)
(* handlers interleave between the system calls they are made of.  A copy  *)
(* and a walk keep their recursion in todo: the tasks left, the next one   *)
(* first.                                                                  *)
(* Paths are sequences of names below one root, links hold such a path.    *)
(***************************************************************************)
EXTENDS Integers, Sequences, SequencesExt, FiniteSets, FiniteSetsExt

CONSTANTS
    Callers,    \* the handlers that use the file system
    Calls,      \* Calls[c]: the calls handler c may make
    Disks,      \* the file systems they may find
    Names,      \* file names, in the order a directory lists them
    MaxDepth,   \* the longest path the system accepts
    Texts,      \* what files hold, a sequence of them each
    Sizes       \* the sizes files are cut or stretched to, in texts

VARIABLES
    lang,       \* the language of the root script
    disk,       \* tree: the entries by path; data: the contents of files
    now,        \* the clock files are stamped with: calls begun
    run         \* the call of each handler

vars == <<lang, disk, now, run>>

Name == ToSet(Names)
Path == Seq(Name) \ {<<>>}
ASSUME NamesAssumption ==
    /\ Names \in Seq(STRING) /\ MaxDepth \in Nat
    /\ \A i, j \in DOMAIN Names : Names[i] = Names[j] => i = j
ASSUME TextsAssumption == {"new", "more", "zeros"} \subseteq Texts /\ Sizes \subseteq Int

-----------------------------------------------------------------------------
(* The file system: what the os package does *)

Dir == [type |-> "dir", file |-> 0, target |-> <<>>]
FileNode(file) == [type |-> "file", file |-> file, target |-> <<>>]
Link(target) == [type |-> "link", file |-> 0, target |-> target]
Missing == [type |-> "missing", file |-> 0, target |-> <<>>]

Upto(path, i) == SubSeq(path, 1, i)
Parent(path) == Upto(path, Len(path) - 1)

NodeAt(d, path) ==
    IF path = <<>> THEN Dir ELSE IF path \in DOMAIN d.tree THEN d.tree[path] ELSE Missing

\* A file system: every entry is in a directory, every file has a content.
Content == [content : Seq(Texts), time : Nat]
IsNode(node, data) ==
    /\ node \in {Dir, FileNode(node.file), Link(node.target)}
    /\ node.type = "file" => node.file \in DOMAIN data
    /\ node.type = "link" => node.target \in Path
HasFields(d) == d = [tree |-> d.tree, data |-> d.data]
IsFunction(tree) == tree = [p \in DOMAIN tree |-> tree[p]]
IsDisk(d) ==
    /\ HasFields(d) /\ d.data \in Seq(Content)
    /\ IsFunction(d.tree) /\ IsFiniteSet(DOMAIN d.tree)
    /\ \A p \in DOMAIN d.tree :
        p \in Path /\ IsNode(d.tree[p], d.data) /\ NodeAt(d, Parent(p)).type = "dir"

ASSUME DisksAssumption == \A d \in Disks : IsDisk(d)
ASSUME CallsAssumption ==
    \A c \in Callers : \A call \in Calls[c] :
        call.src \in Path /\ call.dst \in Path /\ {call.given, call.numbers} \subseteq SUBSET STRING

\* The path with its first link replaced, and followed through three links: a
\* path that has more ends at a link.
LinksOn(d, path) == {i \in DOMAIN path : NodeAt(d, Upto(path, i)).type = "link"}
FollowLink(d, path) ==
    IF LinksOn(d, path) = {} THEN path
    ELSE LET i == Min(LinksOn(d, path)) IN
         d.tree[Upto(path, i)].target \o SubSeq(path, i + 1, Len(path))

Real(d, path) == FollowLink(d, FollowLink(d, FollowLink(d, path)))
RealLink(d, path) == IF path = <<>> THEN path ELSE Append(Real(d, Parent(path)), Last(path))

TooLong(path) == Len(path) > MaxDepth
Stat(d, path) == IF TooLong(path) THEN Missing ELSE NodeAt(d, Real(d, path))
Lstat(d, path) == IF TooLong(path) THEN Missing ELSE NodeAt(d, RealLink(d, path))
Below(d, path) == {p \in DOMAIN d.tree : IsPrefix(path, p)}

Ok(d) == [ok |-> TRUE, disk |-> d, file |-> 0]
Fails(d) == [ok |-> FALSE, disk |-> d, file |-> 0]

\* A tree with entries that replace others, or are new.
Over(entries, tree) ==
    [p \in DOMAIN entries \cup DOMAIN tree |->
        IF p \in DOMAIN entries THEN entries[p] ELSE tree[p]]

Put(d, path, node) == [d EXCEPT !.tree = Over([p \in {path} |-> node], @)]

MkdirAll(d, path) ==
    LET made == {Real(d, Upto(path, i)) : i \in DOMAIN path} IN
    IF TooLong(path) \/ \E i \in DOMAIN path :
            /\ Lstat(d, Upto(path, i)).type # "missing"
            /\ Stat(d, Upto(path, i)).type # "dir"
      THEN Fails(d)
      ELSE Ok([d EXCEPT !.tree = Over(@, [p \in made \ {<<>>} |-> Dir])])

\* Opens for writing: truncates a file that is there, makes one that is not.
OpenForWriting(d, path, truncate) ==
    LET real == Real(d, path)
        node == NodeAt(d, real)
    IN  IF TooLong(path) \/ node.type = "dir" THEN Fails(d)
        ELSE IF node.type = "file"
          THEN [ok |-> TRUE, file |-> node.file, disk |->
                    IF truncate THEN [d EXCEPT !.data[node.file] = [content |-> <<>>, time |-> now]] ELSE d]
        ELSE IF node.type = "link" \/ NodeAt(d, Parent(real)).type # "dir" THEN Fails(d)
        ELSE [ok |-> TRUE, file |-> Len(d.data) + 1, disk |->
                [Put(d, real, FileNode(Len(d.data) + 1)) EXCEPT
                    !.data = Append(@, [content |-> <<>>, time |-> now])]]

Symlink(d, target, path) ==
    IF TooLong(path) \/ Lstat(d, path).type # "missing" \/ Stat(d, Parent(path)).type # "dir"
      THEN Fails(d) ELSE Ok(Put(d, RealLink(d, path), Link(target)))

\* A second name for a file, or for a link itself, but not for a directory.
HardLink(d, target, path) ==
    IF Lstat(d, target).type \in {"missing", "dir"} \/ TooLong(path)
       \/ Lstat(d, path).type # "missing" \/ Stat(d, Parent(path)).type # "dir"
      THEN Fails(d) ELSE Ok(Put(d, RealLink(d, path), Lstat(d, target)))

Without(d, paths) == [d EXCEPT !.tree = [p \in DOMAIN @ \ paths |-> @[p]]]
IsClosed(d, paths) == \A p \in paths : \A q \in DOMAIN d.tree : IsPrefix(p, q) => q \in paths

\* A directory must be empty to be removed.
RemoveOs(d, path) ==
    IF Cardinality(Below(d, RealLink(d, path))) > 1 THEN Fails(d)
    ELSE Ok(Without(d, {RealLink(d, path)}))

\* What is there is replaced, unless it is a directory: that one only stays, when
\* both paths lead to it.  Two names of one file are left alone.
RenameOs(d, src, dst) ==
    LET from == RealLink(d, src)
        to   == RealLink(d, dst)
        moved == Below(d, from)
        Image(p) == to \o SubSeq(p, Len(from) + 1, Len(p))
        node == Lstat(d, src)
        replaced == Lstat(d, dst)
        images == {Image(p) : p \in moved}
    IN  IF \/ TooLong(src) \/ TooLong(dst) \/ moved = {} \/ NodeAt(d, Parent(to)).type # "dir"
           \/ (from # to /\ IsPrefix(from, to))
           \/ (replaced.type = "dir" /\ (from # to \/ src = dst))
           \/ (replaced.type \in {"file", "link"} /\ node.type = "dir")
          THEN Fails(d)
        ELSE IF from = to \/ (node.type = "file" /\ node = replaced) THEN Ok(d)
        ELSE Ok([d EXCEPT !.tree =
                Over([p \in images |-> @[CHOOSE q \in moved : Image(q) = p]],
                     [p \in DOMAIN @ \ moved |-> @[p]])])

-----------------------------------------------------------------------------
(* The functions of the two modules: what they ask the exports for *)

\* A call: the function, its paths, the flags and options given as true, and
\* those given as a number.
Op(op, call, flags) == [op |-> op, src |-> call.src, dst |-> call.dst, flags |-> flags]
Raises(call) == Op("raises", call, {})

\* OptBool refuses a number.
LuaBasic(call) ==
    IF call.numbers # {} THEN Raises(call)
    ELSE CASE call.fn = "mkdir"  -> Op("mkdir", call, {})
           [] call.fn = "cp"     -> Op("copy", call, call.given \cap {"recursive"})
           [] call.fn = "rm"     -> Op(IF call.given = {} THEN "remove" ELSE "removeAll", call, {})
           [] call.fn = "mv"     -> Op("rename", call, {})
           [] call.fn = "cat"    -> Op("read", call, {})
           [] call.fn = "write"  -> Op("write", call, {})
           [] call.fn = "append" -> Op("append", call, {})

\* In the options of copy every number is true.
LuaCopy(call) ==
    IF call.fn = "copy" THEN Op("copy", call, call.given \cup call.numbers)
                        ELSE Op("mkdir", call, {})

LuaMoves(call) ==
    CASE call.fn = "remove_all" -> Op("removeAll", call, {})
      [] call.fn = "rename"     -> Op("rename", call, {})
      [] call.fn = "resize"     -> Op("resize", call, {})

\* The target comes first.
LuaLinks(call) ==
    Op(IF call.fn = "create_hardlink" THEN "hardlink" ELSE "symlink", call, {})

\* The error checkBoolArg returns for a number is dropped: it is false.
TengoBasic(call) ==
    CASE call.fn = "mkdir"  -> Op("mkdir", call, {})
      [] call.fn = "cp"     -> Op("copy", call, call.given \cap {"recursive"})
      [] call.fn = "rm"     -> Op(IF call.given = {} THEN "remove" ELSE "removeAll", call, {})
      [] call.fn = "mv"     -> Op("rename", call, {})
      [] call.fn = "cat"    -> Op("read", call, {})
      [] call.fn = "write"  -> Op("write", call, {})
      [] call.fn = "append" -> Op("append", call, {})

TengoMoves(call) ==
    CASE call.fn = "remove_all" -> Op("removeAll", call, {})
      [] call.fn = "rename"     -> Op("rename", call, {})
      [] call.fn = "resize"     -> Op("resize", call, {})

TengoLinks(call) ==
    Op(IF call.fn = "create_hardlink" THEN "hardlink" ELSE "symlink", call, {})

\* Only a boolean sets an option of copy.
TengoCopy(call) ==
    IF call.fn = "copy" THEN Op("copy", call, call.given) ELSE Op("mkdir", call, {})

Basic == {"mkdir", "cp", "rm", "mv", "cat", "write", "append"}
Moves == {"remove_all", "rename", "resize"}
Links == {"create_hardlink", "create_symlink"}

Asked(call) ==
    CASE call.fn \in Basic -> IF lang = "lua" THEN LuaBasic(call) ELSE TengoBasic(call)
      [] call.fn \in Moves -> IF lang = "lua" THEN LuaMoves(call) ELSE TengoMoves(call)
      [] call.fn \in Links -> IF lang = "lua" THEN LuaLinks(call) ELSE TengoLinks(call)
      [] OTHER             -> IF lang = "lua" THEN LuaCopy(call) ELSE TengoCopy(call)

-----------------------------------------------------------------------------
(* The exported operations, a system call or a few at a time *)

Task(do, src, dst) == [do |-> do, src |-> src, dst |-> dst, in |-> 0, out |-> 0]

Idle == [pc |-> "idle", op |-> Op("none", [src |-> <<>>, dst |-> <<>>], {}), todo |-> <<>>,
         count |-> 0, answer |-> "none", found |-> [tree |-> <<>>, data |-> <<>>], rivals |-> {}]

Init ==
    /\ lang \in {"lua", "tengo"}
    /\ disk \in Disks
    /\ now = 1
    /\ run = [c \in Callers |-> Idle]

Busy == {c \in Callers : run[c].pc = "busy"}

\* Goes on with tasks instead of the one in hand, having made d of the disk.
Continue(c, d, tasks) ==
    /\ disk' = d
    /\ run' = [run EXCEPT ![c].todo = tasks \o Tail(@)]
    /\ UNCHANGED <<lang, now>>

\* Answers; an error gives up the tasks that are left.
Return(c, d, answer) ==
    /\ disk' = d
    /\ run' = [run EXCEPT ![c] = [@ EXCEPT !.pc = "done", !.todo = <<>>, !.answer = answer]]
    /\ UNCHANGED <<lang, now>>

ContinueOrFail(c, result, tasks) ==
    IF result.ok THEN Continue(c, result.disk, tasks) ELSE Return(c, result.disk, "error")

\* The script calls a function of the module.
Begin(c, call) ==
    LET op == Asked(call) IN
    /\ run[c].pc = "idle"
    /\ run' = [d \in Callers |->
            IF d = c THEN [Idle EXCEPT !.pc = "busy", !.op = op, !.found = disk,
                                       !.todo = <<Task(op.op, op.src, op.dst)>>,
                                       !.rivals = {run[e].op.op : e \in Busy}]
            ELSE IF d \in Busy THEN [run[d] EXCEPT !.rivals = @ \cup {op.op}] ELSE run[d]]
    /\ now' = now + 1
    /\ UNCHANGED <<lang, disk>>

Doing(c, do) == run[c].pc = "busy" /\ run[c].todo # <<>> /\ Head(run[c].todo).do = do
Now(c) == Head(run[c].todo)
Flags(c) == run[c].op.flags

\* A copy whose tasks are all done.
Finish(c) ==
    /\ run[c].pc = "busy" /\ run[c].todo = <<>>
    /\ Return(c, disk, "ok")

\* Copy of a link: as a link, or of what it leads to.
CopyLink(c) ==
    LET src == Now(c).src
        into == IF Stat(disk, Now(c).dst).type = "dir" THEN Append(Now(c).dst, Last(src)) ELSE Now(c).dst
        target == Lstat(disk, src).target
        node == Stat(disk, target)
    IN  /\ Doing(c, "copy") /\ Lstat(disk, src).type = "link"
        /\ IF "copy_symlinks" \in Flags(c) THEN ContinueOrFail(c, Symlink(disk, target, into), <<>>)
           ELSE IF node.type \in {"missing", "link"} \/ (node.type = "dir" /\ "recursive" \notin Flags(c))
             THEN Return(c, disk, "error")
           ELSE Continue(c, disk, <<Task(node.type, target, Now(c).dst)>>)

Copy(c) ==
    LET node == Lstat(disk, Now(c).src) IN
    /\ Doing(c, "copy") /\ node.type # "link"
    /\ IF node.type = "missing" \/ (node.type = "dir" /\ "recursive" \notin Flags(c))
         THEN Return(c, disk, "error")
         ELSE Continue(c, disk, <<Task(node.type, Now(c).src, Now(c).dst)>>)

\* copyDir makes the directory first,
CopyDir(c) ==
    /\ Doing(c, "dir")
    /\ ContinueOrFail(c, MkdirAll(disk, Now(c).dst),
            IF "directories_only" \in Flags(c) THEN <<>> ELSE <<[Now(c) EXCEPT !.do = "list"]>>)

\* What a bug would make of it: directories are passed over.
EntryTasksOfFiles(kind, src, dst) ==
    IF kind = "subdir" THEN <<>> ELSE <<Task("file", src, dst)>>

\* A link that is not copied as one counts as a file, wherever it leads.
EntryTasks(kind, src, dst) ==
    IF kind = "subdir" THEN <<Task("dir", src, dst)>> ELSE <<Task("file", src, dst)>>

Listed(d, path) ==
    LET upTo[n \in 0..Len(Names)] ==
            IF n = 0 THEN <<>>
            ELSE IF Append(Real(d, path), Names[n]) \in DOMAIN d.tree
              THEN Append(upTo[n - 1], Names[n]) ELSE upTo[n - 1]
    IN  upTo[Len(Names)]
EntryKind(d, path, name) ==
    IF NodeAt(d, Append(Real(d, path), name)).type = "dir" THEN "subdir" ELSE "entry"

\* lists the source,
ListDir(c) ==
    LET names == Listed(disk, Now(c).src) IN
    /\ Doing(c, "list")
    /\ IF Stat(disk, Now(c).src).type # "dir" THEN Return(c, disk, "error")
       ELSE Continue(c, disk, [i \in DOMAIN names |->
                Task(EntryKind(disk, Now(c).src, names[i]),
                     Append(Now(c).src, names[i]), Append(Now(c).dst, names[i]))])

\* and goes through the entries it had then.
Entry(c) ==
    LET node == Lstat(disk, Now(c).src) IN
    /\ Doing(c, "subdir") \/ Doing(c, "entry")
    /\ IF node.type = "missing" THEN Return(c, disk, "error")
       ELSE IF node.type = "link" /\ "copy_symlinks" \in Flags(c)
         THEN ContinueOrFail(c, Symlink(disk, node.target, Now(c).dst), <<>>)
       ELSE Continue(c, disk, EntryTasks(Now(c).do, Now(c).src, Now(c).dst))

\* When what is there was changed; of a directory that is left open.
TimesOf(d, path) ==
    IF Stat(d, path).type = "file" THEN {d.data[Stat(d, path).file].time} ELSE 0..now

\* copyFile goes into a destination that is a directory,
CopyFile(c) ==
    LET dst == IF Stat(disk, Now(c).dst).type = "dir"
                 THEN Append(Now(c).dst, Last(Now(c).src)) ELSE Now(c).dst
    IN  /\ Doing(c, "file")
        /\ Continue(c, disk, <<Task("look", Now(c).src, dst)>>)

\* What a bug would make of it: overwriting is the default.
DecideOverwriting(flags) ==
    IF "skip_existing" \in flags THEN "keep"
    ELSE IF "update_existing" \in flags THEN "compare" ELSE "open"

\* What it does about a destination that exists.
Decide(flags) ==
    IF "skip_existing" \in flags THEN "keep"
    ELSE IF "overwrite_existing" \in flags THEN "open"
    ELSE IF "update_existing" \in flags THEN "compare"
    ELSE "refuse"

\* looks whether it exists,
Look(c) ==
    LET decision == IF Stat(disk, Now(c).dst).type = "missing" THEN "open" ELSE Decide(Flags(c)) IN
    /\ Doing(c, "look")
    /\ CASE decision = "keep"   -> Continue(c, disk, <<>>)
         [] decision = "refuse" -> Return(c, disk, "error")
         [] OTHER               -> Continue(c, disk, <<Task(decision, Now(c).src, Now(c).dst)>>)

\* compares the time of the source
Compare(c) ==
    /\ Doing(c, "compare")
    /\ IF Stat(disk, Now(c).src).type = "missing" THEN Return(c, disk, "error")
       ELSE \E time \in TimesOf(disk, Now(c).src) :
                Continue(c, disk, <<[Now(c) EXCEPT !.do = "against", !.in = time]>>)

\* with that of the destination,
Against(c) ==
    /\ Doing(c, "against")
    /\ IF Stat(disk, Now(c).dst).type = "missing" THEN Return(c, disk, "error")
       ELSE \E time \in TimesOf(disk, Now(c).dst) :
                Continue(c, disk, IF Now(c).in > time THEN <<Task("open", Now(c).src, Now(c).dst)>>
                                                      ELSE <<>>)

\* opens the source and creates or truncates the destination,
OpenBoth(c) ==
    LET source == Stat(disk, Now(c).src)
        created == OpenForWriting(disk, Now(c).dst, TRUE)
    IN  /\ Doing(c, "open")
        /\ IF source.type = "missing" THEN Return(c, disk, "error")
           ELSE ContinueOrFail(c, created,
                    <<[Now(c) EXCEPT !.do = "fill", !.in = source.file, !.out = created.file]>>)

\* and copies the bytes; a directory cannot be read.
Fill(c) ==
    /\ Doing(c, "fill")
    /\ IF Now(c).in = 0 THEN Return(c, disk, "error")
       ELSE Continue(c, [disk EXCEPT !.data[Now(c).out] =
                            [content |-> disk.data[Now(c).in].content, time |-> now]], <<>>)

Mkdir(c) ==
    /\ Doing(c, "mkdir")
    /\ ContinueOrFail(c, MkdirAll(disk, Now(c).src), <<>>)

Rename(c) ==
    /\ Doing(c, "rename")
    /\ ContinueOrFail(c, RenameOs(disk, Now(c).src, Now(c).dst), <<>>)

CreateHardLink(c) ==
    /\ Doing(c, "hardlink")
    /\ ContinueOrFail(c, HardLink(disk, Now(c).src, Now(c).dst), <<>>)

CreateSymlink(c) ==
    /\ Doing(c, "symlink")
    /\ ContinueOrFail(c, Symlink(disk, Now(c).src, Now(c).dst), <<>>)

\* os.Truncate cuts what is too long, and fills up what is too short.
Resized(content, size) == [i \in 1..size |-> IF i <= Len(content) THEN content[i] ELSE "zeros"]
ResizeFile(c) ==
    LET node == Stat(disk, Now(c).src) IN
    /\ Doing(c, "resize")
    /\ \E size \in Sizes :
        IF node.type # "file" \/ size < 0 THEN Return(c, disk, "error")
        ELSE Continue(c, [disk EXCEPT !.data[node.file] =
                            [content |-> Resized(@.content, size), time |-> now]], <<>>)

\* Whether a system call on the path, which leads to real, answers that there is
\* no such file: nothing on the way is a file, or a link too many.
NotExist(d, path, real) ==
    /\ ~TooLong(path) /\ NodeAt(d, real).type = "missing"
    /\ \A i \in 1..(Len(real) - 1) : NodeAt(d, Upto(real, i)).type \in {"dir", "missing"}

\* Removing what is not there is no error.
RemoveOne(c) ==
    LET src == Now(c).src IN
    /\ Doing(c, "remove")
    /\ IF NotExist(disk, src, RealLink(disk, src)) THEN Continue(c, disk, <<>>)
       ELSE IF Lstat(disk, src).type = "missing" THEN Return(c, disk, "error")
       ELSE ContinueOrFail(c, RemoveOs(disk, src), <<>>)

\* Counts an entry, and goes on with tasks.
Count(c, tasks) ==
    /\ run' = [run EXCEPT ![c].todo = tasks \o Tail(@), ![c].count = @ + 1]
    /\ UNCHANGED <<lang, disk, now>>

\* Answers 0, and no error if what it came to does not exist.
GiveUp(c, d, notExist) ==
    /\ disk' = d
    /\ run' = [run EXCEPT ![c] = [@ EXCEPT !.pc = "done", !.todo = <<>>, !.count = 0,
                                           !.answer = IF notExist THEN "ok" ELSE "error"]]
    /\ UNCHANGED <<lang, now>>

\* RemoveAll walks the tree to count what it holds, without following links,
\* and then removes it.
RemoveAll(c) ==
    /\ Doing(c, "removeAll")
    /\ Continue(c, disk, <<[Now(c) EXCEPT !.do = "visit"], [Now(c) EXCEPT !.do = "unlink"]>>)

\* The walk comes to an entry,
Visit(c) ==
    LET src == Now(c).src
        node == Lstat(disk, src)
    IN  /\ Doing(c, "visit")
        /\ IF node.type = "missing" THEN GiveUp(c, disk, NotExist(disk, src, RealLink(disk, src)))
           ELSE IF node.type = "dir" THEN Continue(c, disk, <<Task("walk", src, src)>>)
           ELSE Count(c, <<>>)

\* What a bug would make of it: directories are not counted.
WalkUncounted(c) ==
    LET src == Now(c).src
        names == Listed(disk, src)
        EntryAt(i) == Append(src, names[i])
    IN  /\ Doing(c, "walk") /\ Stat(disk, src).type = "dir"
        /\ Continue(c, disk, [i \in DOMAIN names |-> Task("visit", EntryAt(i), EntryAt(i))])

\* lists it if it is a directory, and goes through its entries.
Walk(c) ==
    LET src == Now(c).src
        names == Listed(disk, src)
        EntryAt(i) == Append(src, names[i])
    IN  /\ Doing(c, "walk")
        /\ IF Stat(disk, src).type # "dir" THEN GiveUp(c, disk, NotExist(disk, src, Real(disk, src)))
           ELSE Count(c, [i \in DOMAIN names |-> Task("visit", EntryAt(i), EntryAt(i))])

\* os.RemoveAll removes everything, or stops half-way.
Unlink(c) ==
    LET below == Below(disk, RealLink(disk, Now(c).src)) IN
    /\ Doing(c, "unlink")
    /\ \/ Continue(c, Without(disk, below), <<>>)
       \/ \E gone \in SUBSET below : IsClosed(disk, gone) /\ GiveUp(c, Without(disk, gone), FALSE)

Read(c) ==
    /\ Doing(c, "read")
    /\ IF Stat(disk, Now(c).src).type = "file" THEN Continue(c, disk, <<>>)
                                               ELSE Return(c, disk, "error")

\* os.WriteFile truncates the file before it writes.
Write(c) ==
    LET opened == OpenForWriting(disk, Now(c).src, TRUE) IN
    /\ Doing(c, "write")
    /\ ContinueOrFail(c, opened, <<[Now(c) EXCEPT !.do = "put", !.out = opened.file]>>)

PutContent(c) ==
    /\ Doing(c, "put")
    /\ Continue(c, [disk EXCEPT !.data[Now(c).out] = [content |-> <<"new">>, time |-> now]], <<>>)

AppendTo(c) ==
    LET opened == OpenForWriting(disk, Now(c).src, FALSE) IN
    /\ Doing(c, "append")
    /\ IF ~opened.ok THEN Return(c, disk, "error")
       ELSE Continue(c, [opened.disk EXCEPT !.data[opened.file] =
                            [content |-> Append(@.content, "more"), time |-> now]], <<>>)

\* An argument the module refuses.
Raise(c) == Doing(c, "raises") /\ Return(c, disk, "error")

Step(c) ==
    \/ CopyLink(c) \/ Copy(c) \/ CopyDir(c) \/ ListDir(c) \/ Entry(c)
    \/ CopyFile(c) \/ Look(c) \/ Compare(c) \/ Against(c) \/ OpenBoth(c) \/ Fill(c)
    \/ Mkdir(c) \/ Rename(c) \/ CreateHardLink(c) \/ CreateSymlink(c) \/ ResizeFile(c)
    \/ RemoveOne(c) \/ RemoveAll(c) \/ Visit(c) \/ Walk(c) \/ Unlink(c)
    \/ Read(c) \/ Write(c) \/ PutContent(c) \/ AppendTo(c) \/ Raise(c) \/ Finish(c)

Next == \E c \in Callers : Step(c) \/ \E call \in Calls[c] : Begin(c, call)

Spec == Init /\ [][Next]_vars

-----------------------------------------------------------------------------
(* What the proofs need: the tasks of a call, and what it knows of the disk *)

\* The operations that can put a file that is there under another path.
Namers == {"rename", "hardlink", "symlink"}
Ops == {"none", "raises", "mkdir", "copy", "remove", "removeAll", "read", "write", "append", "resize"}
       \cup Namers
CopyDos == {"copy", "dir", "list", "subdir", "entry", "file", "look", "compare", "against",
            "open", "fill"}
Dos == Ops \cup CopyDos \cup {"visit", "walk", "unlink", "put"}
Tasks == [do : Dos, src : Path, dst : Path, in : Nat, out : Nat]

\* One task is in hand; those behind it are entries of directories, and what
\* follows a walk.
Later == {"subdir", "entry", "visit", "unlink"}
IsTodo(r) ==
    /\ r.todo \in Seq(Tasks)
    /\ \A i \in DOMAIN r.todo : i # 1 => r.todo[i].do \in Later
    /\ r.op.op = "copy" => \A i \in DOMAIN r.todo : r.todo[i].do \in CopyDos
    /\ \A i \in DOMAIN r.todo : r.todo[i].do \in Namers => r.todo[i].do = r.op.op
    /\ \A i \in DOMAIN r.todo :
        r.todo[i].do \in {"compare", "against"} => "update_existing" \in r.op.flags

HasRunFields(r) ==
    r = [pc |-> r.pc, op |-> r.op, todo |-> r.todo, count |-> r.count, answer |-> r.answer,
         found |-> r.found, rivals |-> r.rivals]
IsRun(r) ==
    /\ HasRunFields(r)
    /\ r.pc \in {"idle", "busy", "done"} /\ (r.pc = "idle" => r = Idle)
    /\ r.op = [op |-> r.op.op, src |-> r.op.src, dst |-> r.op.dst, flags |-> r.op.flags]
    /\ r.op.op \in Ops /\ IsTodo(r)
    /\ r.pc # "idle" => IsDisk(r.found) /\ Len(r.found.data) <= Len(disk.data)

\* The files a task holds open are files of the disk.
OpenAreThere(r) ==
    r.todo # <<>> /\ r.todo[1].do \in {"fill", "put"} =>
        /\ r.todo[1].out \in DOMAIN disk.data
        /\ r.todo[1].do = "fill" => r.todo[1].in \in {0} \cup DOMAIN disk.data

\* Calls that run at the same time are each other's rivals.
AreRivals ==
    \A c \in Busy : \A e \in Busy \ {c} : run[e].op.op \in run[c].rivals

DiskStaysATree == IsDisk(disk)
RunsOk == /\ run = [c \in Callers |-> run[c]] /\ now \in Nat
          /\ \A c \in Callers : IsRun(run[c]) /\ OpenAreThere(run[c])
DiskInv == DiskStaysATree /\ RunsOk /\ AreRivals

-----------------------------------------------------------------------------
(* Properties *)

Returns(c) == run[c].pc = "busy" /\ run'[c].pc = "done"
Alone(c) == run[c].rivals = {}

\* The copies KeepsWhatItFound is about.
MustKeep(c) ==
    /\ run[c].op.op = "copy" /\ {"overwrite_existing", "update_existing"} \cap Flags(c) = {}
    /\ Namers \cap run[c].rivals = {}
    /\ \A e \in Callers \ {c} : "copy_symlinks" \notin Flags(e)

\* What it is about to truncate, or fills, was not there when it began.
KeepInv ==
    \A c \in Busy : MustKeep(c) /\ run[c].todo # <<>> =>
        /\ Now(c).do = "open" /\ Stat(disk, Now(c).dst).type = "file"
             => Stat(disk, Now(c).dst).file \notin DOMAIN run[c].found.data
        /\ Now(c).do = "fill" => Now(c).out \notin DOMAIN run[c].found.data

\* A copy that was not told to overwrite or update changes no file it found,
\* nor does one that fails: handlers that copy, write, append, resize, make and
\* remove at the same time do not get it to (copyFile, exports/fs/fs.go:70-92).
\* The condition leaves out the calls that do: between the look at line 71 and
\* the os.Create at line 100 a rename, a hard link, a symbolic link or a copy
\* of one puts a file it found under a name it has seen to be free.
KeepsWhatItFound ==
    [][\A c \in Callers :
        run[c].pc = "busy" /\ run'[c] # run[c] /\ MustKeep(c)
            => \A file \in DOMAIN run[c].found.data : disk'.data[file] = disk.data[file]]_vars

\* The copies CopiesWhole is about: of a directory, neither into itself nor
\* over what holds it, on a file system without links and without files that
\* have two names.
PlainTree(found, op) ==
    /\ op.op = "copy" /\ "directories_only" \notin op.flags
    /\ Stat(found, op.src).type = "dir"
    /\ ~IsPrefix(op.src, op.dst) /\ ~IsPrefix(op.dst, op.src)
    /\ \A p \in DOMAIN found.tree : found.tree[p].type # "link"
    /\ \A p, q \in DOMAIN found.tree :
        found.tree[p].type = "file" /\ found.tree[p] = found.tree[q] => p = q

\* Whether the file at to is to have the content of the one at from.
IsReplaced(found, flags, from, to) ==
    \/ Stat(found, to).type = "missing"
    \/ /\ "skip_existing" \notin flags
       /\ \/ "overwrite_existing" \in flags
          \/ found.data[Stat(found, from).file].time > found.data[Stat(found, to).file].time

\* The disk is the one found with a copy of op.src at op.dst.  A file whose
\* place is taken by a directory goes into that directory.
CopyOf(found, op, copied) ==
    LET Place(q) == op.dst \o SubSeq(q, Len(op.src) + 1, Len(q))
        To(q) == IF found.tree[q].type = "file" /\ Stat(found, Place(q)).type = "dir"
                   THEN Append(Place(q), Last(q)) ELSE Place(q)
        IsCopied(p) ==
            /\ Stat(found, To(p)).type # "dir" => Stat(copied, To(p)).type = found.tree[p].type
            /\ Stat(found, To(p)).type = "dir" => Stat(copied, To(p)).type = "dir"
            /\ found.tree[p].type = "file" /\ Stat(found, To(p)).type # "dir" =>
                IF IsReplaced(found, op.flags, p, To(p))
                  THEN copied.data[Stat(copied, To(p)).file].content
                            = found.data[found.tree[p].file].content
                  ELSE copied.data[Stat(copied, To(p)).file] = found.data[Stat(found, To(p)).file]
        others == DOMAIN found.tree \ {To(p) : p \in Below(found, op.src)}
    IN  /\ \A p \in Below(found, op.src) : IsCopied(p)
        /\ \A p \in others : copied.tree[p] = found.tree[p]
        /\ DOMAIN copied.tree \subseteq DOMAIN found.tree \cup {To(p) : p \in Below(found, op.src)}
                                            \cup {Upto(op.dst, i) : i \in DOMAIN op.dst}

\* A recursive copy that succeeds, and that no other call disturbed, has made
\* at its destination what the source holds: every directory, and every file
\* with the content the source had, but for the files it was told to keep; and
\* it has changed nothing else (copyDir, exports/fs/fs.go:113-157).  Where one
\* of the two paths is below the other, or links lead elsewhere, see README.
CopiesWhole ==
    [][\A c \in Callers :
        Returns(c) /\ Alone(c) /\ run'[c].answer = "ok" /\ PlainTree(run[c].found, run[c].op)
            => CopyOf(run[c].found, run[c].op, disk')]_vars

\* What a task of a walk comes to, and what the tasks ahead of it come to.
Span(d, task) == Below(d, RealLink(d, task.src))
Pending(d, todo) == UNION {Span(d, todo[i]) : i \in 1..(Len(todo) - 1)}
IsAhead(r, d, task) ==
    /\ task.do \in {"visit", "walk"} /\ IsPrefix(RealLink(d, r.op.src), RealLink(d, task.src))
    /\ task.src = r.op.src \/ RealLink(d, task.src) \in DOMAIN d.tree
    /\ task.do = "walk" => Lstat(d, task.src).type = "dir"

\* A walk that nothing disturbs: the tasks ahead have nothing in common, and
\* what none of them comes to is counted.
IsWalk(r, d) ==
    LET last == Len(r.todo) IN
    /\ last > 0 /\ r.todo[last].do = "unlink" /\ r.todo[last].src = r.op.src
    /\ \A i \in 1..(last - 1) : IsAhead(r, d, r.todo[i])
    /\ \A i, j \in 1..(last - 1) : i # j => Span(d, r.todo[i]) \cap Span(d, r.todo[j]) = {}
    /\ r.count = Cardinality(Span(d, r.todo[last]) \ Pending(d, r.todo))

\* A remove_all that nothing disturbs has yet to walk, walks, or is done.
Counts(c) ==
    LET r == run[c] IN
    Alone(c) /\ r.op.op = "removeAll" =>
        \/ /\ Len(r.todo) = 1 /\ r.todo[1].do = "removeAll" /\ r.todo[1].src = r.op.src
           /\ disk = r.found /\ r.count = 0
        \/ disk = r.found /\ IsWalk(r, disk)
        \/ /\ r.todo = <<>> /\ r.count = Cardinality(DOMAIN r.found.tree \ DOMAIN disk.tree)
           /\ Lstat(disk, r.op.src).type = "missing"

CountInv == \A c \in Busy : Counts(c)

\* remove_all answers how many entries it removed: those that are gone when
\* it returns, unless another call disturbed it (RemoveAll, exports/fs/fs.go:
\* 177-200), and nothing is left below its path.
RemovedAreCounted ==
    [][\A c \in Callers :
        Returns(c) /\ Alone(c) /\ run'[c].answer = "ok" /\ run[c].op.op = "removeAll" =>
            /\ run'[c].count = Cardinality(DOMAIN run[c].found.tree \ DOMAIN disk'.tree)
            /\ Lstat(disk', run[c].op.src).type = "missing"]_vars
=============================================================================
