------------------------------ MODULE MCHostFs ------------------------------
(* One handler that makes any call, one that makes a call that may get in   *)
(* its way, on three file systems of two names and three levels.            *)
EXTENDS HostFs, TLC

A == <<"a">>
B == <<"b">>
AA == <<"a", "a">>
AB == <<"a", "b">>
BA == <<"b", "a">>
BAB == <<"b", "a", "b">>

C(time, text) == [content |-> <<text>>, time |-> time]

MCDisks ==
    { [tree |-> (A :> Dir) @@ (AA :> FileNode(1)) @@ (AB :> Dir) @@ (AB \o B :> FileNode(2)),
       data |-> <<C(0, "x"), C(1, "y")>>],
      [tree |-> (A :> Dir) @@ (AA :> FileNode(1)) @@ (B :> Dir) @@ (BA :> FileNode(2)),
       data |-> <<C(1, "x"), C(0, "y")>>],
      [tree |-> (A :> Dir) @@ (AA :> Link(B)) @@ (B :> FileNode(1)), data |-> <<C(0, "x")>>] }

Call(fn, src, dst, given, numbers) ==
    [fn |-> fn, src |-> src, dst |-> dst, given |-> given, numbers |-> numbers]

R == "recursive"
Options == {{}, {R}, {R, "skip_existing"}, {R, "overwrite_existing"}, {R, "update_existing"},
            {R, "copy_symlinks"}, {"copy_symlinks"}, {R, "directories_only"},
            {R, "skip_existing", "overwrite_existing"}}

Copies(paths) == {Call("copy", s, d, o, {}) : s \in paths, d \in paths, o \in Options}
Numbered(paths) ==
    {Call(fn, s, d, {}, {R}) : fn \in {"copy", "cp", "rm"}, s \in paths, d \in {B}}
Others(paths) ==
    {Call(fn, s, d, {}, {}) : fn \in {"mv", "rename", "cp", "create_hardlink", "create_symlink"},
                              s \in paths, d \in paths}
    \cup {Call("rm", s, s, g, {}) : s \in paths, g \in {{}, {R}}}
    \cup {Call(fn, s, s, {}, {}) :
            fn \in {"mkdir", "create_dir", "remove_all", "write", "append", "cat", "resize"},
            s \in paths}

MCCalls(c1, c2) ==
    (c1 :> Copies({A, B, AA, AB, BA}) \cup Others({A, B, AB, BAB}) \cup Numbered({A, AA}))
    @@ (c2 :> {Call("copy", B, A, {R, "overwrite_existing"}, {}), Call("copy", A, B, {R}, {}),
               Call("cp", AA, BA, {}, {}), Call("mv", A, B, {}, {}), Call("mv", BA, AB, {}, {}),
               Call("write", BA, BA, {}, {}), Call("append", AA, AA, {}, {}), Call("rm", A, A, {R}, {}),
               Call("copy", A, B, {R, "copy_symlinks"}, {}), Call("mkdir", BAB, BAB, {}, {}),
               Call("create_hardlink", AA, BA, {}, {}), Call("create_symlink", AA, BA, {}, {}),
               Call("rm", AA, AA, {}, {}), Call("resize", AA, AA, {}, {})})

CONSTANTS c1, c2
MCBoth == MCCalls(c1, c2)
MCNames == <<"a", "b">>
MCSizes == {-1, 0, 2}
=============================================================================
