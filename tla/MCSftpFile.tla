----------------------------- MODULE MCSftpFile -----------------------------
\* Small instances of SftpFile.
EXTENDS SftpFile, TLC

CONSTANTS h1, h2

MCHandles == {h1, h2}
Symm == Permutations(MCHandles)

Plain == [readdir |-> FALSE, children |-> FALSE, dirMode |-> FALSE,
          slash |-> FALSE, blank |-> FALSE]

\* A file, directories of three kinds, and a blank line of a readdir handler.
MCEntries == {Plain, [Plain EXCEPT !.readdir = TRUE, !.slash = TRUE],
              [Plain EXCEPT !.children = TRUE], [Plain EXCEPT !.dirMode = TRUE],
              [Plain EXCEPT !.blank = TRUE]}
=============================================================================
