--------------------------- MODULE MCScpSession ---------------------------
\* Files of up to three bytes, all of which look like a part of a record, a
\* warning or an answer: one file is a whole record.
EXTENDS ScpSession
MCFiles == BoundedSeq({"0", "1", "2", "C", "text", "newline"}, 3)
===========================================================================
