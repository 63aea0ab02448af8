------------------------------- MODULE MCFms -------------------------------
(* Instances of the file management system for TLC. *)
EXTENDS FmsSafety, TLC

CONSTANTS f1, f2, n1, n2

Symmetric == Permutations(Fcb) \cup Permutations(Names)

\* The habits of the programs: all of them, and all but one.
Careful == {"busy", "reopen", "share", "exhausted", "append", "unread", "retry", "power"}
Reckless == {"reopen", "power"}
Exhausting == Careful \ {"exhausted"}
AppendingFirst == Careful \ {"append"}

\* How existing files are opened.
AnyMode == {"read", "update", "append"}
WritingMode == {"update", "append"}
AppendMode == {"append"}
NoAppend == {"read", "update"}

\* The disk operations that fail.
NoFaults == {}
Recoverable ==
  {"open", "grow", "read", "link", "rename", "update", "empty", "data", "entry", "record"}
Failing == Recoverable \cup {"append", "write", "assign", "delete", "avail", "excls"}
Assigning == {"assign"}
=============================================================================
