------------------------------ MODULE FmsSafety ------------------------------
(***************************************************************************)
(* What must hold of the file management system (module Fms): who owns a   *)
(* sector, what the disk holds at any moment, and the files it stores.     *)
(***************************************************************************)
EXTENDS Fms

\* The first n sectors of the chain that starts at s; None after its end.
Chain(s, n) ==
  LET p[k \in 1..n] == IF k = 1 THEN s
                       ELSE IF p[k - 1] = None THEN None ELSE link[p[k - 1]]
  IN p

SectorsOf(s, n) == Range(Chain(s, n)) \ {None}
ToEnd(s) == SectorsOf(s, Sectors + 1)

Live == {i \in DOMAIN dir : dir[i].name \notin {Deleted, Never}}
Recorded(i) == SectorsOf(dir[i].fsa, dir[i].fsz)
Held(f) == SectorsOf(fcb[f].fsa, fcb[f].fsz)
DirExt == Range(dirext)

\* What the running system takes for available.
View == IF loaded THEN secmap ELSE sir
Available == ToEnd(View.first)

\* A file that DELETE has begun to remove owns nothing any more.
Files == {i \in Live : ~(call.op = "delete" /\ call.slot = i)}
Owned(i) == Recorded(i) \cup UNION {Held(f) : f \in {g \in Writers : fcb[g].fcd = i}}

-----------------------------------------------------------------------------
\* A sector belongs to one file, to the directory or to the available sectors:
\* two writers, a writer and DELETE, or the directory never get the same one.
NoCrossLink ==
  /\ \A i, j \in Files : i # j => Owned(i) \cap Owned(j) = {}
  /\ \A i \in Files : Owned(i) \cap (Available \cup DirExt) = {}
  /\ DirExt \cap Available = {}

\* Unless sectors were forgotten, the avail pointers are exact: the chain has
\* as many sectors as the count says and ends at the last one, and every sector
\* of the disk is in it or in use.
FreeExact ==
  ~lossy =>
    /\ Cardinality(Available) = View.count
    /\ View.last # None => View.last \in Available /\ link[View.last] = None
    /\ View.first = None <=> View.last = None
    /\ Sector = Available \cup DirExt \cup UNION {Owned(i) : i \in Files}

\* Outside the windows in which CLOSE, DELETE and the growing directory leave it
\* torn, the disk alone is consistent: a restart finds no sector in two chains.
TornOnlyInWindow ==
  ~Window =>
    /\ \A i, j \in Live : i # j => Recorded(i) \cap Recorded(j) = {}
    /\ \A i \in Live : Recorded(i) \cap (ToEnd(sir.first) \cup DirExt) = {}
    /\ DirExt \cap ToEnd(sir.first) = {}

\* A closed file ends at its last sector: the entry's size, end address and the
\* end of the chain on the disk agree (RDNEXT stops at the empty link, APPEND
\* and DELETE continue from the end address).
FilesEnd ==
  \A i \in Files :
    (dir[i].fsa # None /\ ~\E f \in Writers : fcb[f].fcd = i) =>
      /\ Chain(dir[i].fsa, dir[i].fsz)[dir[i].fsz] = dir[i].fea
      /\ link[dir[i].fea] = None

\* A name occurs once in the directory, and the entries that were never used
\* are at its end, where the search stops.
UniqueNames ==
  /\ \A i, j \in Live : dir[i].name = dir[j].name => i = j
  /\ Live \subseteq Searched

\* A block that holds sectors of a file it writes is in the list, where EXCLS
\* finds it, and no block is in the list twice (it would be closed twice).
HeldIsListed ==
  /\ \A f \in Fcb : fcb[f].fas = 2 /\ fcb[f].fsa # None => Listed(f)
  /\ \A k, m \in DOMAIN fcblist : fcblist[k] = fcblist[m] => k = m

\* No two blocks write the same directory entry: the later CLOSE would drop the
\* sectors of the other.
OneWriter == \A f, g \in Writers : fcb[f].fcd = fcb[g].fcd => f = g

\* A file open for reading or update is read to its end and no further.
ReadsOwnFile ==
  \A f \in Fcb :
    (Listed(f) /\ fcb[f].fas \in {1, 3, 131} /\ call.op # "extend") =>
      {fcb[f].fcs, fcb[f].fwd} \subseteq Recorded(fcb[f].fcd) \cup {None}

\* Every call comes to its end.
CallReturns == call # Idle ~> call = Idle

\* Programs may never make another call, but a call in progress goes on.
FairSpec == Spec /\ WF_vars(Continue)

-----------------------------------------------------------------------------
\* The files on the disk, as the abstract store sees them.
Content(i) ==
  LET c == Chain(dir[i].fsa, dir[i].fsz)
  IN [k \in 1..dir[i].fsz |-> IF c[k] = None THEN <<>> ELSE data[c[k]]]

Stored ==
  [n \in {dir[i].name : i \in Live} |-> Content(CHOOSE i \in Live : dir[i].name = n)]

Written(f, k) == Tag(f, k)
Updated(f, i) == Tag(f, Sectors + i)

Store == INSTANCE FileStore WITH files <- Stored, Programs <- Fcb

\* The disk implements the store at every single write, a restart included.
StoreSpec == Store!Spec
=============================================================================
