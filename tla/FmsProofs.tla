------------------------------ MODULE FmsProofs ------------------------------
(***************************************************************************)
(* For every set of files, sectors, blocks and names: no call, error or    *)
(* restart takes a block that holds sectors off the list EXCLS closes, two *)
(* blocks never write one directory entry, and a name has one entry, where *)
(* FNDNAM finds it.  Callers reopen no listed block and share no file.     *)
(***************************************************************************)
EXTENDS FmsSafety, SequenceTheorems, WellFoundedInduction, TLAPS

\* The types of the variables: sector addresses and what a sector holds,
Addr == Sector \cup {None}
Tags == {<<>>} \cup (Fcb \X Nat)
Map == [first : Addr, last : Addr, count : Int]
Name == Names \cup {Deleted, Never}

\* An entry, or a block, with a first sector has a last one.
DirEntry ==
  {e \in [name : Name, fsa : Addr, fea : Addr, fsz : Nat] : e.fsa # None => e.fea # None}

\* What a failed CLOSE leaves in the buffer of its block.
DirImage == UNION {[D -> DirEntry] : D \in SUBSET Nat}
Image == {<<>>} \cup DirImage \cup {<<m>> : m \in Map}

\* The transfer that failed before the buffer came to hold what it holds.
Buffered(b) ==
  /\ b.fsb = "old" /\ b.fas = 2 => "assign" \in FaultAt
  /\ b.fsb = "old" /\ b.fas = 131 => "unread" \notin Discipline
  /\ b.fsb = "old" => "read" \in FaultAt \/ "assign" \in FaultAt
  /\ b.fsb = "dir" => "entry" \in FaultAt /\ b.image \in DirImage
  /\ b.fsb = "sir" => "record" \in FaultAt /\ b.image[1] \in Map

Fields ==
  [fas : {0, 1, 2, 3, 131, WTAPP}, name : Name, fcd : Nat, fsa : Addr, fea : Addr,
   fsz : Nat, fcs : Addr, frn : Nat, fwd : Addr, tag : Tags,
   fsb : {"own", "old", "dir", "sir"}, image : Image]

Block == {b \in Fields : (b.fsa # None => b.fea # None) /\ Buffered(b)}

\* The calls that are not over, and where each goes on.
Calls ==
  {Idle, Excls}
    \cup [op : {"close"}, f : Fcb, then : {"return", "excls"}, next : {"entry", "sir"}]
    \cup [op : {"extend"}, f : Fcb, name : Names, next : {"clear", "sir", "entry"}]
    \cup [op : {"delete"}, slot : Nat, next : {"entry", "sir"}]

Types ==
  /\ link \in [Sector -> Addr]
  /\ data \in [Sector -> Tags]
  /\ dir \in Seq(DirEntry)
  /\ sir \in Map
  /\ secmap \in Map
  /\ fcb \in [Fcb -> Block]
  /\ fcblist \in Seq(Fcb)
  /\ call \in Calls

-----------------------------------------------------------------------------
\* The searches of the directory take the first entry: it exists.
LEMMA MinOfNat ==
  ASSUME NEW S, S \subseteq Nat, S # {}
  PROVE  Min(S) \in S /\ \A y \in S : Min(S) <= y
  <1> DEFINE Less == {ss \in Nat \X Nat : ss[1] < ss[2]}
  <1>1. IsWellFoundedOn(Less, Nat)
    BY NatLessThanWellFounded DEF OpToRel
  <1> HIDE DEF Less
  <1>2. PICK x \in S : \A y \in S : <<y, x>> \notin Less
    BY <1>1, WFMin, Zenon
  <1>3. \A y \in S : x <= y
    <2> TAKE y \in S
    <2>1. x \in Nat /\ y \in Nat
      OBVIOUS
    <2>2. <<y, x>> \notin Less
      BY <1>2
    <2>3. y < x => <<y, x>> \in Less
      BY <2>1 DEF Less
    <2> QED  BY <2>1, <2>2, <2>3
  <1> QED  BY <1>3 DEF Min

\* What taking an element out of a sequence leaves.
LEMMA RemoveProperties ==
  ASSUME NEW S, NEW s \in Seq(S), NEW i \in 1..Len(s)
  PROVE  /\ RemoveAt(s, i) \in Seq(S)
         /\ Len(RemoveAt(s, i)) = Len(s) - 1
         /\ \A k \in 1..(Len(s) - 1) :
              RemoveAt(s, i)[k] = IF k < i THEN s[k] ELSE s[k + 1]
  <1> DEFINE a == SubSeq(s, 1, i - 1)
             b == SubSeq(s, i + 1, Len(s))
  <1>0. Len(s) \in Nat /\ \A k \in 1..Len(s) : s[k] \in S
    OBVIOUS
  <1>1. /\ a \in Seq(S) /\ Len(a) = i - 1
        /\ \A k \in 1..(i - 1) : a[k] = s[k]
    <2>1. \A k \in 1..(i - 1) : s[k] \in S
      BY <1>0
    <2> HIDE DEF a
    <2>2. /\ a \in Seq(S)
          /\ Len(a) = IF 1 <= i - 1 THEN i - 1 - 1 + 1 ELSE 0
          /\ \A k \in 1..(i - 1 - 1 + 1) : a[k] = s[1 + k - 1]
      BY <1>0, <2>1, SubSeqProperties DEF a
    <2> QED  BY <2>2, <1>0
  <1>2. /\ b \in Seq(S) /\ Len(b) = Len(s) - i
        /\ \A k \in 1..(Len(s) - i) : b[k] = s[i + k]
    <2>1. \A k \in (i + 1)..Len(s) : s[k] \in S
      BY <1>0
    <2> HIDE DEF b
    <2>2. /\ b \in Seq(S)
          /\ Len(b) = IF i + 1 <= Len(s) THEN Len(s) - (i + 1) + 1 ELSE 0
          /\ \A k \in 1..(Len(s) - (i + 1) + 1) : b[k] = s[i + 1 + k - 1]
      BY <1>0, <2>1, SubSeqProperties DEF b
    <2> QED  BY <2>2, <1>0
  <1> HIDE DEF a, b
  <1>3. /\ a \o b \in Seq(S) /\ Len(a \o b) = Len(a) + Len(b)
        /\ \A k \in 1..(Len(a) + Len(b)) :
             (a \o b)[k] = IF k <= Len(a) THEN a[k] ELSE b[k - Len(a)]
    BY <1>1, <1>2, ConcatProperties
  <1>4. RemoveAt(s, i) = a \o b
    BY DEF RemoveAt, a, b
  <1>5. \A k \in 1..(Len(s) - 1) : (a \o b)[k] = IF k < i THEN s[k] ELSE s[k + 1]
    <2> TAKE k \in 1..(Len(s) - 1)
    <2>1. CASE k < i
      BY <1>0, <1>1, <1>2, <1>3, <2>1
    <2>2. CASE k >= i
      <3>1. (a \o b)[k] = b[k - (i - 1)]
        BY <1>0, <1>1, <1>2, <1>3, <2>2
      <3>2. k - (i - 1) \in 1..(Len(s) - i) /\ i + (k - (i - 1)) = k + 1
        BY <1>0, <2>2
      <3> QED  BY <3>1, <3>2, <1>2, <2>2
    <2>3. k < i \/ k >= i
      BY <1>0
    <2> QED  BY <2>1, <2>2, <2>3
  <1> QED  BY <1>0, <1>1, <1>2, <1>3, <1>4, <1>5

\* What REMFCB does to the list.
LEMMA RemfcbProperties ==
  ASSUME NEW f \in Fcb, fcblist \in Seq(Fcb),
         \A k, m \in DOMAIN fcblist : fcblist[k] = fcblist[m] => k = m
  PROVE  /\ REMFCB(f) \in Seq(Fcb)
         /\ \A k, m \in DOMAIN REMFCB(f) : REMFCB(f)[k] = REMFCB(f)[m] => k = m
         /\ Range(REMFCB(f)) = Range(fcblist) \ {f}
  <1>0. /\ Len(fcblist) \in Nat /\ DOMAIN fcblist = 1..Len(fcblist)
        /\ \A k \in DOMAIN fcblist : fcblist[k] \in Fcb
    OBVIOUS
  <1>1. CASE ~Listed(f)
    BY <1>1 DEF REMFCB, Listed
  <1>2. CASE Listed(f)
    <2> DEFINE i == CHOOSE k \in DOMAIN fcblist : fcblist[k] = f
               t == RemoveAt(fcblist, i)
               n == Len(fcblist)
    <2>1. i \in 1..n /\ fcblist[i] = f
      BY <1>0, <1>2 DEF Listed, Range
    <2> HIDE DEF i
    <2>2. /\ t \in Seq(Fcb) /\ Len(t) = n - 1
          /\ \A k \in 1..(n - 1) :
               t[k] = IF k < i THEN fcblist[k] ELSE fcblist[k + 1]
      BY <2>1, RemoveProperties
    <2>3. REMFCB(f) = t
      BY <1>2 DEF REMFCB, i
    <2> HIDE DEF t
    <2>4. DOMAIN t = 1..(n - 1)
      BY <2>2
    <2>5. \A k, m \in DOMAIN t : t[k] = t[m] => k = m
      <3> SUFFICES ASSUME NEW k \in 1..(n - 1), NEW m \in 1..(n - 1), t[k] = t[m]
                   PROVE  k = m
        BY <2>4
      <3> DEFINE kk == IF k < i THEN k ELSE k + 1
                 mm == IF m < i THEN m ELSE m + 1
      <3>1. kk \in 1..n /\ mm \in 1..n
        BY <1>0, <2>1
      <3>2. t[k] = fcblist[kk] /\ t[m] = fcblist[mm]
        BY <2>2
      <3>3. kk = mm
        BY <1>0, <3>1, <3>2
      <3> QED  BY <1>0, <2>1, <3>3
    <2>6. \A g : g \in Range(t) <=> g \in Range(fcblist) \ {f}
      <3> TAKE g
      <3>1. ASSUME g \in Range(t)  PROVE g \in Range(fcblist) /\ g # f
        <4>1. PICK k \in 1..(n - 1) : g = t[k]
          BY <2>4, <3>1 DEF Range
        <4> DEFINE kk == IF k < i THEN k ELSE k + 1
        <4>2. kk \in 1..n /\ kk # i
          BY <1>0, <2>1
        <4>3. g = fcblist[kk]
          BY <2>2, <4>1
        <4> QED  BY <1>0, <2>1, <4>2, <4>3 DEF Range
      <3>2. ASSUME g \in Range(fcblist), g # f  PROVE g \in Range(t)
        <4>1. PICK k \in 1..n : g = fcblist[k]
          BY <1>0, <3>2 DEF Range
        <4>2. k # i
          BY <2>1, <3>2, <4>1
        <4> DEFINE kk == IF k < i THEN k ELSE k - 1
        <4>3. kk \in 1..(n - 1) /\ t[kk] = fcblist[k]
          BY <1>0, <2>1, <2>2, <4>2
        <4> QED  BY <2>4, <4>1, <4>3 DEF Range
      <3> QED  BY <3>1, <3>2
    <2> QED  BY <2>2, <2>3, <2>5, <2>6
  <1> QED  BY <1>1, <1>2

\* What SETFCB does to the list.
LEMMA SetfcbProperties ==
  ASSUME NEW f \in Fcb, fcblist \in Seq(Fcb), ~Listed(f),
         \A k, m \in DOMAIN fcblist : fcblist[k] = fcblist[m] => k = m
  PROVE  /\ SETFCB(f) \in Seq(Fcb)
         /\ \A k, m \in DOMAIN SETFCB(f) : SETFCB(f)[k] = SETFCB(f)[m] => k = m
         /\ Range(SETFCB(f)) = Range(fcblist) \cup {f}
  <1> DEFINE t == SETFCB(f)
             n == Len(fcblist)
  <1>1. /\ t \in Seq(Fcb) /\ Len(t) = n + 1 /\ n \in Nat
        /\ \A k \in 1..n : t[k] = fcblist[k]
        /\ t[n + 1] = f
    BY AppendProperties DEF SETFCB
  <1> HIDE DEF t
  <1>2. DOMAIN t = 1..(n + 1) /\ DOMAIN fcblist = 1..n
    BY <1>1
  <1>3. \A k \in 1..n : fcblist[k] # f
    BY <1>2 DEF Listed, Range
  <1>4. \A k, m \in DOMAIN t : t[k] = t[m] => k = m
    BY <1>1, <1>2, <1>3
  <1>5. \A g : g \in Range(t) <=> g \in Range(fcblist) \cup {f}
    BY <1>1, <1>2 DEF Range
  <1> QED  BY <1>1, <1>4, <1>5 DEF t

-----------------------------------------------------------------------------
\* FNDNAM's entry has the name it looked for.
LEMMA FoundEntry ==
  ASSUME Types, NEW n, Found(n) # {}
  PROVE  /\ FNDNAM(n) \in Found(n)
         /\ FNDNAM(n) \in 1..Len(dir)
         /\ dir[FNDNAM(n)] \in DirEntry
         /\ dir[FNDNAM(n)].name = n
  <1>1. DOMAIN dir = 1..Len(dir) /\ Len(dir) \in Nat /\ \A i \in 1..Len(dir) : dir[i] \in DirEntry
    BY DEF Types
  <1>2. Found(n) \subseteq 1..Len(dir) /\ \A i \in Found(n) : dir[i].name = n
    BY <1>1 DEF Found, Searched
  <1>3. FNDNAM(n) \in Found(n)
    BY <1>1, <1>2, MinOfNat DEF FNDNAM
  <1> QED  BY <1>1, <1>2, <1>3

\* The entry OPNWT reuses is in the directory.
LEMMA ReusableEntry ==
  ASSUME Types, Reusable # {}
  PROVE  /\ FirstDeleted \in Reusable
         /\ FirstDeleted \in 1..Len(dir)
  <1>1. DOMAIN dir = 1..Len(dir) /\ Len(dir) \in Nat
    BY DEF Types
  <1>2. Reusable \subseteq 1..Len(dir)
    BY <1>1 DEF Reusable, Searched
  <1>3. Min(Reusable) \in Reusable
    <2>1. Reusable \subseteq Nat
      BY <1>1, <1>2
    <2> HIDE DEF Reusable
    <2> QED  BY <2>1, MinOfNat, Zenon
  <1>4. FirstDeleted \in Reusable
    BY <1>3, Zenon DEF FirstDeleted
  <1> QED  BY <1>2, <1>4

\* What a directory write changes.
LEMMA WriteEntryTypes ==
  ASSUME Types, NEW i, NEW e \in DirEntry, WriteEntry(i, e)
  PROVE  /\ dir' \in Seq(DirEntry)
         /\ Len(dir') = Len(dir)
         /\ \A k \in 1..Len(dir) : dir'[k] = IF k = i THEN e ELSE dir[k]
  <1>1. dir \in Seq(DirEntry) /\ Len(dir) \in Nat
    BY DEF Types
  <1>2. dir' = [dir EXCEPT ![i] = e]
    BY DEF WriteEntry
  <1>3. CASE i \in 1..Len(dir)
    BY <1>1, <1>2, <1>3, ExceptSeq
  <1>4. CASE i \notin 1..Len(dir)
    <2>1. dir' = dir
      BY <1>1, <1>2, <1>4
    <2> QED  BY <1>1, <1>4, <2>1
  <1> QED  BY <1>3, <1>4

\* A data write leaves typed links and data, good or not.
LEMMA WriteDataTypes ==
  ASSUME Types, NEW s, NEW a \in Addr, NEW t \in Tags, WriteData(s, a, t)
  PROVE  link' \in [Sector -> Addr] /\ data' \in [Sector -> Tags]
  BY DEF Types, WriteData

\* The values the actions write.
LEMMA Values ==
  /\ NoAvail \in Map
  /\ None \in Addr
  /\ \A n \in Name : NoFile(n) \in DirEntry
  /\ Blank \in Block
  /\ Names \subseteq Name /\ Never \in Name /\ Deleted \in Name
  /\ \A f \in Fcb, k \in Nat : Tag(f, k) \in Tags
  <1>1. None \in Addr /\ NoAvail \in Map
    BY DEF Addr, NoAvail, Map, None
  <1>2. Names \subseteq Name /\ Never \in Name /\ Deleted \in Name
    BY DEF Name
  <1>3. \A n \in Name : NoFile(n) \in DirEntry
    BY <1>1 DEF NoFile, Entry, DirEntry
  <1>4. <<>> \in Tags /\ <<>> \in Image
    BY DEF Tags, Image
  <1>5. Blank \in Block
    BY <1>1, <1>2, <1>4 DEF Blank, Block, Fields, Buffered
  <1>6. \A f \in Fcb, k \in Nat : Tag(f, k) \in Tags
    BY DEF Tag, Tags
  <1> QED  BY <1>1, <1>2, <1>3, <1>5, <1>6

\* GETAVL and taking its first sector give a map of free sectors.
LEMMA MapTypes ==
  ASSUME Types
  PROVE  /\ GETAVL \in Map
         /\ \A m \in Map : m.first # None => TakeFirst(m) \in Map
  <1>1. GETAVL \in Map
    BY DEF Types, GETAVL
  <1>2. \A m \in Map : m.first # None => TakeFirst(m) \in Map
    <2> SUFFICES ASSUME NEW m \in Map, m.first # None  PROVE TakeFirst(m) \in Map
      OBVIOUS
    <2>1. link[m.first] \in Addr
      BY DEF Types, Map, Addr
    <2>2. ASSUME NEW a \in Addr, NEW c \in Int
          PROVE  [m EXCEPT !.first = a, !.count = c] \in Map
      BY DEF Map
    <2>3. m.count - 1 \in Int
      BY DEF Map
    <2>4. [m EXCEPT !.first = link[m.first], !.count = @ - 1] \in Map
      BY <2>1, <2>2, <2>3
    <2> QED  BY <2>4, Values DEF TakeFirst
  <1> QED  BY <1>1, <1>2

\* Block b is for the same file as block c, and is written like it.
SameFile(b, c) == (b.fas = 2 <=> c.fas = 2) /\ b.fcd = c.fcd /\ b.name = c.name

\* RDNEX2 changes the buffer and the current sector of a block.
LEMMA ReadsTypes ==
  ASSUME Types, NEW b \in Block, NEW s \in Addr, s # None
  PROVE  /\ Reads(b, s) \in Block /\ SameFile(Reads(b, s), b) /\ Reads(b, s).fas = b.fas
         /\ (/\ b.fas = 2 => "assign" \in FaultAt
             /\ "read" \in FaultAt \/ "assign" \in FaultAt
             /\ b.fas = 131 => "unread" \notin Discipline)
            => \A fwd \in Arrived(b, s) :
                 /\ Unread(b, s, fwd) \in Block /\ SameFile(Unread(b, s, fwd), b)
                 /\ Unread(b, s, fwd).fas = b.fas
  <1>1. link[s] \in Addr /\ data[s] \in Tags
    BY DEF Types, Addr
  <1>2. Arrived(b, s) \subseteq Addr
    BY <1>1 DEF Arrived, Block, Fields
  <1>3. ASSUME NEW a \in Addr, NEW t \in Tags
        PROVE  LET d == [b EXCEPT !.fcs = s, !.fwd = a, !.tag = t, !.fsb = "own"]
               IN  d \in Block /\ SameFile(d, b) /\ d.fas = b.fas
    BY DEF Block, Fields, SameFile, Buffered
  <1>4. ASSUME NEW a \in Addr,
               b.fas = 2 => "assign" \in FaultAt, b.fas = 131 => "unread" \notin Discipline,
               "read" \in FaultAt \/ "assign" \in FaultAt
        PROVE  LET d == [b EXCEPT !.fcs = s, !.fwd = a, !.fsb = "old"]
               IN  d \in Block /\ SameFile(d, b) /\ d.fas = b.fas
    BY <1>4 DEF Block, Fields, SameFile, Buffered
  <1> QED  BY <1>1, <1>2, <1>3, <1>4 DEF Reads, Unread

\* FNDNAM fills a block from the entry it found.
LEMMA EntryBlock ==
  ASSUME Types, NEW i \in 1..Len(dir), dir[i] \in DirEntry
  PROVE  /\ FromEntry(i) \in Block
         /\ FromEntry(i).fsa = dir[i].fsa /\ FromEntry(i).fea = dir[i].fea
         /\ FromEntry(i).fas = 0 /\ FromEntry(i).fcd = i
         /\ FromEntry(i).name = dir[i].name
  <1>1. Blank \in Block
    BY Values
  <1>2. /\ dir[i].name \in Name /\ dir[i].fsa \in Addr /\ dir[i].fea \in Addr
        /\ dir[i].fsz \in Nat /\ (dir[i].fsa # None => dir[i].fea # None)
        /\ i \in Nat
    BY DEF DirEntry, Types
  <1>3. <<>> \in Image
    BY DEF Image
  <1> QED  BY <1>1, <1>2, <1>3 DEF FromEntry, Blank, Block, Fields, Buffered

\* Types, action by action.
LEMMA InitTypes == Init => Types
  <1> SUFFICES ASSUME Init PROVE Types
    OBVIOUS
  <1>1. link \in [Sector -> Addr] /\ data \in [Sector -> Tags]
    BY SizeAssumption, Values DEF Init, Sector, Addr, Tags
  <1>2. dir \in Seq(DirEntry)
    <2>1. NoFile(Never) \in DirEntry
      BY Values
    <2> QED  BY <2>1, SizeAssumption DEF Init
  <1>3. sir \in Map /\ secmap \in Map
    BY SizeAssumption, Values DEF Init, Map, Addr, Sector
  <1>4. fcb \in [Fcb -> Block] /\ fcblist \in Seq(Fcb) /\ call \in Calls
    BY Values DEF Init, Calls
  <1> QED  BY <1>1, <1>2, <1>3, <1>4 DEF Types

\* Only one block changes at a time.
LEMMA BlockUpdate ==
  ASSUME Types, NEW f \in Fcb, NEW b \in Block, fcb' = [fcb EXCEPT ![f] = b]
  PROVE  fcb' \in [Fcb -> Block]
  BY DEF Types

\* What the end of a CLOSE leaves.
LEMMA ClosedTypes ==
  ASSUME Types, NEW f \in Fcb, NEW then, Closed(f, then),
         \A k, m \in DOMAIN fcblist : fcblist[k] = fcblist[m] => k = m
  PROVE  /\ fcb' \in [Fcb -> Block] /\ fcblist' \in Seq(Fcb)
         /\ secmap' \in Map /\ call' \in Calls
  <1>1. fcb' \in [Fcb -> Block]
    BY Values, BlockUpdate DEF Closed
  <1>2. fcblist' \in Seq(Fcb)
    BY RemfcbProperties DEF Closed, Types
  <1> QED  BY <1>1, <1>2 DEF Closed, Types, Calls

\* A restart empties memory; the disk keeps its types.
LEMMA InitStepTypes ==
  ASSUME INIT
  PROVE  /\ fcb' \in [Fcb -> Block] /\ fcblist' \in Seq(Fcb)
         /\ secmap' \in Map /\ call' \in Calls
  BY Values DEF INIT, Calls

\* A failed CLOSE leaves the block as its error path says.
LEMMA CloseFailsTypes ==
  ASSUME Types, NEW f \in Fcb, NEW then, NEW b \in Block, CloseFails(f, then, b)
  PROVE  /\ fcb' \in [Fcb -> Block] /\ fcblist' \in Seq(Fcb)
         /\ secmap' \in Map /\ call' \in Calls
  <1>1. CASE INIT
    BY <1>1, InitStepTypes
  <1>2. CASE ~INIT
    BY <1>2, BlockUpdate DEF CloseFails, Types, Calls
  <1> QED  BY <1>1, <1>2

\* ASNNXT takes a sector off the map; the block keeps its file.
LEMMA AssignTypes ==
  ASSUME Types, NEW f \in Fcb, NEW b \in Block, b.fas = 2, secmap.first # None, ASNNXT(f, b)
  PROVE  /\ \E c \in Block : fcb' = [fcb EXCEPT ![f] = c] /\ SameFile(c, b)
         /\ secmap' \in Map
  <1>1. secmap \in Map /\ secmap.first \in Addr
    BY DEF Types, Map
  <1>2. secmap' \in Map
    BY <1>1, MapTypes DEF ASNNXT
  <1> DEFINE new == secmap.first
             c == Assigned(b, new)
             d == [c EXCEPT !.fcs = new, !.frn = b.frn + 1, !.fwd = None,
                            !.tag = Tag(f, b.frn + 1), !.fsb = "own"]
  <1>3. Tag(f, b.frn + 1) \in Tags /\ b.frn + 1 \in Nat
    BY Values DEF Block, Fields
  <1>4. c \in Block /\ SameFile(c, b) /\ c.fas = 2
    <2>1. ASSUME NEW a \in Addr, NEW z \in Nat, NEW k \in Addr, k # None
          PROVE  LET e == [b EXCEPT !.fea = k, !.fsz = z, !.fsa = a]
                 IN  e \in Block /\ SameFile(e, b) /\ e.fas = 2
      BY <2>1 DEF Block, Fields, SameFile, Buffered
    <2>2. b.fsz + 1 \in Nat
      BY DEF Block, Fields
    <2>3. (IF b.fsa = None THEN new ELSE b.fsa) \in Addr
      BY <1>1 DEF Block, Fields
    <2> QED  BY <1>1, <2>1, <2>2, <2>3 DEF Assigned
  <1>5. CASE fcb' = [fcb EXCEPT ![f] = d]
    <2> HIDE DEF c
    <2>1. ASSUME NEW t \in Tags, NEW k \in Nat
          PROVE  LET e == [c EXCEPT !.fcs = new, !.frn = k, !.fwd = None, !.tag = t, !.fsb = "own"]
                 IN  e \in Block /\ SameFile(e, b)
      <3> DEFINE e == [c EXCEPT !.fcs = new, !.frn = k, !.fwd = None, !.tag = t, !.fsb = "own"]
      <3>1. /\ e.fsb = "own" /\ e.fas = c.fas /\ e.fcd = c.fcd /\ e.name = c.name
            /\ e.fsa = c.fsa /\ e.fea = c.fea
        BY <1>4 DEF Block, Fields
      <3>2. c.fsa # None => c.fea # None
        BY <1>4 DEF Block, Fields
      <3> HIDE DEF new
      <3>3. new \in Addr
        BY <1>1 DEF new
      <3>4. e \in {x \in Fields : x.fsa # None => x.fea # None}
        BY <1>4, <3>1, <3>2, <3>3, Values DEF Block, Fields
      <3> SUFFICES e \in Block /\ SameFile(e, b)
        OBVIOUS
      <3> HIDE DEF e
      <3> QED  BY <1>4, <3>1, <3>4 DEF Block, Fields, Buffered, SameFile
    <2>2. d \in Block /\ SameFile(d, b)
      BY <1>3, <2>1
    <2> HIDE DEF d
    <2> QED  BY <1>2, <1>5, <2>2
  <1>6. ASSUME Fault("assign"), NEW fwd \in Arrived(b, new),
               fcb' = [fcb EXCEPT ![f] = Unread(c, new, fwd)]
        PROVE  \E g \in Block : fcb' = [fcb EXCEPT ![f] = g] /\ SameFile(g, b)
    <2>1. fwd \in Arrived(c, new) /\ "assign" \in FaultAt
      BY <1>6 DEF Arrived, Assigned, Fault, May, Block, Fields
    <2> HIDE DEF c, new
    <2>2. Unread(c, new, fwd) \in Block /\ SameFile(Unread(c, new, fwd), c)
      BY <1>1, <1>4, <2>1, ReadsTypes DEF new
    <2> QED  BY <1>4, <1>6, <2>2 DEF SameFile
  <1>7. \/ fcb' = [fcb EXCEPT ![f] = d]
        \/ /\ Fault("assign")
           /\ \E fwd \in Arrived(b, new) : fcb' = [fcb EXCEPT ![f] = Unread(c, new, fwd)]
    BY DEF ASNNXT
  <1> QED  BY <1>2, <1>5, <1>6, <1>7

\* A block is on the list at most once.
NoTwice == \A k, m \in DOMAIN fcblist : fcblist[k] = fcblist[m] => k = m

\* The block an open of an existing file fills.
LEMMA OpensBlock ==
  ASSUME Types, NEW f \in Fcb, NEW n \in Names,
         OpenRead(f, n) \/ OpenUpdate(f, n) \/ OpenAppend(f, n)
  PROVE  /\ ~Listed(f) /\ fcblist' = SETFCB(f)
         /\ CallerOwns(n) /\ Found(n) # {} /\ UNCHANGED <<dir, call>>
         /\ \E b \in Block : /\ fcb' = [fcb EXCEPT ![f] = b]
                            /\ b.fcd = FNDNAM(n) /\ b.name = n
  <1>0. /\ ~Listed(f) /\ fcblist' = SETFCB(f)
        /\ CallerOwns(n) /\ Found(n) # {} /\ UNCHANGED <<dir, call>>
    BY DEF OpenRead, OpenUpdate, OpenAppend, disk
  <1> DEFINE i == FNDNAM(n)
             e == FromEntry(i)
  <1>1. e \in Block /\ e.fcd = i /\ e.name = n
    BY <1>0, FoundEntry, EntryBlock
  <1>2. CASE OpenRead(f, n)
    <2> DEFINE new == [e EXCEPT !.fas = 1, !.fwd = e.fsa]
    <2>1. fcb' = [fcb EXCEPT ![f] = new]
      BY <1>2 DEF OpenRead
    <2>4. e.fsb = "own"
      BY DEF FromEntry, Blank
    <2> HIDE DEF e
    <2>2. new \in Fields /\ new.fcd = i /\ new.name = n
      BY <1>1 DEF Block, Fields
    <2>3. new.fas = 1 /\ new.fsa = e.fsa /\ new.fea = e.fea /\ new.fsb = "own"
      BY <1>1, <2>4 DEF Block, Fields
    <2> HIDE DEF new
    <2>5. new \in Block
      BY <1>1, <2>2, <2>3 DEF Block, Buffered
    <2> QED  BY <1>0, <2>1, <2>2, <2>5
  <1>3. CASE OpenUpdate(f, n)
    <2> DEFINE u == [e EXCEPT !.fas = 3]
               b == [u EXCEPT !.frn = 1, !.fwd = u.fsa]
    <2>1. \/ fcb' = [fcb EXCEPT ![f] = u]
          \/ u.fsa # None /\ fcb' = [fcb EXCEPT ![f] = Reads(b, u.fsa)]
          \/ /\ u.fsa # None /\ Fault("read")
             /\ \E fwd \in Arrived(b, u.fsa) : fcb' = [fcb EXCEPT ![f] = Unread(b, u.fsa, fwd)]
      BY <1>3, Zenon DEF OpenUpdate
    <2> HIDE DEF e
    <2>2. u \in Block /\ u.fcd = i /\ u.name = n /\ u.fas = 3
      BY <1>1 DEF Block, Fields, Buffered
    <2> HIDE DEF u
    <2>3. b \in Block /\ b.fcd = i /\ b.name = n /\ b.fas = 3 /\ u.fsa \in Addr
      BY <2>2 DEF Block, Fields, Buffered
    <2> HIDE DEF b
    <2>4. CASE fcb' = [fcb EXCEPT ![f] = u]
      BY <1>0, <2>2, <2>4
    <2>5. CASE u.fsa # None /\ fcb' = [fcb EXCEPT ![f] = Reads(b, u.fsa)]
      <3>1. Reads(b, u.fsa) \in Block /\ SameFile(Reads(b, u.fsa), b)
        BY <2>3, <2>5, ReadsTypes
      <3> QED  BY <1>0, <2>3, <2>5, <3>1 DEF SameFile
    <2>6. ASSUME u.fsa # None, Fault("read"), NEW fwd \in Arrived(b, u.fsa),
                 fcb' = [fcb EXCEPT ![f] = Unread(b, u.fsa, fwd)]
          PROVE  \E c \in Block : /\ fcb' = [fcb EXCEPT ![f] = c]
                                  /\ c.fcd = FNDNAM(n) /\ c.name = n
      <3>1. Unread(b, u.fsa, fwd) \in Block /\ SameFile(Unread(b, u.fsa, fwd), b)
        BY <2>3, <2>6, ReadsTypes DEF Fault, May
      <3> QED  BY <2>3, <2>6, <3>1 DEF SameFile
    <2> QED  BY <1>0, <2>1, <2>4, <2>5, <2>6
  <1>4. CASE OpenAppend(f, n)
    <2> DEFINE w == [e EXCEPT !.fas = 2]
               bad == [e EXCEPT !.fas = WTAPP]
    <2>1. fcb' = [fcb EXCEPT ![f] = Reads(w, e.fea)] \/ fcb' = [fcb EXCEPT ![f] = bad]
      BY <1>4 DEF OpenAppend
    <2>2. e.fea # None
      BY <1>4, FoundEntry, EntryBlock DEF OpenAppend, DirEntry
    <2>3. e.fsb = "own"
      BY DEF FromEntry, Blank
    <2> HIDE DEF e
    <2>4. w \in Block /\ w.fcd = i /\ w.name = n /\ e.fea \in Addr
      BY <1>1, <2>3 DEF Block, Fields, Buffered
    <2>5. bad \in Block /\ bad.fcd = i /\ bad.name = n
      BY <1>1 DEF Block, Fields, Buffered, WTAPP
    <2> HIDE DEF w, bad
    <2>6. /\ Reads(w, e.fea) \in Block
          /\ Reads(w, e.fea).fcd = i /\ Reads(w, e.fea).name = n
      BY <2>2, <2>4, ReadsTypes DEF SameFile
    <2> QED  BY <1>0, <2>1, <2>5, <2>6
  <1> QED  BY <1>2, <1>3, <1>4

\* The block a create fills.
LEMMA CreatesBlock ==
  ASSUME Types, NEW f \in Fcb, NEW n \in Names, OpenWrite(f, n)
  PROVE  \E b \in Block : /\ fcb' = [fcb EXCEPT ![f] = b]
                         /\ b.fas = 2 /\ b.name = n /\ b.fsa = None
                         /\ b.fcd = FirstDeleted /\ b.fcd # 0
  <1> DEFINE new == [Blank EXCEPT !.fas = 2, !.name = n, !.fcd = FirstDeleted]
  <1>1. FirstDeleted \in Nat /\ FirstDeleted # 0
    BY ReusableEntry DEF OpenWrite, Types
  <1>2. /\ new \in Block /\ new.fas = 2 /\ new.name = n /\ new.fsa = None
        /\ new.fcd = FirstDeleted
    BY <1>1, Values DEF Block, Fields, Blank, Buffered
  <1>3. fcb' = [fcb EXCEPT ![f] = new]
    BY DEF OpenWrite
  <1> HIDE DEF new
  <1> QED  BY <1>1, <1>2, <1>3

\* The block for which the directory grows.
LEMMA ExtendsBlock ==
  ASSUME Types, NEW f \in Fcb, NEW n \in Names, DirExtend(f, n)
  PROVE  \E b \in Block : /\ fcb' = [fcb EXCEPT ![f] = b]
                         /\ b.fsa = None /\ b.fcd = 0
  <1> DEFINE new == [Blank EXCEPT !.fas = fcb[f].fas]
  <1>1. new \in Block /\ new.fsa = None /\ new.fcd = 0
    BY Values DEF Block, Fields, Blank, Buffered, Types
  <1>2. fcb' = [fcb EXCEPT ![f] = new]
    BY DEF DirExtend
  <1> HIDE DEF new
  <1> QED  BY <1>1, <1>2

LEMMA OpeningTypes ==
  ASSUME Types, NoTwice, NEW f \in Fcb, NEW n \in Names, Opening(f, n)
  PROVE  Types'
  <1>1. CASE OpenWriteBusy(f)
    <2>1. fcblist' \in Seq(Fcb)
      BY <1>1, RemfcbProperties DEF OpenWriteBusy, Types, NoTwice
    <2> QED  BY <1>1, <2>1 DEF OpenWriteBusy, Types, disk
  <1>2. CASE OpenWriteExists(f, n)
    BY <1>2, MapTypes DEF OpenWriteExists, Types, disk
  <1>3. CASE OpenWrite(f, n)
    <2>3. NoFile(n) \in DirEntry
      BY Values
    <2>4. fcb' \in [Fcb -> Block]
      BY <1>3, CreatesBlock, BlockUpdate
    <2>5. dir' \in Seq(DirEntry)
      <3>1. CASE WriteEntry(FirstDeleted, NoFile(n))
        BY <2>3, <3>1, WriteEntryTypes
      <3>2. CASE UNCHANGED dir
        BY <3>2 DEF Types
      <3> QED  BY <1>3, <3>1, <3>2 DEF OpenWrite
    <2>6. fcblist' \in Seq(Fcb)
      <3>1. SETFCB(f) \in Seq(Fcb)
        BY <1>3, SetfcbProperties DEF OpenWrite, Types, NoTwice
      <3> QED  BY <1>3, <3>1 DEF OpenWrite, Types
    <2>7. secmap' \in Map
      BY <1>3, MapTypes DEF OpenWrite
    <2>8. UNCHANGED <<link, data, sir, call>>
      BY <1>3 DEF OpenWrite
    <2> QED  BY <2>4, <2>5, <2>6, <2>7, <2>8 DEF Types
  <1>4. CASE DirExtend(f, n)
    <2>2. fcb' \in [Fcb -> Block]
      BY <1>4, ExtendsBlock, BlockUpdate
    <2>3. secmap' \in Map
      BY <1>4, MapTypes DEF DirExtend
    <2>4. fcblist' \in Seq(Fcb)
      <3>1. SETFCB(f) \in Seq(Fcb)
        BY <1>4, SetfcbProperties DEF DirExtend, Types, NoTwice
      <3> QED  BY <1>4, <3>1 DEF DirExtend, Types
    <2>5. call' \in Calls
      BY <1>4 DEF DirExtend, Types, Calls
    <2>6. UNCHANGED <<link, data, dir, sir>>
      BY <1>4 DEF DirExtend
    <2> QED  BY <2>2, <2>3, <2>4, <2>5, <2>6 DEF Types
  <1>5. CASE OpenFails(f, n)
    BY <1>5 DEF OpenFails, vars, disk, memory, Types
  <1>6. CASE OpenRead(f, n) \/ OpenUpdate(f, n) \/ OpenAppend(f, n)
    <2>1. PICK b \in Block :
            fcb' = [fcb EXCEPT ![f] = b] /\ ~Listed(f) /\ fcblist' = SETFCB(f)
      BY <1>6, OpensBlock
    <2>2. fcb' \in [Fcb -> Block] /\ fcblist' \in Seq(Fcb)
      BY <2>1, BlockUpdate, SetfcbProperties DEF Types, NoTwice
    <2>3. UNCHANGED <<link, data, dir, sir, secmap, call>>
      BY <1>6 DEF OpenRead, OpenUpdate, OpenAppend, disk
    <2> QED  BY <2>2, <2>3 DEF Types
  <1> QED
    BY <1>1, <1>2, <1>3, <1>4, <1>5, <1>6 DEF Opening

\* A repeated CLOSE writes entries, or avail pointers, of their types.
LEMMA CloseAgainTypes ==
  ASSUME Types, NEW f \in Fcb, NEW then, CloseAgain(f, then)
  PROVE  dir' \in Seq(DirEntry) /\ Len(dir') = Len(dir) /\ sir' \in Map
  <1>0. fcb[f] \in Block /\ dir \in Seq(DirEntry) /\ sir \in Map
    BY DEF Types
  <1>1. CASE UNCHANGED <<dir, sir>>
    BY <1>0, <1>1
  <1>2. CASE fcb[f].fsb = "sir" /\ sir' = fcb[f].image[1] /\ UNCHANGED dir
    BY <1>0, <1>2 DEF Block, Fields, Buffered
  <1> DEFINE image == fcb[f].image
             new == [i \in DOMAIN dir |-> IF i \in DOMAIN image THEN image[i] ELSE dir[i]]
  <1>3. CASE fcb[f].fsb = "dir" /\ dir' = new /\ UNCHANGED sir
    <2>1. image \in DirImage
      BY <1>0, <1>3 DEF Block, Fields, Buffered
    <2>2. \A i \in DOMAIN image : image[i] \in DirEntry
      BY <2>1 DEF DirImage
    <2> HIDE DEF image
    <2>3. /\ DOMAIN dir = 1..Len(dir) /\ Len(dir) \in Nat
          /\ \A i \in 1..Len(dir) : dir[i] \in DirEntry
      BY <1>0
    <2>4. new \in [1..Len(dir) -> DirEntry]
      BY <2>2, <2>3
    <2> HIDE DEF new
    <2> QED  BY <1>0, <1>3, <2>3, <2>4
  <1> QED  BY <1>1, <1>2, <1>3 DEF CloseAgain

LEMMA CloseTypes ==
  ASSUME Types, NoTwice, NEW f \in Fcb, NEW then \in {"return", "excls"}, CLOSE(f, then)
  PROVE  Types'
  <1>1. fcb[f] \in Block
    BY DEF Types
  <1>2. CASE CloseRead(f, then)
    <2>1. link' \in [Sector -> Addr] /\ data' \in [Sector -> Tags]
      <3>1. CASE WriteData(fcb[f].fcs, fcb[f].fwd, fcb[f].tag)
        BY <1>1, <3>1, WriteDataTypes DEF Block, Fields
      <3>2. CASE UNCHANGED <<link, data>>
        BY <3>2 DEF Types
      <3> QED  BY <1>2, <3>1, <3>2 DEF CloseRead
    <2>2. [fcb[f] EXCEPT !.fas = 3] \in Block
      BY <1>1 DEF Block, Fields, Buffered
    <2>3. /\ fcb' \in [Fcb -> Block] /\ fcblist' \in Seq(Fcb)
          /\ secmap' \in Map /\ call' \in Calls
      <3>1. CASE Closed(f, then)
        BY <3>1, ClosedTypes DEF NoTwice
      <3>2. CASE CloseFails(f, then, [fcb[f] EXCEPT !.fas = 3])
        BY <2>2, <3>2, CloseFailsTypes
      <3> QED  BY <1>2, <3>1, <3>2 DEF CloseRead
    <2>4. UNCHANGED <<dir, sir>>
      BY <1>2 DEF CloseRead
    <2> QED  BY <2>1, <2>3, <2>4 DEF Types
  <1>3. CASE CloseRefused(f, then)
    <2>1. /\ fcb' \in [Fcb -> Block] /\ fcblist' \in Seq(Fcb)
          /\ secmap' \in Map /\ call' \in Calls
      BY <1>1, <1>3, CloseFailsTypes DEF CloseRefused
    <2> QED  BY <1>3, <2>1 DEF CloseRefused, Types, disk
  <1>4. CASE CloseEmpty(f, then)
    <2>1. [fcb[f] EXCEPT !.fas = 0] \in Block
      BY <1>1 DEF Block, Fields, Buffered
    <2>2. /\ fcb' \in [Fcb -> Block] /\ fcblist' \in Seq(Fcb)
          /\ secmap' \in Map /\ call' \in Calls
      <3>1. CASE Closed(f, then)
        BY <3>1, ClosedTypes DEF NoTwice
      <3>2. CASE CloseFails(f, then, [fcb[f] EXCEPT !.fas = 0])
        BY <2>1, <3>2, CloseFailsTypes
      <3> QED  BY <1>4, <3>1, <3>2 DEF CloseEmpty
    <2>3. dir' \in Seq(DirEntry)
      <3>1. CASE WriteEntry(fcb[f].fcd, NoFile(Deleted))
        BY <3>1, Values, WriteEntryTypes
      <3>2. CASE UNCHANGED dir
        BY <3>2 DEF Types
      <3> QED  BY <1>4, <3>1, <3>2 DEF CloseEmpty
    <2>4. UNCHANGED <<link, data, sir>>
      BY <1>4 DEF CloseEmpty
    <2> QED  BY <2>2, <2>3, <2>4 DEF Types
  <1>5. CASE CloseData(f, then)
    <2>1. link' \in [Sector -> Addr] /\ data' \in [Sector -> Tags]
      <3>1. CASE WriteData(fcb[f].fcs, fcb[f].fwd, fcb[f].tag)
        BY <1>1, <3>1, WriteDataTypes DEF Block, Fields
      <3>2. CASE UNCHANGED <<link, data>>
        BY <3>2 DEF Types
      <3> QED  BY <1>5, <3>1, <3>2 DEF CloseData
    <2>2. /\ fcb' \in [Fcb -> Block] /\ fcblist' \in Seq(Fcb)
          /\ secmap' \in Map /\ call' \in Calls
      <3>1. CASE /\ call' = [op |-> "close", f |-> f, then |-> then, next |-> "entry"]
                 /\ UNCHANGED memory
        BY <3>1 DEF memory, Types, Calls
      <3>2. CASE CloseFails(f, then, fcb[f])
        BY <1>1, <3>2, CloseFailsTypes
      <3> QED  BY <1>5, <3>1, <3>2 DEF CloseData
    <2>3. UNCHANGED <<dir, sir>>
      BY <1>5 DEF CloseData
    <2> QED  BY <2>1, <2>2, <2>3 DEF Types
  <1>6. CASE CloseAgain(f, then)
    <2>1. /\ fcb' \in [Fcb -> Block] /\ fcblist' \in Seq(Fcb)
          /\ secmap' \in Map /\ call' \in Calls
      <3>1. CASE /\ call' = [op |-> "close", f |-> f, then |-> then, next |-> "entry"]
                 /\ UNCHANGED memory
        BY <3>1 DEF memory, Types, Calls
      <3>2. CASE CloseFails(f, then, fcb[f])
        BY <1>1, <3>2, CloseFailsTypes
      <3> QED  BY <1>6, <3>1, <3>2 DEF CloseAgain
    <2>2. dir' \in Seq(DirEntry) /\ sir' \in Map
      BY <1>6, CloseAgainTypes
    <2> QED  BY <1>6, <2>1, <2>2 DEF CloseAgain, Types
  <1> QED  BY <1>2, <1>3, <1>4, <1>5, <1>6 DEF CLOSE

Reading(f) == ReadNext(f) \/ Update(f) \/ NextSector(f)
Writing(f) == WriteFirst(f) \/ WriteNext(f) \/ WriteFull(f)

\* Reading and changing sectors leaves the block's file and status alone.
LEMMA ReadsBlock ==
  ASSUME Types, NEW f \in Fcb, Reading(f)
  PROVE  \E b \in Block : fcb' = [fcb EXCEPT ![f] = b] /\ SameFile(b, fcb[f]) /\ b.fas # 2
  <1>0. fcb[f] \in Block
    BY DEF Types
  <1>1. CASE ReadNext(f)
    <2> DEFINE b == [fcb[f] EXCEPT !.frn = @ + 1]
    <2>1. /\ b.fwd # None
          /\ \/ fcb' = [fcb EXCEPT ![f] = Reads(b, b.fwd)]
             \/ /\ "read" \in FaultAt
                /\ \E fwd \in Arrived(b, b.fwd) : fcb' = [fcb EXCEPT ![f] = Unread(b, b.fwd, fwd)]
      BY <1>0, <1>1 DEF ReadNext, Block, Fields, Fault, May
    <2>2. b \in Block /\ SameFile(b, fcb[f]) /\ b.fas = 1 /\ b.fwd \in Addr
      BY <1>0, <1>1 DEF ReadNext, Block, Fields, Buffered, SameFile
    <2> HIDE DEF b
    <2> QED  BY <2>1, <2>2, ReadsTypes DEF SameFile
  <1>2. CASE Update(f)
    <2> DEFINE t == Tag(f, Sectors + fcb[f].frn)
               new == [fcb[f] EXCEPT !.fas = 131, !.tag = t]
    <2>1. t \in Tags
      BY <1>0, Values, SizeAssumption DEF Block, Fields
    <2>2. new \in Block /\ SameFile(new, fcb[f]) /\ new.fas # 2
      <3>1. fcb[f].fas # 2
        BY <1>2 DEF Update
      <3> HIDE DEF t
      <3>4. "unread" \in Discipline => fcb[f].fsb = "own"
        BY <1>2 DEF Update, CallerChanges
      <3>5. /\ new \in Fields /\ new.fsa = fcb[f].fsa /\ new.fea = fcb[f].fea
            /\ new.fsb = fcb[f].fsb /\ new.image = fcb[f].image /\ new.fas = 131
        BY <1>0, <2>1 DEF Block, Fields
      <3> HIDE DEF new
      <3>2. new \in Block
        BY <1>0, <3>4, <3>5 DEF Block, Buffered
      <3> USE DEF new
      <3>3. new.fas = 131 /\ new.fcd = fcb[f].fcd /\ new.name = fcb[f].name
        BY <1>0 DEF Block, Fields
      <3> QED  BY <3>1, <3>2, <3>3 DEF SameFile
    <2>3. fcb' = [fcb EXCEPT ![f] = new]
      <3>1. fcb' = [fcb EXCEPT ![f].fas = 131, ![f].tag = t]
        BY <1>2, Zenon DEF Update
      <3> HIDE DEF t
      <3> QED  BY <3>1 DEF Types
    <2> HIDE DEF new
    <2> QED  BY <2>2, <2>3
  <1>3. CASE NextSector(f)
    <2> DEFINE b == [fcb[f] EXCEPT !.fas = 3]
               next == [b EXCEPT !.frn = @ + 1]
    <2>1. b \in Block /\ SameFile(b, fcb[f]) /\ b.fas = 3
      BY <1>0, <1>3 DEF Block, Fields, Buffered, SameFile, NextSector
    <2>2. \/ fcb' = [fcb EXCEPT ![f] = b]
          \/ b.fwd # None /\ fcb' = [fcb EXCEPT ![f] = Reads(next, b.fwd)]
          \/ /\ b.fwd # None /\ "read" \in FaultAt
             /\ \E fwd \in Arrived(b, b.fwd) : fcb' = [fcb EXCEPT ![f] = Unread(next, b.fwd, fwd)]
      BY <1>3, Zenon DEF NextSector, Fault, May
    <2> HIDE DEF b
    <2>3. /\ next \in Block /\ SameFile(next, fcb[f]) /\ next.fas = 3
          /\ next.fwd = b.fwd /\ b.fwd \in Addr
      BY <2>1 DEF Block, Fields, Buffered, SameFile
    <2>4. Arrived(b, b.fwd) = Arrived(next, b.fwd)
      BY <2>3 DEF Arrived
    <2> HIDE DEF next
    <2> QED  BY <2>1, <2>2, <2>3, <2>4, ReadsTypes DEF SameFile
  <1> QED  BY <1>1, <1>2, <1>3 DEF Reading

\* Writing sectors leaves the block's file and status alone.
LEMMA WritesBlock ==
  ASSUME Types, NEW f \in Fcb, Writing(f)
  PROVE  /\ \E b \in Block : fcb' = [fcb EXCEPT ![f] = b] /\ SameFile(b, fcb[f])
         /\ secmap' \in Map
  <1>0. fcb[f] \in Block /\ secmap \in Map
    BY DEF Types
  <1>1. CASE WriteFirst(f)
    <2>1. SameFile(fcb[f], fcb[f])
      BY DEF SameFile
    <2>2. fcb[f].fas = 2 /\ secmap.first # None /\ ASNNXT(f, fcb[f])
      BY <1>1 DEF WriteFirst
    <2> QED  BY <1>0, <2>2, AssignTypes
  <1>2. CASE WriteNext(f)
    <2> DEFINE b == [fcb[f] EXCEPT !.fwd = secmap.first]
    <2>1. b \in Block /\ SameFile(b, fcb[f]) /\ b.fas = 2
      BY <1>0, <1>2 DEF Block, Fields, Buffered, Map, SameFile, WriteNext
    <2>2. ASNNXT(f, b) \/ (fcb' = [fcb EXCEPT ![f] = b] /\ UNCHANGED secmap)
      BY <1>2 DEF WriteNext
    <2> HIDE DEF b
    <2>3. CASE ASNNXT(f, b)
      <3>1. secmap.first # None
        BY <1>2 DEF WriteNext
      <3>2. PICK c \in Block : fcb' = [fcb EXCEPT ![f] = c] /\ SameFile(c, b)
        BY <2>1, <2>3, <3>1, AssignTypes
      <3>3. SameFile(c, fcb[f])
        BY <2>1, <3>2 DEF SameFile
      <3> QED  BY <2>1, <2>3, <3>1, <3>2, <3>3, AssignTypes
    <2>4. CASE fcb' = [fcb EXCEPT ![f] = b] /\ UNCHANGED secmap
      BY <1>0, <2>1, <2>4
    <2> QED  BY <2>2, <2>3, <2>4
  <1>3. CASE WriteFull(f)
    <2> DEFINE b == [fcb[f] EXCEPT !.fwd = None]
    <2>1. b \in Block /\ SameFile(b, fcb[f])
      BY <1>0, Values DEF Block, Fields, Buffered, SameFile
    <2>2. fcb' = [fcb EXCEPT ![f] = b]
      BY <1>3 DEF WriteFull, Types
    <2> HIDE DEF b
    <2> QED  BY <1>0, <1>3, <2>1, <2>2 DEF WriteFull
  <1> QED  BY <1>1, <1>2, <1>3 DEF Writing

\* Using a file changes its own block and no list, entry or call.
LEMMA UsesBlock ==
  ASSUME Types, NEW f \in Fcb, Reading(f) \/ Writing(f)
  PROVE  /\ Listed(f) /\ call = Idle /\ UNCHANGED <<fcblist, call, dir, sir>>
         /\ \E b \in Block : fcb' = [fcb EXCEPT ![f] = b] /\ SameFile(b, fcb[f])
         /\ secmap' \in Map
  <1>1. Listed(f) /\ call = Idle /\ UNCHANGED <<fcblist, call, dir, sir>>
    BY DEF Reading, Writing, ReadNext, Update, NextSector, WriteFirst, WriteNext, WriteFull,
      CallerUses, CallerChanges, CallerFree, disk
  <1>2. CASE Reading(f)
    <2>1. UNCHANGED secmap
      BY <1>2 DEF Reading, ReadNext, Update, NextSector
    <2> QED  BY <1>1, <1>2, <2>1, ReadsBlock DEF Types
  <1>3. CASE Writing(f)
    BY <1>1, <1>3, WritesBlock
  <1> QED  BY <1>2, <1>3

\* What is written to a data sector comes out of the block.
LEMMA UsesSector ==
  ASSUME Types, NEW f \in Fcb, Reading(f) \/ Writing(f)
  PROVE  link' \in [Sector -> Addr] /\ data' \in [Sector -> Tags]
  <1>0. fcb[f] \in Block
    BY DEF Types
  <1>1. CASE UNCHANGED <<link, data>>
    BY <1>1 DEF Types
  <1>2. CASE NextSector(f)
    <2> DEFINE b == [fcb[f] EXCEPT !.fas = 3]
    <2>1. b \in Block
      BY <1>0 DEF Block, Fields, Buffered
    <2>2. WriteData(b.fcs, b.fwd, b.tag) \/ UNCHANGED <<link, data>>
      BY <1>2 DEF NextSector
    <2> HIDE DEF b
    <2> QED  BY <1>1, <2>1, <2>2, WriteDataTypes DEF Block, Fields
  <1>3. CASE WriteNext(f)
    <2> DEFINE b == [fcb[f] EXCEPT !.fwd = secmap.first]
    <2>1. b \in Block
      BY <1>0 DEF Block, Fields, Buffered, Types, Map
    <2>2. WriteData(b.fcs, b.fwd, b.tag) \/ UNCHANGED <<link, data>>
      BY <1>3 DEF WriteNext
    <2> HIDE DEF b
    <2> QED  BY <1>1, <2>1, <2>2, WriteDataTypes DEF Block, Fields
  <1>4. CASE WriteFull(f)
    BY <1>0, <1>1, <1>4, WriteDataTypes, Values DEF WriteFull, Block, Fields
  <1>5. CASE ReadNext(f) \/ Update(f) \/ WriteFirst(f)
    BY <1>1, <1>5 DEF ReadNext, Update, WriteFirst, disk
  <1> QED  BY <1>2, <1>3, <1>4, <1>5 DEF Reading, Writing

LEMMA UsingTypes ==
  ASSUME Types, NoTwice, NEW f \in Fcb, Using(f)
  PROVE  Types'
  <1>1. CASE Reading(f) \/ Writing(f)
    <2>1. fcb' \in [Fcb -> Block]
      BY <1>1, UsesBlock, BlockUpdate
    <2> QED  BY <1>1, <2>1, UsesBlock, UsesSector DEF Types
  <1>2. CASE CloseCall(f)
    BY <1>2, CloseTypes DEF CloseCall
  <1> QED  BY <1>1, <1>2 DEF Using, Reading, Writing

LEMMA DeleteLinkTypes ==
  ASSUME Types, NEW f \in Fcb, NEW n \in Names, DeleteLink(f, n)
  PROVE  Types'
  <1> DEFINE i == FNDNAM(n)
             e == dir[i]
             map == GETAVL
             grown == [first |-> IF map.last = None THEN e.fsa ELSE map.first,
                       last  |-> e.fea,
                       count |-> map.count + e.fsz]
  <1>1. i \in Nat /\ e \in DirEntry /\ map \in Map
    BY FoundEntry, MapTypes DEF DeleteLink, Types
  <1>2. secmap' \in Map
    <2>1. grown \in Map
      <3> HIDE DEF e, map
      <3> QED  BY <1>1 DEF DirEntry, Map
    <2>2. secmap' = map \/ secmap' = grown
      BY DEF DeleteLink
    <2> QED  BY <1>1, <2>1, <2>2
  <1>3. link' \in [Sector -> Addr]
    <2>1. link' = link \/ link' = [link EXCEPT ![map.last] = e.fsa]
      BY DEF DeleteLink
    <2> HIDE DEF e, map
    <2> QED  BY <1>1, <2>1 DEF Types, DirEntry
  <1>4. call' \in Calls
    <2>1. call' = call \/ call' = [op |-> "delete", slot |-> i, next |-> "entry"]
      BY DEF DeleteLink
    <2> HIDE DEF i
    <2> QED  BY <1>1, <2>1 DEF Types, Calls
  <1>5. UNCHANGED <<data, dir, sir, fcb, fcblist>>
    BY DEF DeleteLink
  <1> QED  BY <1>2, <1>3, <1>4, <1>5 DEF Types

LEMMA RenameTypes ==
  ASSUME Types, NEW f \in Fcb, NEW old \in Names, NEW new \in Names, Rename(f, old, new)
  PROVE  Types'
  <1> DEFINE i == FNDNAM(old)
             e == [dir[i] EXCEPT !.name = new]
  <1>1. i \in 1..Len(dir) /\ dir[i] \in DirEntry
    BY FoundEntry DEF Rename
  <1>2. e \in DirEntry
    BY <1>1, Values DEF DirEntry
  <1>3. dir' \in Seq(DirEntry)
    <2>1. CASE dir' = [dir EXCEPT ![i].name = new]
      <3>1. dir' = [dir EXCEPT ![i] = e]
        BY <1>1, <2>1 DEF Types
      <3> HIDE DEF e
      <3> QED  BY <1>1, <1>2, <3>1, ExceptSeq DEF Types
    <2>2. CASE UNCHANGED dir
      BY <2>2 DEF Types
    <2> QED  BY <2>1, <2>2 DEF Rename
  <1>4. UNCHANGED <<link, data, sir, secmap, fcb, fcblist, call>>
    BY DEF Rename, memory
  <1> QED  BY <1>3, <1>4 DEF Types

\* The entry a CLOSE writes, and the directory sector it is written in.
LEMMA ClosingEntry ==
  ASSUME Types, NEW b \in Block
  PROVE  LET e == Entry(b.name, b.fsa, b.fea, b.fsz)
         IN  e \in DirEntry /\ DirSector([dir EXCEPT ![b.fcd] = e], b.fcd) \in DirImage
  <1> DEFINE e == Entry(b.name, b.fsa, b.fea, b.fsz)
             d == [dir EXCEPT ![b.fcd] = e]
             slots == {k \in DOMAIN d : (k - 1) \div DirSlots = (b.fcd - 1) \div DirSlots}
  <1>1. e \in DirEntry
    BY DEF Block, Fields, Entry, DirEntry
  <1> HIDE DEF e
  <1>2. DOMAIN d = 1..Len(dir) /\ \A k \in DOMAIN d : d[k] \in DirEntry
    BY <1>1 DEF Types
  <1> HIDE DEF d
  <1>3. slots \in SUBSET Nat /\ \A k \in slots : d[k] \in DirEntry
    BY <1>2 DEF Types
  <1>4. DirSector(d, b.fcd) = [k \in slots |-> d[k]]
    BY DEF DirSector
  <1> HIDE DEF slots
  <1>5. [k \in slots |-> d[k]] \in [slots -> DirEntry]
    BY <1>3
  <1>6. DirSector(d, b.fcd) \in DirImage
    BY <1>3, <1>4, <1>5 DEF DirImage
  <1> QED  BY <1>1, <1>6 DEF d, e

\* The second write of CLOSE is done, or the directory sector stays in the buffer.
CloseEntryDone ==
  LET b == fcb[call.f]
  IN /\ WriteEntry(b.fcd, Entry(b.name, b.fsa, b.fea, b.fsz))
     /\ call' = [call EXCEPT !.next = "sir"]
     /\ UNCHANGED memory

CloseStops(fsb) ==
  \E c \in Block : /\ SameFile(c, fcb[call.f]) /\ c.fas = fcb[call.f].fas
                   /\ c.fsa = fcb[call.f].fsa /\ c.fsb = fsb
                   /\ CloseFails(call.f, call.then, c) /\ UNCHANGED dir

LEMMA CloseEntryEffect ==
  ASSUME Types, CloseEntry
  PROVE  /\ call.f \in Fcb /\ call.op = "close" /\ UNCHANGED <<link, data, dirext, sir>>
         /\ CloseEntryDone \/ ("entry" \in FaultAt /\ CloseStops("dir"))
  <1>1. call.f \in Fcb /\ call.op = "close" /\ UNCHANGED <<link, data, dirext, sir>>
    BY DEF CloseEntry, Calls, Types, Idle, Excls
  <1> DEFINE b == fcb[call.f]
             e == Entry(b.name, b.fsa, b.fea, b.fsz)
             image == DirSector([dir EXCEPT ![b.fcd] = e], b.fcd)
             c == [b EXCEPT !.fcs = None, !.fsb = "dir", !.image = image]
  <1>2. \/ CloseEntryDone
        \/ Fault("entry") /\ CloseFails(call.f, call.then, c) /\ UNCHANGED dir
    BY Zenon DEF CloseEntry, CloseEntryDone, memory
  <1>3. b \in Block /\ image \in DirImage
    BY <1>1, ClosingEntry DEF Types
  <1> HIDE DEF image
  <1>4. ASSUME "entry" \in FaultAt
        PROVE  c \in Block /\ SameFile(c, b) /\ c.fas = b.fas /\ c.fsa = b.fsa /\ c.fsb = "dir"
    <2>1. /\ c \in Fields /\ c.fas = b.fas /\ c.fsa = b.fsa /\ c.fea = b.fea
          /\ c.fcd = b.fcd /\ c.name = b.name /\ c.fsb = "dir" /\ c.image = image
      BY <1>3, Values DEF Block, Fields, Image
    <2> HIDE DEF c
    <2> QED  BY <1>3, <1>4, <2>1 DEF Block, Buffered, SameFile
  <1> HIDE DEF c
  <1> QED  BY <1>1, <1>2, <1>4 DEF Fault, May, CloseStops

\* So is the third one, or the avail pointers do.
LEMMA CloseRecordEffect ==
  ASSUME Types, CloseRecord
  PROVE  /\ call.f \in Fcb /\ call.op = "close" /\ UNCHANGED <<link, data, dir, dirext>>
         /\ \/ Closed(call.f, call.then) /\ sir' = secmap
            \/ INIT /\ UNCHANGED sir
            \/ "record" \in FaultAt /\ CloseStops("sir") /\ UNCHANGED sir
  <1>1. /\ call.f \in Fcb /\ call.op = "close" /\ UNCHANGED <<link, data, dir, dirext>>
        /\ call.then \in {"return", "excls"}
    BY DEF CloseRecord, Calls, Types, Idle, Excls
  <1> DEFINE b == fcb[call.f]
             c == [b EXCEPT !.fcs = None, !.fsb = "sir", !.image = <<secmap>>]
  <1>2. \/ Closed(call.f, call.then) /\ sir' = secmap
        \/ INIT /\ UNCHANGED sir
        \/ /\ call.then = "return" /\ Fault("record")
           /\ CloseFails(call.f, call.then, c) /\ UNCHANGED sir
    BY <1>1 DEF CloseRecord, CloseFails
  <1>3. b \in Block /\ <<secmap>> \in Image /\ <<secmap>>[1] \in Map
    BY <1>1 DEF Types, Image
  <1>4. ASSUME "record" \in FaultAt
        PROVE  c \in Block /\ SameFile(c, b) /\ c.fas = b.fas /\ c.fsa = b.fsa /\ c.fsb = "sir"
    <2>1. /\ c \in Fields /\ c.fas = b.fas /\ c.fsa = b.fsa /\ c.fea = b.fea
          /\ c.fcd = b.fcd /\ c.name = b.name /\ c.fsb = "sir" /\ c.image = <<secmap>>
      BY <1>3, Values DEF Block, Fields
    <2> HIDE DEF c
    <2> QED  BY <1>3, <1>4, <2>1 DEF Block, Buffered, SameFile
  <1> HIDE DEF c
  <1> QED  BY <1>1, <1>2, <1>4 DEF Fault, May, CloseStops

\* The directory has grown when its new sector is recorded.
Grown == call.op = "extend" /\ call.next # "clear" => DirSlots <= Len(dir)

LEMMA ContinueTypes ==
  ASSUME Types, NoTwice, Grown, Continue
  PROVE  Types'
  <1>1. CASE DirExtendClear
    <2> DEFINE more == [i \in 1..DirSlots |-> NoFile(Never)]
    <2>1. more \in Seq(DirEntry)
      <3>1. NoFile(Never) \in DirEntry
        BY Values
      <3> QED  BY <3>1, SizeAssumption
    <2>2. dir \o more \in Seq(DirEntry)
      <3> HIDE DEF more
      <3> QED  BY <2>1, ConcatProperties DEF Types
    <2>3. link' \in [Sector -> Addr] /\ data' \in [Sector -> Tags]
      <3>1. <<>> \in Tags
        BY DEF Tags
      <3> QED  BY <1>1, <3>1, Values, WriteDataTypes DEF DirExtendClear
    <2>4. call' \in Calls
      BY <1>1 DEF DirExtendClear, Calls, Types, Idle, Excls
    <2> QED  BY <1>1, <2>2, <2>3, <2>4 DEF DirExtendClear, Types, memory
  <1>2. CASE DirExtendRecord
    <2>1. call' \in Calls /\ call.f \in Fcb
      BY <1>2 DEF DirExtendRecord, Calls, Types, Idle, Excls
    <2>2. fcblist' \in Seq(Fcb)
      BY <1>2, <2>1, RemfcbProperties DEF DirExtendRecord, Types, NoTwice
    <2>3. sir' \in Map
      BY <1>2 DEF DirExtendRecord, Types
    <2> QED  BY <1>2, <2>1, <2>2, <2>3 DEF DirExtendRecord, Types
  <1>3. CASE DirExtendEntry
    <2> DEFINE i == Len(dir) - DirSlots + 1
    <2>1. call.f \in Fcb /\ call.name \in Names
      BY <1>3 DEF DirExtendEntry, Calls, Types, Idle, Excls
    <2>2. NoFile(call.name) \in DirEntry
      BY <2>1, Values
    <2>3. dir' \in Seq(DirEntry)
      <3>1. CASE WriteEntry(i, NoFile(call.name))
        BY <2>2, <3>1, WriteEntryTypes
      <3>2. CASE UNCHANGED dir
        BY <3>2 DEF Types
      <3> QED  BY <1>3, <3>1, <3>2 DEF DirExtendEntry
    <2> DEFINE new == [Blank EXCEPT !.fas = 2, !.name = call.name, !.fcd = i]
    <2>4. i \in Nat
      BY <1>3, SizeAssumption DEF DirExtendEntry, Grown, Types
    <2>5. new \in Block
      <3> HIDE DEF i
      <3> QED  BY <2>1, <2>4, Values DEF Blank, Block, Fields, Buffered
    <2>6. fcb' = [fcb EXCEPT ![call.f] = new]
      BY <1>3 DEF DirExtendEntry
    <2> HIDE DEF new
    <2>7. fcb' \in [Fcb -> Block]
      BY <2>1, <2>5, <2>6, BlockUpdate
    <2>8. fcblist' \in Seq(Fcb)
      BY <1>3, <2>1, RemfcbProperties DEF DirExtendEntry, Types, NoTwice
    <2> QED  BY <1>3, <2>3, <2>7, <2>8 DEF DirExtendEntry, Types, Calls
  <1>4. CASE CloseEntry
    <2>1. call.f \in Fcb /\ call.op = "close" /\ UNCHANGED <<link, data, sir>>
      BY <1>4, CloseEntryEffect
    <2>2. CASE CloseEntryDone
      <3> DEFINE b == fcb[call.f]
                 e == Entry(b.name, b.fsa, b.fea, b.fsz)
      <3>1. e \in DirEntry
        BY <2>1, ClosingEntry DEF Types
      <3>2. dir' \in Seq(DirEntry)
        BY <2>2, <3>1, WriteEntryTypes DEF CloseEntryDone
      <3>3. call' \in Calls
        BY <2>1, <2>2 DEF CloseEntryDone, Calls, Types, Idle, Excls
      <3> QED  BY <2>1, <2>2, <3>2, <3>3 DEF CloseEntryDone, Types, memory
    <2>3. CASE CloseStops("dir")
      BY <2>1, <2>3, CloseFailsTypes DEF CloseStops, Types
    <2> QED  BY <1>4, <2>2, <2>3, CloseEntryEffect
  <1>5. CASE CloseRecord
    <2>1. call.f \in Fcb /\ UNCHANGED <<link, data, dir>>
      BY <1>5, CloseRecordEffect
    <2>2. /\ fcb' \in [Fcb -> Block] /\ fcblist' \in Seq(Fcb)
          /\ secmap' \in Map /\ call' \in Calls
      <3>1. CASE Closed(call.f, call.then)
        BY <2>1, <3>1, ClosedTypes DEF NoTwice
      <3>2. CASE INIT
        BY <3>2, InitStepTypes
      <3>3. CASE CloseStops("sir")
        BY <2>1, <3>3, CloseFailsTypes DEF CloseStops
      <3> QED  BY <1>5, <3>1, <3>2, <3>3, CloseRecordEffect
    <2>3. sir' \in Map
      BY <1>5, CloseRecordEffect DEF Types
    <2> QED  BY <2>1, <2>2, <2>3 DEF Types
  <1>6. CASE ExclsNext
    <2>1. Head(fcblist) \in Fcb
      BY <1>6, HeadTailProperties DEF ExclsNext, Types
    <2> QED  BY <1>6, <2>1, CloseTypes DEF ExclsNext
  <1>7. CASE ExclsDone
    BY <1>7, Values DEF ExclsDone, Types, disk, Calls
  <1>8. CASE DeleteEntry
    <2>1. dir' \in Seq(DirEntry)
      <3>1. CASE WriteEntry(call.slot, NoFile(Deleted))
        BY <3>1, Values, WriteEntryTypes
      <3>2. CASE UNCHANGED dir
        BY <3>2 DEF Types
      <3> QED  BY <1>8, <3>1, <3>2 DEF DeleteEntry
    <2>2. call' \in Calls
      BY <1>8 DEF DeleteEntry, Calls, Types, Idle, Excls
    <2> QED  BY <1>8, <2>1, <2>2 DEF DeleteEntry, Types, memory
  <1>9. CASE DeleteRecord
    BY <1>9 DEF DeleteRecord, Types, memory, Calls
  <1> QED
    BY <1>1, <1>2, <1>3, <1>4, <1>5, <1>6, <1>7, <1>8, <1>9 DEF Continue

LEMMA StepTypes ==
  ASSUME Types, NoTwice, Grown, [Next]_vars
  PROVE  Types'
  <1>1. ASSUME NEW f \in Fcb, NEW n \in Names, Opening(f, n)  PROVE Types'
    BY <1>1, OpeningTypes
  <1>2. ASSUME NEW f \in Fcb, NEW n \in Names, DeleteLink(f, n)  PROVE Types'
    BY <1>2, DeleteLinkTypes
  <1>3. ASSUME NEW f \in Fcb, NEW o \in Names, NEW n \in Names, Rename(f, o, n)  PROVE Types'
    BY <1>3, RenameTypes
  <1>4. ASSUME NEW f \in Fcb, Using(f)  PROVE Types'
    BY <1>4, UsingTypes
  <1>5. CASE ExclsCall
    BY <1>5 DEF ExclsCall, Types, disk, memory, Calls
  <1>6. CASE Continue
    BY <1>6, ContinueTypes
  <1>7. CASE Restart
    BY <1>7, InitStepTypes DEF Restart, Types, disk
  <1>8. CASE UNCHANGED vars
    BY <1>8 DEF vars, Types, disk, memory
  <1> QED
    BY <1>1, <1>2, <1>3, <1>4, <1>5, <1>6, <1>7, <1>8, Zenon DEF Next

-----------------------------------------------------------------------------
\* The list has every block that holds sectors of a file it writes.
HeldListed == \A f \in Fcb : fcb[f].fas = 2 /\ fcb[f].fsa # None => Listed(f)

\* A listed writer has an entry, or its directory is growing to give it one.
Placed ==
  \A f \in Fcb : Listed(f) /\ fcb[f].fas = 2 =>
    fcb[f].fcd # 0 \/ (call.op = "extend" /\ call.f = f)

\* The block of a call that is not over is still listed.
CallListed ==
  /\ call.op = "close" => fcb[call.f].fas = 2 /\ Listed(call.f)
  /\ call.op = "extend" => fcb[call.f].fsa = None /\ fcb[call.f].fcd = 0 /\ Listed(call.f)

\* The list invariant.
ListInv == NoTwice /\ HeldListed /\ Placed /\ CallListed

\* A step that replaces the block f and changes the list only by f.
LEMMA BlockStep ==
  ASSUME Types, ListInv, NEW f \in Fcb, NEW b \in Block,
         fcb' = [fcb EXCEPT ![f] = b],
         fcblist' = fcblist \/ (~Listed(f) /\ fcblist' = SETFCB(f)) \/ fcblist' = REMFCB(f)
  PROVE  /\ NoTwice'
         /\ \A g \in Fcb : fcb'[g] = IF g = f THEN b ELSE fcb[g]
         /\ \A g \in Fcb : g # f => (Listed(g)' <=> Listed(g))
         /\ fcblist' = fcblist => (Listed(f)' <=> Listed(f))
         /\ fcblist' = SETFCB(f) /\ ~Listed(f) => Listed(f)'
         /\ fcblist' = REMFCB(f) => ~Listed(f)'
  <1>1. \A g \in Fcb : fcb'[g] = IF g = f THEN b ELSE fcb[g]
    BY DEF Types
  <1>2. CASE fcblist' = fcblist
    <2>1. NoTwice' /\ \A g : Listed(g)' <=> Listed(g)
      BY <1>2 DEF ListInv, NoTwice, Listed
    <2>2. fcblist' = REMFCB(f) => ~Listed(f)'
      BY <1>2, RemfcbProperties DEF Types, ListInv, NoTwice, Listed
    <2>3. fcblist' = SETFCB(f) /\ ~Listed(f) => Listed(f)'
      BY <1>2, SetfcbProperties DEF Types, ListInv, NoTwice, Listed
    <2> QED  BY <1>1, <2>1, <2>2, <2>3
  <1>3. CASE ~Listed(f) /\ fcblist' = SETFCB(f)
    <2>1. NoTwice' /\ Range(fcblist') = Range(fcblist) \cup {f}
      BY <1>3, SetfcbProperties DEF ListInv, NoTwice, Types
    <2>2. fcblist' # fcblist
      BY <1>3, <2>1 DEF Listed
    <2>3. fcblist' # REMFCB(f)
      BY <2>1, RemfcbProperties DEF Types, ListInv, NoTwice
    <2> QED  BY <1>1, <2>1, <2>2, <2>3 DEF Listed
  <1>4. CASE fcblist' = REMFCB(f)
    <2>1. NoTwice' /\ Range(fcblist') = Range(fcblist) \ {f}
      BY <1>4, RemfcbProperties DEF ListInv, NoTwice, Types
    <2>2. ~(~Listed(f) /\ fcblist' = SETFCB(f))
      BY <2>1, SetfcbProperties DEF Types, ListInv, NoTwice
    <2>3. fcblist' = fcblist => (Listed(f)' <=> Listed(f))
      BY DEF Listed
    <2> QED  BY <1>1, <2>1, <2>2, <2>3 DEF Listed
  <1> QED  BY <1>2, <1>3, <1>4

LEMMA InitList == Init => ListInv
  <1> SUFFICES ASSUME Init  PROVE ListInv
    OBVIOUS
  <1>1. fcblist = <<>> /\ call = Idle /\ \A f \in Fcb : fcb[f] = Blank
    BY DEF Init
  <1> QED
    BY <1>1 DEF ListInv, NoTwice, HeldListed, Placed, CallListed, Listed, Range, Idle, Blank

\* INIT empties the list and every block together.
LEMMA InitStepList ==
  ASSUME INIT
  PROVE  ListInv'
  <1>1. fcblist' = <<>> /\ call' = Idle /\ \A f \in Fcb : fcb'[f] = Blank
    BY DEF INIT
  <1> QED
    BY <1>1 DEF ListInv, NoTwice, HeldListed, Placed, CallListed, Listed, Range, Idle, Blank

\* A step that touches neither block nor list.
LEMMA SameMemoryList ==
  ASSUME ListInv, UNCHANGED <<fcb, fcblist>>,
         call'.op \notin {"close", "extend"} \/ UNCHANGED call,
         call.op # "extend" \/ UNCHANGED call
  PROVE  ListInv'
  BY DEF ListInv, NoTwice, HeldListed, Placed, CallListed, Listed

\* An open puts its block on the list once.
LEMMA OpeningList ==
  ASSUME Types, ListInv, "reopen" \in Discipline,
         NEW f \in Fcb, NEW n \in Names, Opening(f, n)
  PROVE  ListInv'
  <1>0. call = Idle
    BY DEF Opening, CallerOpens, CallerFree, OpenWriteBusy, OpenWriteExists, OpenWrite,
      DirExtend, OpenFails, OpenRead, OpenUpdate, OpenAppend
  <1>1. CASE OpenWriteBusy(f)
    <2>1. f \notin Writers /\ Listed(f) /\ fcblist' = REMFCB(f) /\ UNCHANGED <<fcb, call>>
      BY <1>1 DEF OpenWriteBusy, CallerOpens
    <2>2. fcb' = [fcb EXCEPT ![f] = fcb[f]] /\ fcb[f] \in Block
      BY <2>1 DEF Types
    <2>3. /\ NoTwice'
          /\ \A g \in Fcb : g # f => (Listed(g)' <=> Listed(g))
          /\ ~Listed(f)'
      BY <2>1, <2>2, BlockStep
    <2>4. ~(fcb[f].fas = 2 /\ fcb[f].fsa # None)
      BY <1>0, <2>1 DEF Writers, ListInv, Placed, Idle
    <2> QED
      BY <1>0, <2>1, <2>3, <2>4 DEF ListInv, HeldListed, Placed, CallListed, Idle
  <1>2. CASE OpenWriteExists(f, n)
    BY <1>2, SameMemoryList DEF OpenWriteExists
  <1>3. CASE OpenWrite(f, n)
    <2>2. PICK new \in Block : /\ fcb' = [fcb EXCEPT ![f] = new]
                              /\ new.fsa = None /\ new.fcd # 0
      BY <1>3, CreatesBlock
    <2>3. /\ ~Listed(f) /\ UNCHANGED call
          /\ fcblist' = fcblist \/ fcblist' = SETFCB(f)
      BY <1>3 DEF OpenWrite
    <2>4. /\ NoTwice'
          /\ \A g \in Fcb : fcb'[g] = IF g = f THEN new ELSE fcb[g]
          /\ \A g \in Fcb : g # f => (Listed(g)' <=> Listed(g))
      BY <2>2, <2>3, BlockStep
    <2> QED
      BY <1>0, <2>2, <2>3, <2>4 DEF ListInv, HeldListed, Placed, CallListed, Idle
  <1>4. CASE DirExtend(f, n)
    <2>1. PICK new \in Block : /\ fcb' = [fcb EXCEPT ![f] = new]
                              /\ new.fsa = None /\ new.fcd = 0
      BY <1>4, ExtendsBlock
    <2>2. /\ ~Listed(f)
          /\ \/ fcblist' = fcblist /\ call' = call
             \/ /\ fcblist' = SETFCB(f)
                /\ call' = [op |-> "extend", f |-> f, name |-> n, next |-> "clear"]
      BY <1>4 DEF DirExtend
    <2>3. /\ NoTwice'
          /\ \A g \in Fcb : fcb'[g] = IF g = f THEN new ELSE fcb[g]
          /\ \A g \in Fcb : g # f => (Listed(g)' <=> Listed(g))
          /\ fcblist' = fcblist => ~Listed(f)'
          /\ fcblist' = SETFCB(f) => Listed(f)'
      BY <2>1, <2>2, BlockStep
    <2> QED
      BY <1>0, <2>1, <2>2, <2>3 DEF ListInv, HeldListed, Placed, CallListed, Idle
  <1>5. CASE OpenFails(f, n)
    BY <1>5, SameMemoryList DEF OpenFails, vars, memory
  <1>6. CASE OpenRead(f, n) \/ OpenUpdate(f, n) \/ OpenAppend(f, n)
    <2>1. PICK new \in Block : fcb' = [fcb EXCEPT ![f] = new] /\ new.fcd = FNDNAM(n)
      BY <1>6, OpensBlock
    <2>2. ~Listed(f) /\ fcblist' = SETFCB(f) /\ UNCHANGED call /\ new.fcd # 0
      BY <1>6, <2>1, OpensBlock, FoundEntry
    <2>3. /\ NoTwice'
          /\ \A g \in Fcb : fcb'[g] = IF g = f THEN new ELSE fcb[g]
          /\ \A g \in Fcb : g # f => (Listed(g)' <=> Listed(g))
          /\ Listed(f)'
      BY <2>1, <2>2, BlockStep
    <2> QED
      BY <1>0, <2>2, <2>3 DEF ListInv, HeldListed, Placed, CallListed, Idle
  <1> QED
    BY <1>1, <1>2, <1>3, <1>4, <1>5, <1>6 DEF Opening

\* What CLOSE does to the list, the block and the directory.
LEMMA CloseEffect ==
  ASSUME Types, NEW f \in Fcb, NEW then, CLOSE(f, then)
  PROVE  /\ \/ INIT
            \/ Closed(f, then)
            \/ /\ fcb[f].fas = 2
               /\ call' = [op |-> "close", f |-> f, then |-> then, next |-> "entry"]
               /\ UNCHANGED <<fcb, fcblist>>
            \/ /\ \E b \in Block : fcb' = [fcb EXCEPT ![f] = b] /\ (b = fcb[f] \/ b.fas # 2)
               /\ call' = Idle
               /\ UNCHANGED fcblist
         /\ \/ UNCHANGED dir
            \/ fcb[f].fas = 2 /\ Closed(f, then) /\ WriteEntry(fcb[f].fcd, NoFile(Deleted))
            \/ fcb[f].fsb = "dir" /\ Len(dir') = Len(dir) /\ call'.op = "close"
  <1>0. fcb[f] \in Block
    BY DEF Types
  <1>1. [fcb[f] EXCEPT !.fas = 3] \in Block /\ [fcb[f] EXCEPT !.fas = 0] \in Block
    BY <1>0 DEF Block, Fields, Buffered
  <1>2. [fcb[f] EXCEPT !.fas = 3].fas # 2 /\ [fcb[f] EXCEPT !.fas = 0].fas # 2
    BY <1>0 DEF Block, Fields
  <1>3. ASSUME NEW b \in Block, b = fcb[f] \/ b.fas # 2, CloseFails(f, then, b), UNCHANGED dir
        PROVE  /\ \/ INIT
                  \/ /\ \E c \in Block : /\ fcb' = [fcb EXCEPT ![f] = c]
                                         /\ c = fcb[f] \/ c.fas # 2
                     /\ call' = Idle
                     /\ UNCHANGED fcblist
               /\ UNCHANGED dir
    BY <1>3, Zenon DEF CloseFails
  <1>4. CASE CloseRead(f, then)
    <2>1. UNCHANGED dir
      BY <1>4 DEF CloseRead
    <2>2. Closed(f, then) \/ CloseFails(f, then, [fcb[f] EXCEPT !.fas = 3])
      BY <1>4 DEF CloseRead
    <2> QED  BY <1>1, <1>2, <1>3, <2>1, <2>2, Zenon
  <1>5. CASE CloseRefused(f, then)
    <2>1. UNCHANGED dir
      BY <1>5 DEF CloseRefused, disk
    <2>2. CloseFails(f, then, fcb[f])
      BY <1>5 DEF CloseRefused
    <2> QED  BY <1>0, <1>3, <2>1, <2>2, Zenon
  <1>6. CASE CloseEmpty(f, then)
    <2>1. \/ /\ fcb[f].fas = 2 /\ Closed(f, then)
             /\ WriteEntry(fcb[f].fcd, NoFile(Deleted))
          \/ CloseFails(f, then, [fcb[f] EXCEPT !.fas = 0]) /\ UNCHANGED dir
      BY <1>6 DEF CloseEmpty
    <2> QED  BY <1>1, <1>2, <1>3, <2>1, Zenon
  <1>7. CASE CloseData(f, then)
    <2>1. UNCHANGED dir /\ fcb[f].fas = 2
      BY <1>7 DEF CloseData
    <2>2. \/ /\ call' = [op |-> "close", f |-> f, then |-> then, next |-> "entry"]
             /\ UNCHANGED <<fcb, fcblist>>
          \/ CloseFails(f, then, fcb[f])
      BY <1>7 DEF CloseData, memory
    <2> QED  BY <1>0, <1>3, <2>1, <2>2, Zenon
  <1>8. CASE CloseAgain(f, then)
    <2>1. fcb[f].fas = 2 /\ Len(dir') = Len(dir)
      BY <1>8, CloseAgainTypes DEF CloseAgain
    <2>2. \/ /\ call' = [op |-> "close", f |-> f, then |-> then, next |-> "entry"]
             /\ UNCHANGED <<fcb, fcblist>>
             /\ UNCHANGED dir \/ fcb[f].fsb = "dir"
          \/ CloseFails(f, then, fcb[f]) /\ UNCHANGED dir
      BY <1>8 DEF CloseAgain, memory
    <2>3. CASE CloseFails(f, then, fcb[f]) /\ UNCHANGED dir
      BY <1>0, <1>3, <2>3, Zenon
    <2>4. ASSUME call' = [op |-> "close", f |-> f, then |-> then, next |-> "entry"]
          PROVE  call'.op = "close"
      BY <2>4
    <2> QED  BY <2>1, <2>2, <2>3, <2>4, Zenon
  <1> QED  BY <1>4, <1>5, <1>6, <1>7, <1>8 DEF CLOSE

\* The block leaves the list blank.
LEMMA ClosedList ==
  ASSUME Types, ListInv, call.op # "extend",
         NEW f \in Fcb, NEW then, Closed(f, then)
  PROVE  ListInv'
  <1>1. /\ fcb' = [fcb EXCEPT ![f] = Blank] /\ Blank \in Block /\ Blank.fas = 0
        /\ fcblist' = REMFCB(f)
        /\ call' \in {Idle, Excls}
    BY Values DEF Closed, Blank
  <1>2. /\ NoTwice'
        /\ \A g \in Fcb : fcb'[g] = IF g = f THEN Blank ELSE fcb[g]
        /\ \A g \in Fcb : g # f => (Listed(g)' <=> Listed(g))
        /\ ~Listed(f)'
    BY <1>1, BlockStep
  <1>3. call'.op \notin {"close", "extend"}
    BY <1>1 DEF Idle, Excls
  <1>4. HeldListed'
    BY <1>1, <1>2 DEF ListInv, HeldListed
  <1>5. Placed'
    <2> SUFFICES ASSUME NEW g \in Fcb, Listed(g)', fcb'[g].fas = 2
                 PROVE  fcb'[g].fcd # 0
      BY DEF Placed
    <2>1. g # f /\ Listed(g) /\ fcb'[g] = fcb[g]
      BY <1>2
    <2> QED  BY <2>1 DEF ListInv, Placed
  <1> QED  BY <1>2, <1>3, <1>4, <1>5 DEF ListInv, CallListed

\* A CLOSE keeps the block listed until its entry is written.
LEMMA CloseList ==
  ASSUME Types, ListInv, call \in {Idle, Excls},
         NEW f \in Fcb, NEW then, Listed(f), CLOSE(f, then)
  PROVE  ListInv'
  <1>0. call.op # "extend" /\ call.op # "close"
    BY DEF Idle, Excls
  <1>1. CASE INIT
    BY <1>1, InitStepList
  <1>2. CASE Closed(f, then)
    BY <1>0, <1>2, ClosedList
  <1>3. CASE /\ fcb[f].fas = 2
             /\ call' = [op |-> "close", f |-> f, then |-> then, next |-> "entry"]
             /\ UNCHANGED <<fcb, fcblist>>
    BY <1>0, <1>3 DEF ListInv, NoTwice, HeldListed, Placed, CallListed, Listed
  <1>4. ASSUME NEW b \in Block, fcb' = [fcb EXCEPT ![f] = b], b = fcb[f] \/ b.fas # 2,
               call' = Idle, UNCHANGED fcblist
        PROVE  ListInv'
    <2>1. /\ NoTwice'
          /\ \A g \in Fcb : fcb'[g] = IF g = f THEN b ELSE fcb[g]
          /\ \A g \in Fcb : Listed(g)' <=> Listed(g)
      BY <1>4, BlockStep
    <2>2. call'.op = "idle"
      BY <1>4 DEF Idle
    <2>3. HeldListed'
      BY <1>4, <2>1 DEF ListInv, HeldListed
    <2>4. Placed'
      BY <1>0, <1>4, <2>1 DEF ListInv, Placed
    <2> QED  BY <2>1, <2>2, <2>3, <2>4 DEF ListInv, CallListed
  <1> QED  BY <1>1, <1>2, <1>3, <1>4, CloseEffect

\* Only listed blocks are used.
LEMMA UsingList ==
  ASSUME Types, ListInv, NEW f \in Fcb, Using(f)
  PROVE  ListInv'
  <1>1. CASE Reading(f) \/ Writing(f)
    <2>1. PICK b \in Block : fcb' = [fcb EXCEPT ![f] = b] /\ SameFile(b, fcb[f])
      BY <1>1, UsesBlock
    <2>2. Listed(f) /\ call = Idle /\ UNCHANGED <<fcblist, call>>
      BY <1>1, UsesBlock
    <2>3. /\ NoTwice'
          /\ \A g \in Fcb : fcb'[g] = IF g = f THEN b ELSE fcb[g]
          /\ \A g \in Fcb : Listed(g)' <=> Listed(g)
      BY <2>1, <2>2, BlockStep
    <2>4. call.op = "idle"
      BY <2>2 DEF Idle
    <2> QED
      BY <2>1, <2>2, <2>3, <2>4 DEF ListInv, HeldListed, Placed, CallListed, SameFile
  <1>2. CASE CloseCall(f)
    BY <1>2, CloseList DEF CloseCall, CallerUses, CallerFree
  <1> QED  BY <1>1, <1>2 DEF Using, Reading, Writing

\* The entry in the new directory sector completes the block.
LEMMA ExtendEntryBlock ==
  ASSUME Types, Grown, DirExtendEntry
  PROVE  /\ call.f \in Fcb /\ call.name \in Names
         /\ Len(dir) - DirSlots + 1 \in Nat \ {0}
         /\ \E b \in Block : /\ fcb' = [fcb EXCEPT ![call.f] = b]
                            /\ b.fas = 2 /\ b.name = call.name /\ b.fsa = None
                            /\ b.fcd = Len(dir) - DirSlots + 1
  <1> DEFINE i == Len(dir) - DirSlots + 1
             new == [Blank EXCEPT !.fas = 2, !.name = call.name, !.fcd = i]
  <1>1. call.f \in Fcb /\ call.name \in Names
    BY DEF DirExtendEntry, Calls, Types, Idle, Excls
  <1>2. i \in Nat \ {0}
    BY SizeAssumption DEF DirExtendEntry, Grown, Types
  <1>3. fcb' = [fcb EXCEPT ![call.f] = new]
    BY DEF DirExtendEntry
  <1> HIDE DEF i
  <1>4. /\ new \in Block /\ new.fas = 2 /\ new.name = call.name /\ new.fsa = None
        /\ new.fcd = i
    BY <1>1, <1>2, Values DEF Blank, Block, Fields, Buffered
  <1> HIDE DEF new
  <1> QED  BY <1>1, <1>2, <1>3, <1>4 DEF i

\* A call that fails leaves its block in the list.
LEMMA StopsList ==
  ASSUME Types, ListInv, call.f \in Fcb, call.op = "close", NEW fsb, CloseStops(fsb)
  PROVE  ListInv'
  <1>1. CASE INIT
    BY <1>1, InitStepList
  <1>2. CASE ~INIT
    <2>1. PICK c \in Block : /\ SameFile(c, fcb[call.f]) /\ c.fas = fcb[call.f].fas
                             /\ c.fsa = fcb[call.f].fsa
                             /\ CloseFails(call.f, call.then, c)
      BY DEF CloseStops
    <2>2. fcb' = [fcb EXCEPT ![call.f] = c] /\ UNCHANGED fcblist /\ call' = Idle
      BY <1>2, <2>1 DEF CloseFails
    <2>3. /\ NoTwice'
          /\ \A g \in Fcb : fcb'[g] = IF g = call.f THEN c ELSE fcb[g]
          /\ \A g \in Fcb : Listed(g)' <=> Listed(g)
      BY <2>2, BlockStep
    <2>4. call'.op = "idle"
      BY <2>2 DEF Idle
    <2> QED
      BY <2>1, <2>3, <2>4 DEF ListInv, HeldListed, Placed, CallListed, SameFile
  <1> QED  BY <1>1, <1>2

\* The later writes of a call complete the block before the list forgets it.
LEMMA ContinueList ==
  ASSUME Types, ListInv, Grown, Continue
  PROVE  ListInv'
  <1>1. CASE DirExtendClear
    <2>1. /\ UNCHANGED <<fcb, fcblist>>
          /\ call.op = "extend" /\ call'.op = "extend" /\ call'.f = call.f
      BY <1>1 DEF DirExtendClear, memory, Types, Calls, Idle, Excls
    <2> QED
      BY <2>1 DEF ListInv, NoTwice, HeldListed, Placed, CallListed, Listed
  <1>8. CASE DirExtendRecord
    <2>1. /\ UNCHANGED fcb /\ call.op = "extend" /\ call.f \in Fcb
          /\ \/ UNCHANGED fcblist /\ call'.op = "extend" /\ call'.f = call.f
             \/ fcblist' = REMFCB(call.f) /\ call' = Idle
      BY <1>8 DEF DirExtendRecord, Types, Calls, Idle, Excls
    <2>2. CASE UNCHANGED fcblist /\ call'.op = "extend" /\ call'.f = call.f
      BY <2>1, <2>2 DEF ListInv, NoTwice, HeldListed, Placed, CallListed, Listed
    <2>3. CASE fcblist' = REMFCB(call.f) /\ call' = Idle
      <3>0. PICK f \in Fcb : f = call.f
        BY <2>1
      <3>1. /\ fcb' = [fcb EXCEPT ![f] = fcb[f]] /\ fcb[f] \in Block
            /\ fcblist' = REMFCB(f)
        BY <2>1, <2>3, <3>0 DEF Types
      <3>2. /\ NoTwice'
            /\ \A g \in Fcb : g # f => (Listed(g)' <=> Listed(g))
            /\ ~Listed(f)'
        BY <3>1, BlockStep
      <3>3. call'.op = "idle" /\ fcb[f].fsa = None
        BY <2>1, <2>3, <3>0 DEF Idle, ListInv, CallListed
      <3> QED
        BY <2>1, <3>0, <3>2, <3>3 DEF ListInv, HeldListed, Placed, CallListed
    <2> QED  BY <2>1, <2>2, <2>3
  <1>2. CASE DirExtendEntry
    <2>1. PICK b \in Block : /\ fcb' = [fcb EXCEPT ![call.f] = b]
                            /\ b.fsa = None /\ b.fcd # 0
      BY <1>2, ExtendEntryBlock
    <2>2. /\ call.f \in Fcb /\ call.op = "extend" /\ call' = Idle
          /\ UNCHANGED fcblist \/ fcblist' = REMFCB(call.f)
      BY <1>2, ExtendEntryBlock DEF DirExtendEntry
    <2>3. /\ NoTwice'
          /\ \A g \in Fcb : fcb'[g] = IF g = call.f THEN b ELSE fcb[g]
          /\ \A g \in Fcb : g # call.f => (Listed(g)' <=> Listed(g))
      BY <2>1, <2>2, BlockStep
    <2>4. call'.op = "idle"
      BY <2>2 DEF Idle
    <2> QED
      BY <2>1, <2>2, <2>3, <2>4 DEF ListInv, HeldListed, Placed, CallListed
  <1>3. CASE CloseEntry
    <2>1. call.f \in Fcb /\ call.op = "close"
      BY <1>3, CloseEntryEffect
    <2>2. CASE CloseEntryDone
      <3>1. /\ UNCHANGED <<fcb, fcblist>>
            /\ call.op = "close" /\ call'.op = "close" /\ call'.f = call.f
        BY <2>1, <2>2 DEF CloseEntryDone, memory, Types, Calls, Idle, Excls
      <3> QED
        BY <3>1 DEF ListInv, NoTwice, HeldListed, Placed, CallListed, Listed
    <2>3. CASE CloseStops("dir")
      BY <2>1, <2>3, StopsList
    <2> QED  BY <1>3, <2>2, <2>3, CloseEntryEffect
  <1>4. CASE CloseRecord
    <2>1. call.f \in Fcb /\ call.op = "close"
      BY <1>4, CloseRecordEffect
    <2>2. CASE Closed(call.f, call.then)
      BY <2>1, <2>2, ClosedList
    <2>3. CASE INIT
      BY <2>3, InitStepList
    <2>4. CASE CloseStops("sir")
      BY <2>1, <2>4, StopsList
    <2> QED  BY <1>4, <2>2, <2>3, <2>4, CloseRecordEffect
  <1>5. CASE ExclsNext
    <2>1. Head(fcblist) \in Fcb /\ Listed(Head(fcblist))
      BY <1>5, HeadTailProperties DEF ExclsNext, Types, Listed, Range
    <2> QED  BY <1>5, <2>1, CloseList DEF ExclsNext
  <1>6. CASE ExclsDone \/ DeleteRecord
    <2>1. UNCHANGED <<fcb, fcblist>> /\ call'.op = "idle" /\ call.op # "extend"
      BY <1>6 DEF ExclsDone, DeleteRecord, memory, Idle, Excls
    <2> QED  BY <2>1, SameMemoryList
  <1>7. CASE DeleteEntry
    <2>1. UNCHANGED <<fcb, fcblist>> /\ call'.op \in {"delete", "idle"} /\ call.op = "delete"
      BY <1>7 DEF DeleteEntry, memory, Types, Calls, Idle, Excls
    <2> QED  BY <2>1, SameMemoryList
  <1> QED
    BY <1>1, <1>2, <1>3, <1>4, <1>5, <1>6, <1>7, <1>8 DEF Continue

\* The list invariant is preserved.
LEMMA StepList ==
  ASSUME Types, ListInv, Grown, "reopen" \in Discipline, [Next]_vars
  PROVE  ListInv'
  <1>1. ASSUME NEW f \in Fcb, NEW n \in Names, Opening(f, n)  PROVE ListInv'
    BY <1>1, OpeningList
  <1>2. ASSUME NEW f \in Fcb, NEW n \in Names, DeleteLink(f, n)  PROVE ListInv'
    <2>1. /\ UNCHANGED <<fcb, fcblist>> /\ call.op = "idle"
          /\ call' = call \/ call'.op = "delete"
      BY <1>2 DEF DeleteLink, CallerFree, Idle
    <2> QED  BY <2>1, SameMemoryList
  <1>3. ASSUME NEW f \in Fcb, NEW o \in Names, NEW n \in Names, Rename(f, o, n)  PROVE ListInv'
    BY <1>3, SameMemoryList DEF Rename, memory
  <1>4. ASSUME NEW f \in Fcb, Using(f)  PROVE ListInv'
    BY <1>4, UsingList
  <1>5. CASE ExclsCall
    <2>1. UNCHANGED <<fcb, fcblist>> /\ call.op = "idle" /\ call'.op = "excls"
      BY <1>5 DEF ExclsCall, memory, Idle, Excls
    <2> QED  BY <2>1, SameMemoryList
  <1>6. CASE Continue
    BY <1>6, ContinueList
  <1>7. CASE Restart
    BY <1>7, InitStepList DEF Restart
  <1>8. CASE UNCHANGED vars
    BY <1>8, SameMemoryList DEF vars, memory
  <1> QED
    BY <1>1, <1>2, <1>3, <1>4, <1>5, <1>6, <1>7, <1>8, Zenon DEF Next

\* The directory does not shrink.
LEMMA GrownStep ==
  ASSUME Types, Grown, [Next]_vars
  PROVE  Grown'
  <1>1. CASE call'.op # "extend" \/ call'.next = "clear"
    BY <1>1 DEF Grown
  <1>2. CASE UNCHANGED <<dir, call>>
    BY <1>2 DEF Grown
  <1>3. CASE DirExtendClear
    <2> DEFINE more == [i \in 1..DirSlots |-> NoFile(Never)]
    <2>1. more \in Seq(DirEntry) /\ Len(more) = DirSlots
      <3>1. NoFile(Never) \in DirEntry
        BY Values
      <3> QED  BY <3>1, SizeAssumption
    <2>2. dir' = dir \o more
      BY <1>3 DEF DirExtendClear
    <2> HIDE DEF more
    <2>4. dir \in Seq(DirEntry)
      BY DEF Types
    <2>3. Len(dir \o more) = Len(dir) + DirSlots /\ Len(dir) \in Nat
      <3>1. Len(dir \o more) = Len(dir) + Len(more)
        BY <2>1, <2>4, ConcatProperties
      <3>2. Len(dir) \in Nat
        BY <2>4
      <3> QED  BY <2>1, <3>1, <3>2
    <2> QED  BY <2>2, <2>3, SizeAssumption DEF Grown
  <1>4. CASE DirExtendRecord
    BY <1>4 DEF DirExtendRecord, Grown, Types, Calls, Idle, Excls
  <1>5. ASSUME NEW f \in Fcb, NEW n \in Names, Opening(f, n)  PROVE Grown'
    BY <1>1, <1>2, <1>5 DEF Opening, OpenWriteBusy, OpenWriteExists, OpenWrite, DirExtend,
      OpenFails, OpenRead, OpenUpdate, OpenAppend, CallerOpens, CallerFree, Idle, vars, disk
  <1>6. ASSUME NEW f \in Fcb, NEW then, CLOSE(f, then)  PROVE Grown'
    <2>1. \/ INIT \/ Closed(f, then) \/ call' = Idle
          \/ call' = [op |-> "close", f |-> f, then |-> then, next |-> "entry"]
      BY <1>6, CloseEffect, Zenon
    <2> QED  BY <1>1, <2>1 DEF INIT, Closed, Idle, Excls
  <1>7. ASSUME NEW f \in Fcb, Using(f)  PROVE Grown'
    <2>1. CASE Reading(f) \/ Writing(f)
      BY <1>2, <2>1, UsesBlock
    <2> QED  BY <1>6, <1>7, <2>1 DEF Using, Reading, Writing, CloseCall
  <1>8. ASSUME NEW f \in Fcb, NEW n \in Names, DeleteLink(f, n)  PROVE Grown'
    BY <1>1, <1>8 DEF DeleteLink, CallerFree, Idle
  <1>9. ASSUME NEW f \in Fcb, NEW o \in Names, NEW n \in Names, Rename(f, o, n)  PROVE Grown'
    BY <1>1, <1>9 DEF Rename, CallerFree, Idle
  <1>10. CASE CloseEntry
    <2>1. call'.op # "extend"
      BY <1>10 DEF CloseEntry, CloseFails, INIT, Types, Calls, Idle, Excls
    <2> QED  BY <1>1, <2>1
  <1>11. CASE CloseRecord
    <2>1. call'.op # "extend"
      BY <1>11 DEF CloseRecord, CloseFails, Closed, INIT, Idle, Excls
    <2> QED  BY <1>1, <2>1
  <1>12. CASE ExclsNext
    <2>1. Head(fcblist) \in Fcb
      BY <1>12, HeadTailProperties DEF ExclsNext, Types
    <2> QED  BY <1>6, <1>12, <2>1 DEF ExclsNext
  <1>13. CASE DirExtendEntry \/ ExclsDone \/ DeleteEntry \/ DeleteRecord \/ ExclsCall \/ Restart
    <2>1. call'.op # "extend"
      BY <1>13 DEF DirExtendEntry, ExclsDone, DeleteEntry, DeleteRecord, ExclsCall, Restart,
        INIT, Types, Calls, Idle, Excls
    <2> QED  BY <1>1, <2>1
  <1>14. CASE UNCHANGED vars
    BY <1>2, <1>14 DEF vars, disk
  <1> QED
    BY <1>3, <1>4, <1>5, <1>7, <1>8, <1>9, <1>10, <1>11, <1>12, <1>13, <1>14 DEF Next, Continue

-----------------------------------------------------------------------------
\* A block that writes a file stands for the entry of that file's name.
Located ==
  \A f \in Writers : /\ fcb[f].fcd \in 1..Len(dir)
                     /\ fcb[f].name \in Names
                     /\ dir[fcb[f].fcd].name = fcb[f].name

\* No name twice; no never-used entry before a name.
NamesOnce ==
  \A i, j \in 1..Len(dir) : dir[i].name \in Names /\ dir[i].name = dir[j].name => i = j

NeverLast ==
  \A i, j \in 1..Len(dir) : i < j /\ dir[j].name \in Names => dir[i].name # Never

\* A growing directory has no entry to reuse and lacks the new name; a DELETE
\* about to write its entry has found no block open on it.
Extending ==
  call.op = "extend" =>
    /\ \A i \in 1..Len(dir) : dir[i].name # call.name
    /\ call.next = "clear" => \A i \in 1..Len(dir) : dir[i].name # Never
    /\ call.next # "clear" =>
         /\ DirSlots <= Len(dir)
         /\ \A i \in 1..Len(dir) : dir[i].name # Never <=> i <= Len(dir) - DirSlots

Deleting == call.op = "delete" /\ call.next = "entry" => OpenOn(call.slot) = {}

\* The directory invariant.
DirInv == Located /\ OneWriter /\ NamesOnce /\ NeverLast /\ Extending /\ Deleting

\* A name is found wherever it is in the directory.
LEMMA NotFound ==
  ASSUME Types, NamesOnce, NeverLast, NEW n \in Names, Found(n) = {}
  PROVE  \A i \in 1..Len(dir) : dir[i].name # n
  <1> SUFFICES ASSUME NEW i \in 1..Len(dir), dir[i].name = n  PROVE FALSE
    OBVIOUS
  <1>1. Len(dir) \in Nat /\ DOMAIN dir = 1..Len(dir)
    BY DEF Types
  <1>2. \A j \in 1..(i - 1) : dir[j].name # Never
    BY <1>1 DEF NeverLast
  <1>3. i \in Found(n)
    BY <1>1, <1>2 DEF Found, Searched
  <1> QED  BY <1>3

\* When no entry is deleted or never used in the searched part, none is at all.
LEMMA NoneNever ==
  ASSUME Types, Reusable = {}
  PROVE  \A i \in 1..Len(dir) : dir[i].name # Never
  <1> DEFINE N == {i \in 1..Len(dir) : dir[i].name = Never}
  <1>1. Len(dir) \in Nat /\ DOMAIN dir = 1..Len(dir)
    BY DEF Types
  <1>2. SUFFICES ASSUME N # {}  PROVE FALSE
    OBVIOUS
  <1>3. N \subseteq Nat
    BY <1>1
  <1> HIDE DEF N
  <1>4. Min(N) \in N /\ \A y \in N : Min(N) <= y
    BY <1>2, <1>3, MinOfNat
  <1>5. PICK m \in N : \A y \in N : m <= y
    BY <1>4
  <1>6. m \in 1..Len(dir) /\ dir[m].name = Never
    BY DEF N
  <1>7. \A j \in 1..(m - 1) : dir[j].name # Never
    <2> SUFFICES ASSUME NEW j \in 1..(m - 1), dir[j].name = Never  PROVE FALSE
      OBVIOUS
    <2>1. j \in 1..Len(dir) /\ ~(m <= j)
      BY <1>1, <1>6
    <2>2. j \in N
      BY <2>1 DEF N
    <2> QED  BY <1>5, <2>1, <2>2
  <1>8. m \in Reusable
    BY <1>1, <1>6, <1>7 DEF Reusable, Searched
  <1> QED  BY <1>8

\* A directory write keeps the names apart: it keeps the entry's name, deletes
\* the entry, or writes a new name where no unused entry precedes.
LEMMA NamesStep ==
  ASSUME Types, NamesOnce, NeverLast, NEW i, NEW e \in DirEntry,
         Len(dir') = Len(dir),
         \A k \in 1..Len(dir) : dir'[k] = IF k = i THEN e ELSE dir[k],
         \/ i \in 1..Len(dir) => e.name = dir[i].name
         \/ e.name = Deleted
         \/ /\ e.name # Never /\ i \in 1..Len(dir)
            /\ \A k \in 1..Len(dir) : dir[k].name # e.name
            /\ \A k \in 1..Len(dir) : k < i => dir[k].name # Never
  PROVE  NamesOnce' /\ NeverLast'
  <1>1. Len(dir) \in Nat
    BY DEF Types
  <1>2. CASE i \in 1..Len(dir) => e.name = dir[i].name
    <2>1. \A k \in 1..Len(dir) : dir'[k].name = dir[k].name
      BY <1>2
    <2> QED  BY <2>1 DEF NamesOnce, NeverLast
  <1>3. CASE e.name = Deleted
    <2>1. \A k \in 1..Len(dir) : dir'[k].name = IF k = i THEN Deleted ELSE dir[k].name
      BY <1>3
    <2>2. Deleted \notin Names /\ Deleted # Never
      BY NameAssumption DEF Deleted, Never
    <2>3. NamesOnce'
      BY <2>1, <2>2 DEF NamesOnce
    <2>4. NeverLast'
      BY <2>1, <2>2 DEF NeverLast
    <2> QED  BY <2>3, <2>4
  <1>4. CASE /\ e.name # Never /\ i \in 1..Len(dir)
             /\ \A k \in 1..Len(dir) : dir[k].name # e.name
             /\ \A k \in 1..Len(dir) : k < i => dir[k].name # Never
    <2>1. \A k \in 1..Len(dir) : dir'[k].name = IF k = i THEN e.name ELSE dir[k].name
      OBVIOUS
    <2>2. NamesOnce'
      BY <1>4, <2>1 DEF NamesOnce
    <2>3. NeverLast'
      BY <1>4, <2>1 DEF NeverLast
    <2> QED  BY <2>2, <2>3
  <1> QED  BY <1>2, <1>3, <1>4

\* No block comes to be written, and no entry a block is written for changes.
LEMMA WritersStep ==
  ASSUME Types, Located, OneWriter, Len(dir') >= Len(dir), Len(dir') \in Nat,
         \A g \in Fcb : g \in Writers' =>
           /\ g \in Writers
           /\ fcb'[g].fcd = fcb[g].fcd /\ fcb'[g].name = fcb[g].name
           /\ dir'[fcb[g].fcd].name = dir[fcb[g].fcd].name
  PROVE  Located' /\ OneWriter'
  <1>1. Len(dir) \in Nat
    BY DEF Types
  <1>2. Writers' \subseteq Fcb
    BY DEF Writers
  <1> HIDE DEF Writers
  <1>3. Located'
    <2> SUFFICES ASSUME NEW g \in Writers'
                 PROVE  /\ fcb'[g].fcd \in 1..Len(dir')
                        /\ fcb'[g].name \in Names
                        /\ dir'[fcb'[g].fcd].name = fcb'[g].name
      BY DEF Located
    <2>1. /\ g \in Writers
          /\ fcb'[g].fcd = fcb[g].fcd /\ fcb'[g].name = fcb[g].name
          /\ dir'[fcb[g].fcd].name = dir[fcb[g].fcd].name
      BY <1>2
    <2>2. fcb[g].fcd \in 1..Len(dir) /\ fcb[g].name \in Names
          /\ dir[fcb[g].fcd].name = fcb[g].name
      BY <2>1 DEF Located
    <2>3. fcb[g].fcd \in 1..Len(dir')
      BY <1>1, <2>2
    <2> QED  BY <2>1, <2>2, <2>3
  <1>4. OneWriter'
    BY <1>2 DEF OneWriter
  <1> QED  BY <1>3, <1>4

\* The blocks on file n are all closed when a disciplined program opens it.
LEMMA NotOpen ==
  ASSUME Types, "share" \in Discipline, NEW n \in Names, CallerOwns(n), Found(n) # {}
  PROVE  \A g \in Writers : fcb[g].fcd # FNDNAM(n)
  <1>1. OpenOn(FNDNAM(n)) = {}
    BY FoundEntry DEF CallerOwns
  <1> QED  BY <1>1 DEF OpenOn, Writers

\* The writers depend on the blocks and the list.
LEMMA SameWriters ==
  ASSUME UNCHANGED <<fcb, fcblist>>
  PROVE  Writers' = Writers /\ \A i : OpenOn(i)' = OpenOn(i)
  BY DEF Writers, OpenOn, Listed

\* Calls that neither grow the directory nor delete.
LEMMA IdleDir ==
  ASSUME call'.op \notin {"extend", "delete"}
  PROVE  Extending' /\ Deleting'
  BY DEF Extending, Deleting

\* A step that neither writes the directory nor makes a block a writer.
LEMMA SameDirStep ==
  ASSUME Types, DirInv, UNCHANGED dir,
         \A g \in Fcb : g \in Writers' =>
           g \in Writers /\ fcb'[g].fcd = fcb[g].fcd /\ fcb'[g].name = fcb[g].name
  PROVE  Located' /\ OneWriter' /\ NamesOnce' /\ NeverLast'
  <1>1. Located' /\ OneWriter'
    BY WritersStep DEF DirInv, Types
  <1>2. NamesOnce' /\ NeverLast'
    BY DEF DirInv, NamesOnce, NeverLast
  <1> QED  BY <1>1, <1>2

\* Block f becomes the writer of entry i, which nobody writes, under its name.
LEMMA NewWriter ==
  ASSUME Types, Located, OneWriter, NEW f \in Fcb, NEW n \in Names, NEW i \in 1..Len(dir),
         \A g \in Writers : fcb[g].fcd # i,
         Len(dir') = Len(dir), dir'[i].name = n,
         \A k \in 1..Len(dir) : k # i => dir'[k] = dir[k],
         \A g \in Fcb : g \in Writers' =>
           /\ g = f => fcb'[g].fcd = i /\ fcb'[g].name = n
           /\ g # f => g \in Writers /\ fcb'[g] = fcb[g]
  PROVE  Located' /\ OneWriter'
  <1>1. \A g \in Writers' : /\ g = f => fcb'[g].fcd = i /\ fcb'[g].name = n
                            /\ g # f => g \in Writers /\ fcb'[g] = fcb[g]
    BY DEF Writers
  <1> HIDE DEF Writers
  <1>2. Located'
    <2> SUFFICES ASSUME NEW g \in Writers'
                 PROVE  /\ fcb'[g].fcd \in 1..Len(dir')
                        /\ fcb'[g].name \in Names
                        /\ dir'[fcb'[g].fcd].name = fcb'[g].name
      BY DEF Located
    <2>1. CASE g = f
      BY <1>1, <2>1
    <2>2. CASE g # f
      BY <1>1, <2>2 DEF Located
    <2> QED  BY <2>1, <2>2
  <1>3. OneWriter'
    BY <1>1 DEF OneWriter
  <1> QED  BY <1>2, <1>3

\* The open's entry is free, or the only one of its name.
LEMMA OpeningDir ==
  ASSUME Types, ListInv, DirInv, "share" \in Discipline,
         NEW f \in Fcb, NEW n \in Names, Opening(f, n)
  PROVE  DirInv'
  <1>0. call = Idle
    BY DEF Opening, CallerOpens, CallerFree, OpenWriteBusy, OpenWriteExists, OpenWrite,
      DirExtend, OpenFails, OpenRead, OpenUpdate, OpenAppend
  <1>1. CASE OpenWriteBusy(f)
    <2>1. UNCHANGED <<fcb, call, dir>> /\ fcblist' = REMFCB(f)
      BY <1>1 DEF OpenWriteBusy, disk
    <2>2. fcb' = [fcb EXCEPT ![f] = fcb[f]] /\ fcb[f] \in Block
      BY <2>1 DEF Types
    <2>3. /\ \A g \in Fcb : g # f => (Listed(g)' <=> Listed(g))
          /\ ~Listed(f)'
      BY <2>1, <2>2, BlockStep
    <2>4. \A g \in Fcb : g \in Writers' =>
            g \in Writers /\ fcb'[g].fcd = fcb[g].fcd /\ fcb'[g].name = fcb[g].name
      BY <2>1, <2>3 DEF Writers
    <2> QED  BY <1>0, <2>1, <2>4, SameDirStep, IdleDir DEF DirInv, Idle
  <1>2. CASE OpenWriteExists(f, n) \/ OpenFails(f, n)
    <2>1. UNCHANGED <<fcb, fcblist, call, dir>>
      BY <1>2 DEF OpenWriteExists, OpenFails, vars, disk, memory
    <2> QED  BY <1>0, <2>1, SameWriters, SameDirStep, IdleDir DEF DirInv, Idle
  <1>3. CASE OpenWrite(f, n)
    <2> DEFINE i == FirstDeleted
    <2>1. PICK new \in Block : /\ fcb' = [fcb EXCEPT ![f] = new]
                              /\ new.fas = 2 /\ new.name = n /\ new.fcd = i
      BY <1>3, CreatesBlock
    <2>2. /\ ~Listed(f) /\ UNCHANGED call
          /\ \/ fcblist' = SETFCB(f) /\ WriteEntry(i, NoFile(n))
             \/ UNCHANGED <<fcblist, dir>>
      BY <1>3 DEF OpenWrite
    <2>3. /\ \A g \in Fcb : fcb'[g] = IF g = f THEN new ELSE fcb[g]
          /\ \A g \in Fcb : g # f => (Listed(g)' <=> Listed(g))
          /\ UNCHANGED fcblist => ~Listed(f)'
      BY <2>1, <2>2, BlockStep
    <2>4. \A g \in Fcb : g \in Writers' /\ g # f => g \in Writers /\ fcb'[g] = fcb[g]
      BY <2>3 DEF Writers
    <2>5. CASE UNCHANGED <<fcblist, dir>>
      <3>1. f \notin Writers'
        BY <2>3, <2>5 DEF Writers
      <3>2. \A g \in Fcb : g \in Writers' =>
              g \in Writers /\ fcb'[g].fcd = fcb[g].fcd /\ fcb'[g].name = fcb[g].name
        BY <2>4, <3>1
      <3> QED  BY <1>0, <2>2, <2>5, <3>2, SameDirStep, IdleDir DEF DirInv, Idle
    <2>6. CASE fcblist' = SETFCB(f) /\ WriteEntry(i, NoFile(n))
      <3>1. i \in 1..Len(dir) /\ i \in Reusable
        BY <1>3, ReusableEntry DEF OpenWrite
      <3> HIDE DEF i
      <3>2. NoFile(n) \in DirEntry /\ NoFile(n).name = n
        BY Values DEF NoFile, Entry
      <3>3. /\ Len(dir') = Len(dir) /\ Len(dir) \in Nat
            /\ \A k \in 1..Len(dir) : dir'[k] = IF k = i THEN NoFile(n) ELSE dir[k]
        BY <2>6, <3>2, WriteEntryTypes DEF Types
      <3>4. \A k \in 1..Len(dir) : dir[k].name # n
        BY <1>3, NotFound DEF OpenWrite, DirInv
      <3>5. /\ dir[i].name \in {Deleted, Never}
            /\ \A k \in 1..Len(dir) : k < i => dir[k].name # Never
        BY <3>1, <3>3 DEF Reusable, Searched
      <3>6. n # Never /\ Deleted \notin Names /\ Never \notin Names
        BY NameAssumption
      <3>7. NamesOnce' /\ NeverLast'
        BY <3>1, <3>2, <3>3, <3>4, <3>5, <3>6, NamesStep DEF DirInv
      <3>8. \A g \in Writers : fcb[g].fcd # i
        BY <3>5, <3>6 DEF DirInv, Located
      <3>9. \A g \in Fcb : g \in Writers' =>
              /\ g = f => fcb'[g].fcd = i /\ fcb'[g].name = n
              /\ g # f => g \in Writers /\ fcb'[g] = fcb[g]
        BY <2>1, <2>3, <2>4
      <3>10. Located' /\ OneWriter'
        <4>1. /\ Len(dir') = Len(dir) /\ dir'[i].name = n
              /\ \A k \in 1..Len(dir) : k # i => dir'[k] = dir[k]
          BY <3>1, <3>2, <3>3
        <4>2. Located /\ OneWriter
          BY DEF DirInv
        <4> QED  BY <3>1, <3>8, <3>9, <4>1, <4>2, NewWriter
      <3> QED  BY <1>0, <2>2, <3>7, <3>10, IdleDir DEF DirInv, Idle
    <2> QED  BY <2>2, <2>5, <2>6
  <1>4. CASE DirExtend(f, n)
    <2>1. PICK new \in Block : fcb' = [fcb EXCEPT ![f] = new] /\ new.fcd = 0
      BY <1>4, ExtendsBlock
    <2>2. /\ ~Listed(f) /\ UNCHANGED dir
          /\ \/ fcblist' = fcblist /\ call' = call
             \/ /\ fcblist' = SETFCB(f)
                /\ call' = [op |-> "extend", f |-> f, name |-> n, next |-> "clear"]
      BY <1>4 DEF DirExtend
    <2>3. /\ \A g \in Fcb : fcb'[g] = IF g = f THEN new ELSE fcb[g]
          /\ \A g \in Fcb : g # f => (Listed(g)' <=> Listed(g))
      BY <2>1, <2>2, BlockStep
    <2>4. \A g \in Fcb : g \in Writers' =>
            g \in Writers /\ fcb'[g].fcd = fcb[g].fcd /\ fcb'[g].name = fcb[g].name
      BY <2>1, <2>3 DEF Writers
    <2>5. /\ \A i \in 1..Len(dir) : dir[i].name # n
          /\ \A i \in 1..Len(dir) : dir[i].name # Never
      BY <1>4, NotFound, NoneNever DEF DirExtend, DirInv
    <2>6. Deleting' /\ Extending'
      <3>1. CASE call' = call
        BY <1>0, <3>1, IdleDir DEF Idle
      <3>2. CASE call' = [op |-> "extend", f |-> f, name |-> n, next |-> "clear"]
        BY <2>2, <2>5, <3>2 DEF Deleting, Extending
      <3> QED  BY <2>2, <3>1, <3>2
    <2> QED  BY <2>2, <2>4, <2>6, SameDirStep DEF DirInv
  <1>5. CASE OpenRead(f, n) \/ OpenUpdate(f, n) \/ OpenAppend(f, n)
    <2> DEFINE i == FNDNAM(n)
    <2>1. PICK new \in Block :
            fcb' = [fcb EXCEPT ![f] = new] /\ new.fcd = i /\ new.name = n
      BY <1>5, OpensBlock
    <2>2. ~Listed(f) /\ fcblist' = SETFCB(f) /\ UNCHANGED <<dir, call>>
      BY <1>5, OpensBlock
    <2>3. /\ \A g \in Fcb : fcb'[g] = IF g = f THEN new ELSE fcb[g]
          /\ \A g \in Fcb : g # f => (Listed(g)' <=> Listed(g))
      BY <2>1, <2>2, BlockStep
    <2>4. \A g \in Fcb : g \in Writers' /\ g # f => g \in Writers /\ fcb'[g] = fcb[g]
      BY <2>3 DEF Writers
    <2>5. i \in 1..Len(dir) /\ dir[i].name = n /\ \A g \in Writers : fcb[g].fcd # i
      BY <1>5, OpensBlock, FoundEntry, NotOpen
    <2> HIDE DEF i
    <2>6. \A g \in Fcb : g \in Writers' =>
            /\ g = f => fcb'[g].fcd = i /\ fcb'[g].name = n
            /\ g # f => g \in Writers /\ fcb'[g] = fcb[g]
      BY <2>1, <2>3, <2>4
    <2>7. Located' /\ OneWriter'
      <3>1. /\ Len(dir') = Len(dir) /\ dir'[i].name = n
            /\ \A k \in 1..Len(dir) : k # i => dir'[k] = dir[k]
        BY <2>2, <2>5
      <3>2. Located /\ OneWriter
        BY DEF DirInv
      <3> QED  BY <2>5, <2>6, <3>1, <3>2, NewWriter
    <2>8. NamesOnce' /\ NeverLast'
      BY <2>2 DEF DirInv, NamesOnce, NeverLast
    <2> QED  BY <1>0, <2>2, <2>7, <2>8, IdleDir DEF DirInv, Idle
  <1> QED
    BY <1>1, <1>2, <1>3, <1>4, <1>5 DEF Opening

\* What a CLOSE that leaves the directory alone does to the writers.
LEMMA CloseDir ==
  ASSUME Types, ListInv, DirInv, "entry" \notin FaultAt, call \in {Idle, Excls},
         NEW f \in Fcb, NEW then, Listed(f), CLOSE(f, then)
  PROVE  DirInv'
  <1>0. call.op # "extend" /\ call.op # "delete"
    BY DEF Idle, Excls
  <1>1. Extending' /\ Deleting'
    <2>1. \/ INIT \/ Closed(f, then) \/ call' = Idle
          \/ call' = [op |-> "close", f |-> f, then |-> then, next |-> "entry"]
      BY CloseEffect, Zenon
    <2>2. call' \in {Idle, Excls} \/ call'.op = "close"
      BY <2>1 DEF INIT, Closed
    <2> QED  BY <2>2, IdleDir DEF Idle, Excls
  <1>2. \A g \in Fcb : g \in Writers' => g \in Writers /\ fcb'[g] = fcb[g]
    <2>1. CASE INIT
      BY <2>1 DEF INIT, Writers, Listed, Range
    <2>2. CASE Closed(f, then)
      <3>1. fcb' = [fcb EXCEPT ![f] = Blank] /\ fcblist' = REMFCB(f) /\ Blank \in Block
        BY <2>2, Values DEF Closed
      <3>2. /\ \A g \in Fcb : fcb'[g] = IF g = f THEN Blank ELSE fcb[g]
            /\ \A g \in Fcb : g # f => (Listed(g)' <=> Listed(g))
            /\ ~Listed(f)'
        BY <3>1, BlockStep
      <3> QED  BY <3>2 DEF Writers
    <2>3. CASE UNCHANGED <<fcb, fcblist>>
      BY <2>3, SameWriters
    <2>4. ASSUME NEW b \in Block, fcb' = [fcb EXCEPT ![f] = b], b = fcb[f] \/ b.fas # 2,
                 UNCHANGED fcblist
          PROVE  \A g \in Fcb : g \in Writers' => g \in Writers /\ fcb'[g] = fcb[g]
      <3>1. /\ \A g \in Fcb : fcb'[g] = IF g = f THEN b ELSE fcb[g]
            /\ \A g \in Fcb : Listed(g)' <=> Listed(g)
        BY <2>4, BlockStep
      <3> QED  BY <2>4, <3>1 DEF Writers
    <2> QED  BY <2>1, <2>2, <2>3, <2>4, CloseEffect
  <1>3. CASE UNCHANGED dir
    BY <1>1, <1>2, <1>3, SameDirStep DEF DirInv
  <1>4. CASE fcb[f].fas = 2 /\ Closed(f, then) /\ WriteEntry(fcb[f].fcd, NoFile(Deleted))
    <2> DEFINE i == fcb[f].fcd
    <2>1. f \in Writers
      BY <1>0, <1>4 DEF ListInv, Placed, Writers
    <2>2. NoFile(Deleted) \in DirEntry /\ NoFile(Deleted).name = Deleted
      BY Values DEF NoFile, Entry
    <2>3. /\ Len(dir') = Len(dir) /\ Len(dir) \in Nat
          /\ \A k \in 1..Len(dir) : dir'[k] = IF k = i THEN NoFile(Deleted) ELSE dir[k]
      BY <1>4, <2>2, WriteEntryTypes DEF Types
    <2>4. NamesOnce' /\ NeverLast'
      <3> HIDE DEF i
      <3> QED  BY <2>2, <2>3, NamesStep DEF DirInv
    <2>5. f \notin Writers'
      <3>1. fcblist' = REMFCB(f)
        BY <1>4 DEF Closed
      <3> QED
        BY <3>1, RemfcbProperties DEF Writers, Listed, Types, ListInv, NoTwice
    <2>6. \A g \in Writers : g # f => fcb[g].fcd # i /\ fcb[g].fcd \in 1..Len(dir)
      BY <2>1 DEF DirInv, OneWriter, Located
    <2>7. \A g \in Fcb : g \in Writers' =>
            /\ g \in Writers /\ fcb'[g].fcd = fcb[g].fcd /\ fcb'[g].name = fcb[g].name
            /\ dir'[fcb[g].fcd].name = dir[fcb[g].fcd].name
      BY <1>2, <2>3, <2>5, <2>6
    <2> HIDE DEF i
    <2>8. Located' /\ OneWriter'
      BY <2>3, <2>7, WritersStep DEF DirInv
    <2> QED  BY <1>1, <2>4, <2>8 DEF DirInv
  <1>5. fcb[f].fsb # "dir"
    BY DEF Types, Block, Buffered
  <1> QED  BY <1>3, <1>4, <1>5, CloseEffect

\* Using a file writes no entry until it is closed.
LEMMA UsingDir ==
  ASSUME Types, ListInv, DirInv, "entry" \notin FaultAt, NEW f \in Fcb, Using(f)
  PROVE  DirInv'
  <1>1. CASE Reading(f) \/ Writing(f)
    <2>1. PICK b \in Block : fcb' = [fcb EXCEPT ![f] = b] /\ SameFile(b, fcb[f])
      BY <1>1, UsesBlock
    <2>2. call = Idle /\ UNCHANGED <<fcblist, call, dir>>
      BY <1>1, UsesBlock
    <2>3. /\ \A g \in Fcb : fcb'[g] = IF g = f THEN b ELSE fcb[g]
          /\ \A g \in Fcb : Listed(g)' <=> Listed(g)
      BY <2>1, <2>2, BlockStep
    <2>4. \A g \in Fcb : g \in Writers' =>
            g \in Writers /\ fcb'[g].fcd = fcb[g].fcd /\ fcb'[g].name = fcb[g].name
      BY <2>1, <2>3 DEF Writers, SameFile
    <2> QED  BY <2>2, <2>4, SameDirStep, IdleDir DEF DirInv, Idle
  <1>2. CASE CloseCall(f)
    BY <1>2, CloseDir DEF CloseCall, CallerUses, CallerFree
  <1> QED  BY <1>1, <1>2 DEF Using, Reading, Writing

\* DELETE finds nobody writing the entry it will clear.
LEMMA DeleteLinkDir ==
  ASSUME Types, DirInv, "share" \in Discipline,
         NEW f \in Fcb, NEW n \in Names, DeleteLink(f, n)
  PROVE  DirInv'
  <1>1. /\ UNCHANGED <<fcb, fcblist, dir>> /\ call = Idle
        /\ CallerOwns(n) /\ Found(n) # {}
        /\ call' = call \/ call' = [op |-> "delete", slot |-> FNDNAM(n), next |-> "entry"]
    BY DEF DeleteLink, CallerFree
  <1>2. Located' /\ OneWriter' /\ NamesOnce' /\ NeverLast'
    BY <1>1, SameWriters, SameDirStep
  <1>3. OpenOn(FNDNAM(n)) = {}
    BY <1>1, FoundEntry DEF CallerOwns
  <1>4. Extending' /\ Deleting'
    <2>1. CASE call' = call
      BY <1>1, <2>1, IdleDir DEF Idle
    <2>2. CASE call' = [op |-> "delete", slot |-> FNDNAM(n), next |-> "entry"]
      <3>1. OpenOn(FNDNAM(n))' = {}
        BY <1>1, <1>3 DEF OpenOn, Listed, FNDNAM, Found, Searched
      <3>2. UNCHANGED FNDNAM(n)
        BY <1>1 DEF FNDNAM, Found, Searched
      <3>3. call'.op = "delete" /\ call'.slot = FNDNAM(n)'
        BY <2>2, <3>2
      <3>4. OpenOn(call.slot)' = {}
        BY <3>1, <3>3 DEF OpenOn
      <3> QED  BY <3>3, <3>4 DEF Extending, Deleting
    <2> QED  BY <1>1, <2>1, <2>2
  <1> QED  BY <1>2, <1>4 DEF DirInv

\* RENAME writes a name it did not find.
LEMMA RenameDir ==
  ASSUME Types, DirInv, "share" \in Discipline,
         NEW f \in Fcb, NEW old \in Names, NEW new \in Names, Rename(f, old, new)
  PROVE  DirInv'
  <1> DEFINE i == FNDNAM(old)
             e == [dir[i] EXCEPT !.name = new]
  <1>1. /\ UNCHANGED <<fcb, fcblist, call>> /\ call = Idle
        /\ CallerOwns(old) /\ Found(old) # {} /\ Found(new) = {}
        /\ UNCHANGED dir \/ dir' = [dir EXCEPT ![i].name = new]
    BY DEF Rename, CallerFree, memory
  <1>2. CASE UNCHANGED dir
    BY <1>1, <1>2, SameWriters, SameDirStep, IdleDir DEF DirInv, Idle
  <1>3. CASE dir' = [dir EXCEPT ![i].name = new]
    <2>1. i \in Found(old) /\ i \in 1..Len(dir) /\ dir[i] \in DirEntry
      BY <1>1, FoundEntry
    <2>2. \A g \in Writers : fcb[g].fcd # i
      BY <1>1, NotOpen
    <2>3. e \in DirEntry /\ e.name = new
      BY <2>1, Values DEF DirEntry
    <2>4. /\ Len(dir') = Len(dir) /\ Len(dir) \in Nat
          /\ \A k \in 1..Len(dir) : dir'[k] = IF k = i THEN e ELSE dir[k]
      <3>1. dir' = [dir EXCEPT ![i] = e]
        BY <1>3, <2>1 DEF Types
      <3> HIDE DEF e
      <3> QED  BY <2>1, <2>3, <3>1, ExceptSeq DEF Types
    <2>5. \A k \in 1..Len(dir) : k < i => dir[k].name # Never
      BY <2>1, <2>4 DEF Found, Searched
    <2>6. new # Never
      BY NameAssumption
    <2>7. \A k \in 1..Len(dir) : dir[k].name # new
      BY <1>1, NotFound DEF DirInv
    <2> HIDE DEF e, i
    <2>8. NamesOnce' /\ NeverLast'
      BY <2>1, <2>3, <2>4, <2>5, <2>6, <2>7, NamesStep DEF DirInv
    <2>9. Writers' = Writers
      BY <1>1, SameWriters
    <2>10. \A g \in Fcb : g \in Writers' =>
            /\ g \in Writers /\ fcb'[g].fcd = fcb[g].fcd /\ fcb'[g].name = fcb[g].name
            /\ dir'[fcb[g].fcd].name = dir[fcb[g].fcd].name
      BY <1>1, <2>2, <2>4, <2>9 DEF DirInv, Located
    <2>11. Located' /\ OneWriter'
      BY <2>4, <2>10, WritersStep DEF DirInv
    <2> QED  BY <1>1, <2>8, <2>11, IdleDir DEF DirInv, Idle
  <1> QED  BY <1>1, <1>2, <1>3

\* The new entry is the first never-used one.
LEMMA ExtendEntryDir ==
  ASSUME Types, ListInv, Grown, DirInv, DirExtendEntry
  PROVE  DirInv'
  <1> DEFINE i == Len(dir) - DirSlots + 1
             f == call.f
             n == call.name
  <1>1. f \in Fcb /\ n \in Names /\ i \in Nat \ {0}
    BY ExtendEntryBlock
  <1>2. PICK b \in Block : fcb' = [fcb EXCEPT ![f] = b] /\ b.name = n /\ b.fcd = i
    BY ExtendEntryBlock
  <1>3. /\ call' = Idle /\ call.op = "extend" /\ call.next = "entry"
        /\ \/ WriteEntry(i, NoFile(n)) /\ UNCHANGED fcblist
           \/ UNCHANGED dir /\ fcblist' = REMFCB(f)
    BY DEF DirExtendEntry
  <1>4. i \in 1..Len(dir) /\ DirSlots <= Len(dir) /\ Len(dir) \in Nat
    BY <1>1, <1>3, SizeAssumption DEF DirInv, Extending, Types
  <1>5. /\ dir[i].name = Never
        /\ \A k \in 1..Len(dir) : dir[k].name # n
        /\ \A k \in 1..Len(dir) : k < i => dir[k].name # Never
    BY <1>3, <1>4, SizeAssumption DEF DirInv, Extending
  <1>6. NoFile(n) \in DirEntry /\ NoFile(n).name = n /\ n # Never /\ Never \notin Names
    BY <1>1, Values, NameAssumption DEF NoFile, Entry
  <1> HIDE DEF i, f, n
  <1>14. CASE WriteEntry(i, NoFile(n)) /\ UNCHANGED fcblist
    <2>7. /\ Len(dir') = Len(dir)
          /\ \A k \in 1..Len(dir) : dir'[k] = IF k = i THEN NoFile(n) ELSE dir[k]
      BY <1>6, <1>14, WriteEntryTypes
    <2>8. NamesOnce' /\ NeverLast'
      BY <1>4, <1>5, <1>6, <2>7, NamesStep DEF DirInv
    <2>9. /\ \A g \in Fcb : fcb'[g] = IF g = f THEN b ELSE fcb[g]
          /\ \A g \in Fcb : Listed(g)' <=> Listed(g)
      BY <1>1, <1>2, <1>14, BlockStep
    <2>10. \A g \in Fcb : g \in Writers' =>
              /\ g = f => fcb'[g].fcd = i /\ fcb'[g].name = n
              /\ g # f => g \in Writers /\ fcb'[g] = fcb[g]
      BY <1>2, <2>9 DEF Writers
    <2>11. \A g \in Writers : fcb[g].fcd # i
      BY <1>5, <1>6 DEF DirInv, Located
    <2>12. /\ dir'[i].name = n
           /\ \A k \in 1..Len(dir) : k # i => dir'[k] = dir[k]
      BY <1>4, <1>6, <2>7
    <2>13. Located' /\ OneWriter'
      <3>1. Located /\ OneWriter
        BY DEF DirInv
      <3> QED  BY <1>1, <1>4, <2>7, <2>10, <2>11, <2>12, <3>1, NewWriter
    <2> QED  BY <1>3, <2>8, <2>13, IdleDir DEF DirInv, Idle
  <1>15. CASE UNCHANGED dir /\ fcblist' = REMFCB(f)
    <2>0. PICK h \in Fcb : h = f
      BY <1>1
    <2>1. /\ \A g \in Fcb : fcb'[g] = IF g = h THEN b ELSE fcb[g]
          /\ \A g \in Fcb : g # h => (Listed(g)' <=> Listed(g))
          /\ ~Listed(h)'
      BY <1>2, <1>15, <2>0, BlockStep
    <2>2. \A g \in Fcb : g \in Writers' =>
            g \in Writers /\ fcb'[g].fcd = fcb[g].fcd /\ fcb'[g].name = fcb[g].name
      BY <2>1 DEF Writers
    <2> QED  BY <1>3, <1>15, <2>2, SameDirStep, IdleDir DEF DirInv, Idle
  <1> QED  BY <1>3, <1>14, <1>15

\* The later writes of CLOSE, the growing directory and DELETE.
LEMMA ContinueDir ==
  ASSUME Types, ListInv, Grown, DirInv, "entry" \notin FaultAt, Continue
  PROVE  DirInv'
  <1>1. CASE DirExtendClear
    <2> DEFINE more == [i \in 1..DirSlots |-> NoFile(Never)]
               n == Len(dir)
    <2>0. n \in Nat /\ DirSlots \in Nat \ {0}
      BY SizeAssumption DEF Types
    <2>1. /\ more \in Seq(DirEntry) /\ Len(more) = DirSlots
          /\ \A i \in 1..DirSlots : more[i].name = Never
      <3>1. NoFile(Never) \in DirEntry /\ NoFile(Never).name = Never
        BY Values DEF NoFile, Entry
      <3> QED  BY <3>1, SizeAssumption
    <2>2. dir' = dir \o more /\ UNCHANGED <<fcb, fcblist>>
      BY <1>1 DEF DirExtendClear, memory
    <2> HIDE DEF more
    <2>3. /\ Len(dir') = n + DirSlots
          /\ \A k \in 1..(n + DirSlots) :
               dir'[k] = IF k <= n THEN dir[k] ELSE more[k - n]
      BY <2>1, <2>2, ConcatProperties DEF Types
    <2>4. \A k \in 1..(n + DirSlots) : k > n => dir'[k].name = Never
      <3> SUFFICES ASSUME NEW k \in 1..(n + DirSlots), k > n  PROVE dir'[k].name = Never
        OBVIOUS
      <3>1. k - n \in 1..DirSlots
        BY <2>0
      <3> QED  BY <2>0, <2>1, <2>3, <3>1
    <2>5. \A k \in 1..n : k \in 1..(n + DirSlots) /\ dir'[k] = dir[k]
      BY <2>0, <2>3
    <2>6. /\ call.op = "extend" /\ call.next = "clear"
          /\ call'.op = "extend" /\ call'.next = "sir" /\ call'.name = call.name
      BY <1>1 DEF DirExtendClear, Types, Calls, Idle, Excls
    <2>7. /\ \A k \in 1..n : dir[k].name # Never /\ dir[k].name # call.name
          /\ call.name \in Names
      BY <2>6 DEF DirInv, Extending, Types, Calls, Idle, Excls
    <2>8. Never \notin Names
      BY NameAssumption
    <2> HIDE DEF n
    <2>9. Extending'
      <3>1. \A k \in 1..Len(dir') : dir'[k].name # call'.name
        BY <2>0, <2>3, <2>4, <2>5, <2>6, <2>7, <2>8
      <3>2. \A k \in 1..Len(dir') : dir'[k].name # Never <=> k <= Len(dir') - DirSlots
        BY <2>0, <2>3, <2>4, <2>5, <2>7
      <3>3. Len(dir') >= DirSlots
        BY <2>0, <2>3
      <3> QED  BY <2>6, <3>1, <3>2, <3>3 DEF Extending
    <2>10. NamesOnce'
      BY <2>0, <2>3, <2>4, <2>5, <2>8 DEF DirInv, NamesOnce, n
    <2>11. NeverLast'
      BY <2>0, <2>3, <2>4, <2>5, <2>7, <2>8 DEF NeverLast
    <2>12. Located' /\ OneWriter'
      <3>1. \A g \in Writers : fcb[g].fcd \in 1..n
        BY DEF DirInv, Located, n
      <3>2. \A g \in Fcb : g \in Writers' =>
              /\ g \in Writers
              /\ fcb'[g].fcd = fcb[g].fcd /\ fcb'[g].name = fcb[g].name
              /\ dir'[fcb[g].fcd].name = dir[fcb[g].fcd].name
        BY <2>2, <2>5, <3>1, SameWriters
      <3>3. Len(dir') >= Len(dir) /\ Len(dir') \in Nat
        BY <2>0, <2>3 DEF n
      <3> QED  BY <3>2, <3>3, WritersStep DEF DirInv
    <2>13. Deleting'
      BY <2>6 DEF Deleting
    <2> QED  BY <2>9, <2>10, <2>11, <2>12, <2>13 DEF DirInv
  <1>2. CASE DirExtendRecord
    <2>1. /\ UNCHANGED <<fcb, dir>> /\ call.f \in Fcb
          /\ call.op = "extend" /\ call.next = "sir"
          /\ \/ /\ UNCHANGED fcblist
                /\ call'.op = "extend" /\ call'.next = "entry" /\ call'.name = call.name
             \/ fcblist' = REMFCB(call.f) /\ call' = Idle
      BY <1>2 DEF DirExtendRecord, Types, Calls, Idle, Excls
    <2>2. Extending' /\ Deleting'
      BY <2>1 DEF DirInv, Extending, Deleting, Idle
    <2>3. Range(fcblist') \subseteq Range(fcblist)
      BY <2>1, RemfcbProperties DEF Types, ListInv, NoTwice
    <2>4. \A g \in Fcb : g \in Writers' =>
            g \in Writers /\ fcb'[g].fcd = fcb[g].fcd /\ fcb'[g].name = fcb[g].name
      BY <2>1, <2>3 DEF Writers, Listed
    <2> QED  BY <2>1, <2>2, <2>4, SameDirStep DEF DirInv
  <1>3. CASE DirExtendEntry
    BY <1>3, ExtendEntryDir
  <1>4. CASE CloseEntry
    <2> DEFINE b == fcb[call.f]
               e == Entry(b.name, b.fsa, b.fea, b.fsz)
    <2>0. CloseEntryDone /\ call.op = "close" /\ call.f \in Fcb
      BY <1>4, CloseEntryEffect
    <2>1. /\ WriteEntry(b.fcd, e) /\ call.op = "close" /\ call'.op = "close"
          /\ UNCHANGED <<fcb, fcblist>> /\ call.f \in Fcb
      BY <2>0 DEF CloseEntryDone, memory, Types, Calls, Idle, Excls
    <2>2. call.f \in Writers
      BY <2>1 DEF ListInv, CallListed, Placed, Writers
    <2>3. b.fcd \in 1..Len(dir) /\ dir[b.fcd].name = b.name
      BY <2>2 DEF DirInv, Located
    <2>4. e \in DirEntry /\ e.name = b.name
      BY <2>1 DEF Entry, DirEntry, Block, Fields, Types
    <2> HIDE DEF b, e
    <2>5. /\ Len(dir') = Len(dir) /\ Len(dir) \in Nat
          /\ \A k \in 1..Len(dir) : dir'[k] = IF k = b.fcd THEN e ELSE dir[k]
      BY <2>1, <2>4, WriteEntryTypes DEF Types
    <2>6. NamesOnce' /\ NeverLast'
      BY <2>3, <2>4, <2>5, NamesStep DEF DirInv
    <2>7. \A k \in 1..Len(dir) : dir'[k].name = dir[k].name
      BY <2>3, <2>4, <2>5
    <2>8. \A g \in Fcb : g \in Writers' =>
            /\ g \in Writers /\ fcb'[g].fcd = fcb[g].fcd /\ fcb'[g].name = fcb[g].name
            /\ dir'[fcb[g].fcd].name = dir[fcb[g].fcd].name
      BY <2>1, <2>7, SameWriters DEF DirInv, Located
    <2>9. Located' /\ OneWriter'
      BY <2>5, <2>8, WritersStep DEF DirInv
    <2> QED  BY <2>1, <2>6, <2>9, IdleDir DEF DirInv
  <1>5. CASE CloseRecord
    <2>1. call.f \in Fcb /\ call.op = "close" /\ UNCHANGED dir
      BY <1>5, CloseRecordEffect
    <2>2. CASE INIT
      <3>1. call' = Idle /\ Writers' = {}
        BY <2>2 DEF INIT, Writers, Listed, Range
      <3> QED  BY <2>1, <3>1, SameDirStep, IdleDir DEF DirInv, Idle
    <2>6. PICK f \in Fcb : f = call.f
      BY <2>1
    <2>3. ASSUME NEW b \in Block, fcb' = [fcb EXCEPT ![f] = b], call' \in {Idle, Excls},
                 \/ b.fas # 2 /\ fcblist' = REMFCB(f)
                 \/ SameFile(b, fcb[f]) /\ UNCHANGED fcblist
          PROVE  DirInv'
      <3>1. /\ \A g \in Fcb : fcb'[g] = IF g = f THEN b ELSE fcb[g]
            /\ \A g \in Fcb : g # f => (Listed(g)' <=> Listed(g))
            /\ UNCHANGED fcblist => (Listed(f)' <=> Listed(f))
        BY <2>3, BlockStep
      <3>2. \A g \in Fcb : g \in Writers' =>
              g \in Writers /\ fcb'[g].fcd = fcb[g].fcd /\ fcb'[g].name = fcb[g].name
        BY <2>3, <3>1 DEF Writers, SameFile
      <3> QED  BY <2>1, <2>3, <3>2, SameDirStep, IdleDir DEF DirInv, Idle, Excls
    <2>4. CASE Closed(call.f, call.then)
      <3>1. Blank.fas # 2 /\ Blank \in Block
        BY Values DEF Blank
      <3>2. fcb' = [fcb EXCEPT ![f] = Blank] /\ call' \in {Idle, Excls} /\ fcblist' = REMFCB(f)
        BY <2>4, <2>6 DEF Closed
      <3> QED  BY <2>3, <3>1, <3>2
    <2>5. CASE CloseStops("sir") /\ ~INIT
      <3>1. PICK b \in Block : SameFile(b, fcb[f]) /\ CloseFails(f, call.then, b)
        BY <2>5, <2>6 DEF CloseStops
      <3>2. fcb' = [fcb EXCEPT ![f] = b] /\ call' = Idle /\ UNCHANGED fcblist
        BY <2>5, <3>1 DEF CloseFails
      <3> QED  BY <2>3, <3>1, <3>2
    <2> QED  BY <1>5, <2>2, <2>4, <2>5, CloseRecordEffect
  <1>6. CASE ExclsNext
    <2>1. Head(fcblist) \in Fcb /\ Listed(Head(fcblist))
      BY <1>6, HeadTailProperties DEF ExclsNext, Types, Listed, Range
    <2> QED  BY <1>6, <2>1, CloseDir DEF ExclsNext
  <1>7. CASE ExclsDone \/ DeleteRecord
    <2>1. UNCHANGED <<fcb, fcblist, dir>> /\ call' = Idle
      BY <1>7 DEF ExclsDone, DeleteRecord, disk, memory
    <2> QED  BY <2>1, SameWriters, SameDirStep, IdleDir DEF DirInv, Idle
  <1>8. CASE DeleteEntry
    <2> DEFINE i == call.slot
    <2>0. CASE UNCHANGED <<fcb, fcblist, dir>> /\ call' = Idle
      BY <2>0, SameWriters, SameDirStep, IdleDir DEF DirInv, Idle
    <2>9. CASE ~(UNCHANGED <<fcb, fcblist, dir>> /\ call' = Idle)
      <3>1. /\ WriteEntry(i, NoFile(Deleted)) /\ UNCHANGED <<fcb, fcblist>>
            /\ call.op = "delete" /\ call.next = "entry"
            /\ call'.op = "delete" /\ call'.next = "sir"
        BY <1>8, <2>9 DEF DeleteEntry, memory, Types, Calls, Idle, Excls
      <3>2. \A g \in Writers : fcb[g].fcd # i
        BY <3>1 DEF DirInv, Deleting, OpenOn, Writers
      <3>3. NoFile(Deleted) \in DirEntry /\ NoFile(Deleted).name = Deleted
        BY Values DEF NoFile, Entry
      <3> HIDE DEF i
      <3>4. /\ Len(dir') = Len(dir) /\ Len(dir) \in Nat
            /\ \A k \in 1..Len(dir) : dir'[k] = IF k = i THEN NoFile(Deleted) ELSE dir[k]
        BY <3>1, <3>3, WriteEntryTypes DEF Types
      <3>5. NamesOnce' /\ NeverLast'
        BY <3>3, <3>4, NamesStep DEF DirInv
      <3>6. \A g \in Fcb : g \in Writers' =>
              /\ g \in Writers /\ fcb'[g].fcd = fcb[g].fcd /\ fcb'[g].name = fcb[g].name
              /\ dir'[fcb[g].fcd].name = dir[fcb[g].fcd].name
        BY <3>1, <3>2, <3>4, SameWriters DEF DirInv, Located
      <3>7. Located' /\ OneWriter'
        BY <3>4, <3>6, WritersStep DEF DirInv
      <3>8. Extending' /\ Deleting'
        BY <3>1 DEF Extending, Deleting
      <3> QED  BY <3>5, <3>7, <3>8 DEF DirInv
    <2> QED  BY <2>0, <2>9
  <1> QED
    BY <1>1, <1>2, <1>3, <1>4, <1>5, <1>6, <1>7, <1>8 DEF Continue

LEMMA InitDir == Init => DirInv
  <1> SUFFICES ASSUME Init  PROVE DirInv
    OBVIOUS
  <1>1. /\ Len(dir) \in Nat /\ \A i \in 1..Len(dir) : dir[i].name = Never
        /\ call.op = "idle" /\ Writers = {}
    BY SizeAssumption DEF Init, NoFile, Entry, Idle, Writers, Listed, Range
  <1> QED
    BY <1>1, NameAssumption DEF DirInv, Located, OneWriter, NamesOnce, NeverLast, Extending, Deleting

\* The directory invariant is preserved.
LEMMA StepDir ==
  ASSUME Types, ListInv, DirInv, "share" \in Discipline, "entry" \notin FaultAt, [Next]_vars
  PROVE  DirInv'
  <1>0. Grown
    BY DEF DirInv, Extending, Grown
  <1>1. ASSUME NEW f \in Fcb, NEW n \in Names, Opening(f, n)  PROVE DirInv'
    BY <1>1, OpeningDir
  <1>2. ASSUME NEW f \in Fcb, NEW n \in Names, DeleteLink(f, n)  PROVE DirInv'
    BY <1>2, DeleteLinkDir
  <1>3. ASSUME NEW f \in Fcb, NEW o \in Names, NEW n \in Names, Rename(f, o, n)  PROVE DirInv'
    BY <1>3, RenameDir
  <1>4. ASSUME NEW f \in Fcb, Using(f)  PROVE DirInv'
    BY <1>4, UsingDir
  <1>5. CASE ExclsCall
    <2>1. UNCHANGED <<fcb, fcblist, dir>> /\ call' = Excls
      BY <1>5 DEF ExclsCall, disk, memory
    <2> QED  BY <2>1, SameWriters, SameDirStep, IdleDir DEF DirInv, Excls
  <1>6. CASE Continue
    BY <1>0, <1>6, ContinueDir
  <1>7. CASE Restart
    <2>1. UNCHANGED dir /\ call' = Idle /\ fcblist' = <<>>
      BY <1>7 DEF Restart, INIT, disk
    <2>2. Writers' = {}
      BY <2>1 DEF Writers, Listed, Range
    <2> QED  BY <2>1, <2>2, SameDirStep, IdleDir DEF DirInv, Idle
  <1>8. CASE UNCHANGED vars
    <2>1. UNCHANGED <<fcb, fcblist, dir, call>>
      BY <1>8 DEF vars, disk, memory
    <2>2. Extending' /\ Deleting'
      BY <2>1 DEF DirInv, Extending, Deleting, OpenOn, Listed
    <2> QED  BY <2>1, <2>2, SameWriters, SameDirStep DEF DirInv
  <1> QED
    BY <1>1, <1>2, <1>3, <1>4, <1>5, <1>6, <1>7, <1>8, Zenon DEF Next

-----------------------------------------------------------------------------
\* The inductive invariants.
HeldIInv == Types /\ ListInv /\ Grown
IInv == HeldIInv /\ DirInv

LEMMA InitHeld == Init => HeldIInv
  BY InitTypes, InitList DEF HeldIInv, Init, Grown, Idle

LEMMA NextHeld ==
  ASSUME "reopen" \in Discipline, HeldIInv, [Next]_vars
  PROVE  HeldIInv'
  <1>1. Types /\ ListInv /\ Grown /\ NoTwice
    BY DEF HeldIInv, ListInv
  <1> QED  BY <1>1, StepTypes, StepList, GrownStep DEF HeldIInv

LEMMA HeldInvariance ==
  ASSUME "reopen" \in Discipline
  PROVE  Spec => []HeldIInv
  BY InitHeld, NextHeld, PTL DEF Spec

LEMMA NextIInv ==
  ASSUME "reopen" \in Discipline, "share" \in Discipline, "entry" \notin FaultAt,
         IInv, [Next]_vars
  PROVE  IInv'
  <1>1. HeldIInv'
    BY NextHeld DEF IInv
  <1>2. DirInv'
    BY StepDir DEF IInv, HeldIInv
  <1> QED  BY <1>1, <1>2 DEF IInv

LEMMA Invariance ==
  ASSUME "reopen" \in Discipline, "share" \in Discipline, "entry" \notin FaultAt
  PROVE  Spec => []IInv
  <1>1. Init => IInv
    BY InitHeld, InitDir DEF IInv
  <1> QED  BY <1>1, NextIInv, PTL DEF Spec

\* EXCLS finds every block that holds sectors of a file it writes (SETFCB, REMFCB,
\* CLOSE): no sequence of calls, disk errors of every kind FaultAt may name, and
\* restarts loses one, as long as no program opens a block it is writing with.
THEOREM HeldAlwaysListed ==
  ASSUME "reopen" \in Discipline
  PROVE  Spec => []HeldIsListed
  <1>1. HeldIInv => HeldIsListed
    BY DEF HeldIInv, ListInv, NoTwice, HeldListed, HeldIsListed
  <1> QED  BY <1>1, HeldInvariance, PTL

\* Two blocks never write the same directory entry (OPNWT, WTAPP, CLOSE, DELETE),
\* unless CLOSE fails to write one and is repeated.
THEOREM OneWriterAlways ==
  ASSUME "reopen" \in Discipline, "share" \in Discipline, "entry" \notin FaultAt
  PROVE  Spec => []OneWriter
  <1>1. IInv => OneWriter
    BY DEF IInv, DirInv
  <1> QED  BY <1>1, Invariance, PTL

\* FNDNAM finds the one entry of a name, whatever was created, renamed, deleted or
\* left half done by a restart or by an error other than CLOSE's at the entry
\* (OPNWT, RENAME, DELNAM).
THEOREM NamesStayUnique ==
  ASSUME "reopen" \in Discipline, "share" \in Discipline, "entry" \notin FaultAt
  PROVE  Spec => []UniqueNames
  <1>1. ASSUME IInv  PROVE UniqueNames
    <2>1. /\ DOMAIN dir = 1..Len(dir) /\ Len(dir) \in Nat
          /\ \A i \in 1..Len(dir) : dir[i].name \in Name
      BY <1>1 DEF IInv, HeldIInv, Types, DirEntry
    <2>2. \A i \in Live : i \in 1..Len(dir) /\ dir[i].name \in Names
      BY <2>1 DEF Live, Name
    <2>3. \A i, j \in Live : dir[i].name = dir[j].name => i = j
      BY <1>1, <2>2 DEF IInv, DirInv, NamesOnce
    <2>4. Live \subseteq Searched
      <3> SUFFICES ASSUME NEW i \in Live  PROVE i \in Searched
        OBVIOUS
      <3>1. \A j \in 1..(i - 1) : dir[j].name # Never
        BY <1>1, <2>1, <2>2 DEF IInv, DirInv, NeverLast
      <3> QED  BY <2>1, <2>2, <3>1 DEF Searched
    <2> QED  BY <2>3, <2>4 DEF UniqueNames
  <1>2. IInv => UniqueNames
    BY <1>1
  <1> QED  BY <1>2, Invariance, PTL
=============================================================================
