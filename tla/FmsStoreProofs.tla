---------------------------- MODULE FmsStoreProofs ----------------------------
(***************************************************************************)
(* The disk implements the abstract store at every write.                  *)
(***************************************************************************)
EXTENDS FmsLayoutProofs

-----------------------------------------------------------------------------
(* The records of a file, read along its links.                            *)

\* The first n sectors of the chain that starts at s, for links L.
Walked(L, s, n) == CHOOSE p : IsChain(p, L, s, n)

\* The records in them, for sectors that hold D.
Records(L, D, s, n) ==
  [k \in 1..n |-> IF Walked(L, s, n)[k] = None THEN <<>> ELSE D[Walked(L, s, n)[k]]]

\* q has n sectors or more, the links lead through the first n, and s is the first.
Leads(L, s, n, q) ==
  /\ n \in Nat /\ q \in Seq(Sector) /\ n <= Len(q)
  /\ n > 0 => s = q[1]
  /\ \A k \in 1..n : k < n => L[q[k]] = q[k + 1]

\* Then they are the sectors of the chain.
LEMMA WalkedIs ==
  ASSUME NEW L, NEW s, NEW n, NEW q, Leads(L, s, n, q)
  PROVE  /\ \A k \in 1..n : Walked(L, s, n)[k] = q[k]
         /\ \A D : Records(L, D, s, n) = [k \in 1..n |-> D[q[k]]]
  <1> DEFINE c == [k \in 1..n |-> q[k]]
  <1>0. /\ n \in Nat /\ Len(q) \in Nat /\ n <= Len(q) /\ None \notin Sector
        /\ \A k \in 1..n : k \in 1..Len(q) /\ q[k] \in Sector
    BY SizeAssumption DEF Sector, None, Leads
  <1>1. \A k \in 1..n : c[k] = q[k]
    OBVIOUS
  <1>2. ASSUME NEW k \in 1..n
        PROVE  c[k] = IF k = 1 THEN s ELSE IF c[k - 1] = None THEN None ELSE L[c[k - 1]]
    <2>1. CASE k = 1
      BY <1>0, <1>1, <2>1 DEF Leads
    <2>2. CASE k # 1
      <3>1. k - 1 \in 1..n /\ (k - 1) + 1 = k /\ k - 1 < n
        BY <1>0, <1>2, <2>2
      <3>2. c[k - 1] = q[k - 1] /\ q[k - 1] # None /\ L[q[k - 1]] = q[(k - 1) + 1]
        BY <1>0, <1>1, <3>1 DEF Leads
      <3> QED  BY <1>1, <2>2, <3>1, <3>2
    <2> QED  BY <2>1, <2>2
  <1>3. c = [k \in 1..n |-> c[k]]
    OBVIOUS
  <1> HIDE DEF c
  <1>4. c = [k \in 1..n |-> IF k = 1 THEN s ELSE IF c[k - 1] = None THEN None ELSE L[c[k - 1]]]
    BY <1>2, <1>3
  <1>5. IsChain(c, L, s, n)
    BY <1>4 DEF IsChain
  <1>6. IsChain(Walked(L, s, n), L, s, n)
    BY <1>5 DEF Walked
  <1>7. Walked(L, s, n) = c
    BY <1>0, <1>5, <1>6, ChainUnique
  <1>8. \A k \in 1..n : Walked(L, s, n)[k] = q[k]
    BY <1>1, <1>7
  <1>9. ASSUME NEW D  PROVE Records(L, D, s, n) = [k \in 1..n |-> D[q[k]]]
    BY <1>0, <1>8 DEF Records
  <1> QED  BY <1>8, <1>9

\* The contents of an entry.
LEMMA ContentIs ==
  /\ \A i : Content(i) = Records(link, data, dir[i].fsa, dir[i].fsz)
  /\ \A i : Content(i)' = Records(link', data', dir'[i].fsa, dir'[i].fsz)
  BY DEF Content, Records, Walked, Chain, IsChain

-----------------------------------------------------------------------------
(* The files of the store, by the entries of the directory.                *)

\* Stored has the names of the entries, each with its contents.
StoredByName ==
  /\ \A n : n \in DOMAIN Stored <=> \E i \in Live : dir[i].name = n
  /\ \A i \in Live : Stored[dir[i].name] = Content(i)
  /\ Stored = [n \in DOMAIN Stored |-> Stored[n]]

\* The entries of files have names, each its own.
LEMMA LiveNames ==
  ASSUME IInv
  PROVE  \A i \in Live : /\ i \in 1..Len(dir) /\ dir[i].name \in Names
                         /\ \A j \in Live : j # i => dir[j].name # dir[i].name
  <1>1. \A i \in Live : i \in 1..Len(dir) /\ dir[i].name \in Names
    BY DEF IInv, HeldIInv, Types, Live, DirEntry, Name
  <1>2. NamesOnce
    BY DEF IInv, HeldIInv, DirInv
  <1> QED  BY <1>1, <1>2 DEF NamesOnce

\* A name has one entry.
LEMMA StoredIs == Types /\ NamesOnce => StoredByName
  <1> SUFFICES ASSUME Types, NamesOnce  PROVE StoredByName
    OBVIOUS
  <1>1. \A i \in Live : i \in 1..Len(dir) /\ dir[i].name \in Names
    BY DEF Types, Live, DirEntry, Name
  <1>2. ASSUME NEW i \in Live  PROVE Stored[dir[i].name] = Content(i)
    <2>1. PICK j : j = CHOOSE k \in Live : dir[k].name = dir[i].name
      OBVIOUS
    <2>2. j \in Live /\ dir[j].name = dir[i].name
      BY <1>2, <2>1
    <2>3. j = i
      BY <1>1, <1>2, <2>2 DEF NamesOnce
    <2>4. Stored[dir[i].name] = Content(j)
      BY <1>2, <2>1 DEF Stored
    <2> QED  BY <2>3, <2>4
  <1>3. \A n : n \in DOMAIN Stored <=> \E i \in Live : dir[i].name = n
    BY DEF Stored
  <1>4. Stored = [n \in DOMAIN Stored |-> Stored[n]]
    BY DEF Stored
  <1> QED  BY <1>2, <1>3, <1>4 DEF StoredByName

\* The same behind a step.
LEMMA StoredNext == (Types /\ NamesOnce => StoredByName)'
  BY StoredIs, PTL

\* Entry j names the same file with the same records before and behind a step.
Stays(j) ==
  /\ j \in Live' <=> j \in Live
  /\ j \in Live => dir'[j].name = dir[j].name /\ Content(j)' = Content(j)

\* The records of entry i behind the step.
Becomes(i, t) == Content(i)' = t

\* The files of the other entries are as they were.
LEMMA StoredOthers ==
  ASSUME IInv, IInv', NEW i, \A j : j # i => Stays(j), NEW n,
         i \in Live => dir[i].name # n, i \in Live' => dir'[i].name # n
  PROVE  /\ n \in DOMAIN Stored' <=> n \in DOMAIN Stored
         /\ n \in DOMAIN Stored => Stored'[n] = Stored[n]
  <1>1. StoredByName /\ StoredByName'
    BY StoredIs, StoredNext DEF IInv, HeldIInv, DirInv
  <1>2. ASSUME n \in DOMAIN Stored  PROVE n \in DOMAIN Stored' /\ Stored'[n] = Stored[n]
    <2>1. PICK j \in Live : dir[j].name = n
      BY <1>1, <1>2 DEF StoredByName
    <2>2. j # i
      BY <2>1
    <2>3. j \in Live' /\ dir'[j].name = n /\ Content(j)' = Content(j)
      BY <2>1, <2>2 DEF Stays
    <2>4. Stored[n] = Content(j)
      BY <1>1, <2>1 DEF StoredByName
    <2>5. n \in DOMAIN Stored' /\ Stored'[n] = Content(j)'
      BY <1>1, <2>3 DEF StoredByName
    <2> QED  BY <2>3, <2>4, <2>5
  <1>3. ASSUME n \in DOMAIN Stored'  PROVE n \in DOMAIN Stored
    <2>1. PICK j \in Live' : dir'[j].name = n
      BY <1>1, <1>3 DEF StoredByName
    <2>2. j # i
      BY <2>1
    <2>3. j \in Live /\ dir[j].name = n
      BY <2>1, <2>2 DEF Stays
    <2> QED  BY <1>1, <2>3 DEF StoredByName
  <1> QED  BY <1>2, <1>3

\* When all entries stay so do the files.
LEMMA StoredSame ==
  ASSUME IInv, IInv', \A j : Stays(j)
  PROVE  Stored' = Stored
  <1>1. StoredByName /\ StoredByName'
    BY StoredIs, StoredNext DEF IInv, HeldIInv, DirInv
  <1>2. \A i \in Live : Content(i)' = Content(i) /\ dir'[i].name = dir[i].name
    BY DEF Stays
  <1>3. Live' = Live
    BY DEF Stays
  <1>4. \A n : n \in DOMAIN Stored' <=> n \in DOMAIN Stored
    <2>1. \A n : n \in DOMAIN Stored' <=> \E i \in Live : dir'[i].name = n
      BY <1>1, <1>3 DEF StoredByName
    <2>2. \A n : n \in DOMAIN Stored <=> \E i \in Live : dir[i].name = n
      BY <1>1 DEF StoredByName
    <2> QED  BY <1>2, <2>1, <2>2
  <1>5. DOMAIN Stored' = DOMAIN Stored
    BY <1>4
  <1>6. ASSUME NEW n \in DOMAIN Stored  PROVE Stored'[n] = Stored[n]
    <2>1. PICK i \in Live : dir[i].name = n
      BY <1>1, <1>6 DEF StoredByName
    <2>2. Stored[n] = Content(i)
      BY <1>1, <2>1 DEF StoredByName
    <2>3. Stored'[n] = Content(i)'
      BY <1>1, <1>2, <1>3, <2>1 DEF StoredByName
    <2> QED  BY <1>2, <2>1, <2>2, <2>3
  <1>7. Stored = [n \in DOMAIN Stored |-> Stored[n]] /\ Stored' = [n \in DOMAIN Stored' |-> Stored'[n]]
    BY <1>1 DEF StoredByName
  <1> QED  BY <1>5, <1>6, <1>7

\* Entry i is written empty for the new name n.
LEMMA StoreCreates ==
  ASSUME IInv, IInv', NEW i, \A j : j # i => Stays(j), NEW n \in Names,
         i \notin Live, i \in Live', dir'[i] = NoFile(n), \A j \in Live : dir[j].name # n
  PROVE  Store!Next
  <1>1. StoredByName /\ StoredByName'
    BY StoredIs, StoredNext DEF IInv, HeldIInv, DirInv
  <1>2. n \notin DOMAIN Stored
    BY <1>1 DEF StoredByName
  <1>3. dir'[i].name = n /\ dir'[i].fsz = 0
    BY DEF NoFile, Entry
  <1>4. n \in DOMAIN Stored' /\ Stored'[n] = Content(i)'
    BY <1>1, <1>3 DEF StoredByName
  <1>5. Content(i)' = <<>>
    BY <1>3, ContentIs DEF Records
  <1>6. \A m \in Names \ {n} : /\ m \in DOMAIN Stored' <=> m \in DOMAIN Stored
                               /\ m \in DOMAIN Stored => Stored'[m] = Stored[m]
    BY <1>3, StoredOthers
  <1>7. Store!Create(n)
    BY <1>2, <1>4, <1>5, <1>6 DEF Store!Create, Store!Others
  <1> QED  BY <1>7 DEF Store!Next

\* Entry i is deleted.
LEMMA StoreDrops ==
  ASSUME IInv, IInv', NEW i, \A j : j # i => Stays(j), i \in Live, i \notin Live'
  PROVE  Store!Next
  <1>1. StoredByName /\ StoredByName'
    BY StoredIs, StoredNext DEF IInv, HeldIInv, DirInv
  <1>2. PICK n : n = dir[i].name
    OBVIOUS
  <1>3. n \in Names /\ \A j \in Live : j # i => dir[j].name # n
    BY <1>2, LiveNames
  <1>4. n \in DOMAIN Stored
    BY <1>1, <1>2 DEF StoredByName
  <1>5. n \notin DOMAIN Stored'
    <2> SUFFICES ASSUME NEW j \in Live', dir'[j].name = n  PROVE FALSE
      BY <1>1 DEF StoredByName
    <2>1. j # i /\ Stays(j)
      OBVIOUS
    <2> QED  BY <1>3, <2>1 DEF Stays
  <1>6. \A m \in Names \ {n} : /\ m \in DOMAIN Stored' <=> m \in DOMAIN Stored
                               /\ m \in DOMAIN Stored => Stored'[m] = Stored[m]
    BY <1>2, StoredOthers
  <1>7. Store!Drop(n)
    BY <1>4, <1>5, <1>6 DEF Store!Drop, Store!Others
  <1> QED  BY <1>3, <1>7 DEF Store!Next

\* Entry i gets the new name n.
LEMMA StoreMoves ==
  ASSUME IInv, IInv', NEW i, \A j : j # i => Stays(j), NEW n \in Names,
         i \in Live, i \in Live', dir'[i].name = n, Becomes(i, Content(i)),
         \A j \in Live : dir[j].name # n
  PROVE  Store!Next
  <1>1. StoredByName /\ StoredByName'
    BY StoredIs, StoredNext DEF IInv, HeldIInv, DirInv
  <1>2. PICK o : o = dir[i].name
    OBVIOUS
  <1>3. o \in Names /\ o # n /\ \A j \in Live : j # i => dir[j].name # o
    BY <1>2, LiveNames
  <1>4. o \in DOMAIN Stored /\ Stored[o] = Content(i) /\ n \notin DOMAIN Stored
    BY <1>1, <1>2 DEF StoredByName
  <1>5. n \in DOMAIN Stored' /\ Stored'[n] = Content(i)
    BY <1>1 DEF StoredByName, Becomes
  <1>6. o \notin DOMAIN Stored'
    <2> SUFFICES ASSUME NEW j \in Live', dir'[j].name = o  PROVE FALSE
      BY <1>1 DEF StoredByName
    <2>1. j # i /\ Stays(j)
      BY <1>3
    <2> QED  BY <1>3, <2>1 DEF Stays
  <1>7. \A m \in Names \ {o, n} : /\ m \in DOMAIN Stored' <=> m \in DOMAIN Stored
                                  /\ m \in DOMAIN Stored => Stored'[m] = Stored[m]
    BY <1>2, StoredOthers
  <1>8. Store!Move(o, n)
    BY <1>4, <1>5, <1>6, <1>7 DEF Store!Move, Store!Others
  <1> QED  BY <1>3, <1>8 DEF Store!Next

\* One file has the records r before the step and t behind it.
ChangesFile(r, t) ==
  \E n \in Names :
    /\ n \in DOMAIN Stored /\ n \in DOMAIN Stored'
    /\ Stored[n] = r /\ Stored'[n] = t
    /\ Store!Others({n})

\* The file of entry i keeps its name.
LEMMA StoreChanges ==
  ASSUME IInv, IInv', NEW i, \A j : j # i => Stays(j),
         i \in Live, i \in Live', dir'[i].name = dir[i].name,
         NEW r, r = Content(i), NEW t, Becomes(i, t)
  PROVE  ChangesFile(r, t)
  <1>1. StoredByName /\ StoredByName'
    BY StoredIs, StoredNext DEF IInv, HeldIInv, DirInv
  <1>2. PICK n : n = dir[i].name
    OBVIOUS
  <1>3. n \in Names
    BY <1>2 DEF IInv, HeldIInv, Types, Live, DirEntry, Name
  <1>4. n \in DOMAIN Stored /\ Stored[n] = r
    BY <1>1, <1>2 DEF StoredByName
  <1>5. n \in DOMAIN Stored' /\ Stored'[n] = t
    BY <1>1, <1>2 DEF StoredByName, Becomes
  <1>6. Store!Others({n})
    BY <1>2, StoredOthers DEF Store!Others
  <1> QED  BY <1>3, <1>4, <1>5, <1>6 DEF ChangesFile

\* Record k of the file of entry i is written by an update of block f.
LEMMA StoreReplaces ==
  ASSUME IInv, IInv', NEW i, \A j : j # i => Stays(j),
         i \in Live, i \in Live', dir'[i].name = dir[i].name,
         NEW z, NEW k \in 1..z, NEW r, NEW t, r = Content(i), Becomes(i, t),
         DOMAIN r = 1..z, Len(r) = z, Len(t) = z, NEW f \in Fcb,
         \A x \in 1..z : x # k => t[x] = r[x], t[k] = Tag(f, Sectors + k)
  PROVE  Store!Next
  <1>1. t[k] = Updated(f, k)
    BY DEF Updated
  <1>3. ChangesFile(r, t)
    BY StoreChanges, Zenon
  <1>4. PICK n \in Names : /\ n \in DOMAIN Stored /\ n \in DOMAIN Stored'
                           /\ Stored[n] = r /\ Stored'[n] = t
                           /\ Store!Others({n})
    BY <1>3 DEF ChangesFile
  <1>5. Store!Replace(n, k) /\ k \in DOMAIN Stored[n]
    BY <1>1, <1>4 DEF Store!Replace
  <1> QED  BY <1>4, <1>5 DEF Store!Next

\* Behind its z records r, t has y more, those that block f has written.
Extended(r, t, z, f, y) ==
  /\ z \in Nat /\ y \in Nat /\ y > 0
  /\ DOMAIN r = 1..z /\ Len(r) = z /\ Len(t) = z + y
  /\ \A x \in 1..z : t[x] = r[x]
  /\ \A k \in 1..y : t[z + k] = Tag(f, k)

\* The file of entry i grows by what block f has written.
LEMMA StoreExtends ==
  ASSUME IInv, IInv', NEW i, \A j : j # i => Stays(j),
         i \in Live, i \in Live', dir'[i].name = dir[i].name,
         NEW r, NEW t, r = Content(i), Becomes(i, t),
         NEW f \in Fcb, NEW z, NEW y, Extended(r, t, z, f, y)
  PROVE  Store!Next
  <1>0. /\ z \in Nat /\ y \in Nat /\ y > 0
        /\ DOMAIN r = 1..z /\ Len(r) = z /\ Len(t) = z + y
        /\ \A x \in 1..z : t[x] = r[x]
        /\ \A k \in 1..y : t[z + k] = Tag(f, k)
    BY DEF Extended
  <1>1. \A k \in 1..y : t[z + k] = Written(f, k)
    BY <1>0 DEF Written
  <1>3. ChangesFile(r, t)
    BY StoreChanges, Zenon
  <1>4. PICK n \in Names : /\ n \in DOMAIN Stored /\ n \in DOMAIN Stored'
                           /\ Stored[n] = r /\ Stored'[n] = t
                           /\ Store!Others({n})
    BY <1>3 DEF ChangesFile
  <1>5. Len(t) > Len(r) /\ Len(t) - Len(r) = y
    BY <1>0
  <1>6. Store!Extend(n)
    BY <1>0, <1>1, <1>4, <1>5 DEF Store!Extend
  <1> QED  BY <1>4, <1>6 DEF Store!Next

-----------------------------------------------------------------------------
(* What a block has in memory of the file it writes or updates.            *)

\* Block b has b.frn records behind the z that the entry knows.  The first n are in
\* the sectors c; the last is in the buffer until CLOSE has written it.
HasWritten(f, b, z, c, D, n) ==
  /\ b.fsz = z + b.frn /\ n <= b.frn
  /\ \A k \in 1..n : D[c[z + k]] = Tag(f, k)
  /\ b.fsa # None => b.tag = IF b.frn = 0 THEN D[b.fcs] ELSE Tag(f, b.frn)

\* Block b updates a record of a file with z sectors c, of which it knows the number.
HasRead(f, b, z, c) ==
  /\ b.fcs # None => b.frn \in 1..z /\ b.fcs = c[b.frn]
  /\ b.fas = 131 => b.fcs # None /\ b.tag = Tag(f, Sectors + b.frn)

\* The entry does not know yet what block f has written.
Ahead(f) == f \in Writers /\ ~(Closes(f) /\ call.next = "sir")
Edits(f) == Listed(f) /\ fcb[f].fas \in {3, 131} /\ fcb[f].fcd # 0

OnDisk(f) == IF Closes(f) THEN fcb[f].frn ELSE fcb[f].frn - 1

BlockRecords(f) ==
  LET b == fcb[f]
      e == dir[b.fcd]
  IN  /\ Ahead(f) => HasWritten(f, b, e.fsz, Walked(link, b.fsa, b.fsz), data, OnDisk(f))
      /\ Edits(f) => HasRead(f, b, e.fsz, Walked(link, e.fsa, e.fsz))

\* Without failing reads the buffer of every block holds its own sector.
LEMMA OwnAlways ==
  ASSUME IInv, Callers, "read" \notin FaultAt, NEW f \in Fcb
  PROVE  fcb[f].fsb = "own" /\ ~HalfClosed(f)
  <1>1. fcb[f] \in Fields /\ Buffered(fcb[f])
    BY DEF IInv, HeldIInv, Types, Block
  <1>2. fcb[f].fsb \in {"own", "old", "dir", "sir"}
    BY <1>1 DEF Fields
  <1> QED  BY <1>1, <1>2 DEF Buffered, Callers, HalfClosed

\* The part of the inductive invariant that is about records.
Recs == \A f \in Fcb : BlockRecords(f)

\* The first n sectors of q keep their data, and the links that lead through them.
Untouched(q, n) ==
  \A k \in 1..n : data'[q[k]] = data[q[k]] /\ (k < n => link'[q[k]] = link[q[k]])

\* The links still lead through q.
LEMMA LeadsKept ==
  ASSUME NEW s, NEW n, NEW q, Leads(link, s, n, q), Untouched(q, n)
  PROVE  Leads(link', s, n, q)
  BY DEF Leads, Untouched

\* An entry of a file leads through its sectors.
LEMMA EntryLeads ==
  ASSUME IInv, NEW P, NEW m, NEW Q, Owns(P, m, Q), NEW i \in Files
  PROVE  /\ Leads(link, dir[i].fsa, dir[i].fsz, Q[i])
         /\ dir[i].fsz \in Nat /\ Len(Q[i]) \in Nat /\ dir[i].fsz <= Len(Q[i])
         /\ Q[i] \in Seq(Sector) /\ i \in DOMAIN Q /\ i \in 1..Len(dir)
  <1>1. i \in 1..Len(dir) /\ dir[i] \in DirEntry /\ i \in DOMAIN Q
    BY LiveInDir DEF IInv, HeldIInv, Owns
  <1>2. dir[i].fsz \in Nat /\ Q[i] \in Seq(Sector) /\ Len(Q[i]) \in Nat
    BY <1>1, TidyTypes DEF Owns, DirEntry
  <1>3. Describes(dir[i], Q[i])
    BY <1>1 DEF Owns, EntryAt
  <1>4. \A k \in 1..Len(Q[i]) : k < Len(Q[i]) => link[Q[i][k]] = Q[i][k + 1]
    BY <1>1 DEF Owns, Tidy, Chained
  <1>5. Leads(link, dir[i].fsa, dir[i].fsz, Q[i])
    BY <1>2, <1>3, <1>4 DEF Leads, Describes
  <1> QED  BY <1>1, <1>2, <1>3, <1>5 DEF Describes

\* A block that writes a file leads through its sectors, to the last.
LEMMA BlockLeads ==
  ASSUME IInv, NEW P, NEW m, NEW Q, Owns(P, m, Q), NEW f \in Writers
  PROVE  LET i == fcb[f].fcd
             b == fcb[f]
         IN  /\ Leads(link, b.fsa, b.fsz, Q[i]) /\ b.fsz = Len(Q[i])
             /\ b.fsa # None <=> b.fsz > 0
             /\ b.fsa # None => b.fcs = Q[i][b.fsz]
             /\ i \in Files /\ b.frn \in Nat /\ b.fsz \in Nat /\ b \in Block
  <1> DEFINE i == fcb[f].fcd
             b == fcb[f]
  <1>1. f \in Fcb /\ Listed(f) /\ b.fas = 2 /\ i # 0 /\ b \in Block
    BY DEF Writers, IInv, HeldIInv, Types
  <1>2. i \in Files /\ Writes(b, Q[i])
    BY <1>1 DEF Owns, BlockAt
  <1>3. /\ Q[i] \in Seq(Sector) /\ Len(Q[i]) \in Nat /\ i \in DOMAIN Q
    BY <1>2, EntryLeads
  <1>4. \A k \in 1..Len(Q[i]) : k < Len(Q[i]) => link[Q[i][k]] = Q[i][k + 1]
    BY <1>3 DEF Owns, Tidy, Chained
  <1>5. b.frn \in Nat /\ b.fsz \in Nat
    BY <1>1 DEF Block, Fields, Buffered
  <1>6. /\ b.fsz = Len(Q[i]) /\ (b.fsz = 0 <=> b.fsa = None)
        /\ b.fsz > 0 => b.fsa = Q[i][1] /\ b.fea = Q[i][b.fsz]
        /\ b.fsa # None => b.fcs = b.fea
    BY <1>2 DEF Writes, Describes
  <1>7. Leads(link, b.fsa, b.fsz, Q[i])
    BY <1>3, <1>4, <1>5, <1>6 DEF Leads
  <1>8. b.fsa # None <=> b.fsz > 0
    BY <1>5, <1>6
  <1>9. b.fsa # None => b.fcs = Q[i][b.fsz]
    BY <1>6, <1>8
  <1> QED  BY <1>1, <1>2, <1>5, <1>6, <1>7, <1>8, <1>9

\* What was written stays so when its sectors do.
LEMMA WrittenKept ==
  ASSUME NEW f, NEW b, NEW z \in Nat, NEW c, NEW D, NEW n \in Int, HasWritten(f, b, z, c, D, n),
         b.frn \in Nat, NEW c1, NEW D1,
         \A k \in 1..b.fsz : c1[k] = c[k] /\ D1[c[k]] = D[c[k]],
         b.fsa # None => D1[b.fcs] = D[b.fcs]
  PROVE  HasWritten(f, b, z, c1, D1, n)
  <1>1. b.fsz = z + b.frn /\ n <= b.frn
    BY DEF HasWritten
  <1>2. \A k \in 1..n : z + k \in 1..b.fsz
    BY <1>1
  <1>3. \A k \in 1..n : D1[c1[z + k]] = D[c[z + k]]
    BY <1>2
  <1> QED  BY <1>1, <1>3 DEF HasWritten

\* The records of a file whose entry and sectors a step leaves alone.
LEMMA ContentKept ==
  ASSUME IInv, NEW P, NEW m, NEW Q, Owns(P, m, Q), NEW i \in Files,
         dir'[i].fsa = dir[i].fsa, dir'[i].fsz = dir[i].fsz, Untouched(Q[i], dir[i].fsz)
  PROVE  Content(i)' = Content(i)
  <1> DEFINE q == Q[i]
             z == dir[i].fsz
             s == dir[i].fsa
  <1>1. Leads(link, s, z, q)
    BY EntryLeads
  <1>2. Leads(link', s, z, q)
    BY <1>1, LeadsKept
  <1> HIDE DEF q, z, s
  <1>3. Records(link, data, s, z) = [k \in 1..z |-> data[q[k]]]
    BY <1>1, WalkedIs
  <1>4. Records(link', data', s, z) = [k \in 1..z |-> data'[q[k]]]
    BY <1>2, WalkedIs
  <1>5. \A k \in 1..z : data'[q[k]] = data[q[k]]
    BY DEF Untouched, q, z
  <1>6. Content(i) = Records(link, data, s, z) /\ Content(i)' = Records(link', data', s, z)
    BY ContentIs DEF s, z
  <1> QED  BY <1>3, <1>4, <1>5, <1>6

\* BlockRecords behind a step.
LEMMA RecordsNext ==
  ASSUME NEW g, NEW n, n = IF Closes(g)' THEN fcb'[g].frn ELSE fcb'[g].frn - 1,
         Ahead(g)' => HasWritten(g, fcb'[g], dir'[fcb'[g].fcd].fsz,
                                 Walked(link', fcb'[g].fsa, fcb'[g].fsz), data', n),
         Edits(g)' => HasRead(g, fcb'[g], dir'[fcb'[g].fcd].fsz,
                              Walked(link', dir'[fcb'[g].fcd].fsa, dir'[fcb'[g].fcd].fsz))
  PROVE  BlockRecords(g)'
  BY DEF BlockRecords, OnDisk, HasWritten, HasRead, Walked, IsChain

\* What a block has in memory of a file that a step leaves alone.
LEMMA RecordsKept ==
  ASSUME IInv, NEW P, NEW m, NEW Q, Owns(P, m, Q), NEW g \in Fcb, BlockRecords(g),
         fcb'[g] = fcb[g], Listed(g)' => Listed(g), ~Closes(g), ~Closes(g)',
         Listed(g) /\ fcb[g].fcd # 0 =>
           /\ dir'[fcb[g].fcd].fsa = dir[fcb[g].fcd].fsa
           /\ dir'[fcb[g].fcd].fsz = dir[fcb[g].fcd].fsz
           /\ Untouched(Q[fcb[g].fcd], Len(Q[fcb[g].fcd]))
  PROVE  BlockRecords(g)'
  <1> DEFINE i == fcb[g].fcd
             b == fcb[g]
             q == Q[i]
             e == dir[i]
  <1>1. /\ Ahead(g)' => Ahead(g) /\ g \in Writers /\ Listed(g) /\ i # 0
        /\ Edits(g)' => Edits(g) /\ Listed(g) /\ i # 0
    BY DEF Ahead, Edits, Writers
  <1>2. ASSUME Ahead(g)'
        PROVE  HasWritten(g, b, e.fsz, Walked(link', b.fsa, b.fsz), data', b.frn - 1)
    <2>0. g \in Writers /\ Ahead(g) /\ Untouched(q, Len(q))
      BY <1>1, <1>2
    <2>1. /\ Leads(link, b.fsa, b.fsz, q) /\ b.fsz = Len(q) /\ b.frn \in Nat /\ b.fsz \in Nat
          /\ i \in Files /\ (b.fsa # None <=> b.fsz > 0)
          /\ b.fsa # None => b.fcs = q[b.fsz]
      BY <2>0, BlockLeads
    <2>2. e.fsz \in Nat
      BY <2>1, EntryLeads
    <2>3. Untouched(q, b.fsz)
      BY <2>0, <2>1
    <2>4. Leads(link', b.fsa, b.fsz, q)
      BY <2>1, <2>3, LeadsKept
    <2>5. HasWritten(g, b, e.fsz, Walked(link, b.fsa, b.fsz), data, b.frn - 1)
      BY <2>0 DEF BlockRecords, OnDisk
    <2>6. \A k \in 1..b.fsz : /\ Walked(link, b.fsa, b.fsz)[k] = q[k]
                              /\ Walked(link', b.fsa, b.fsz)[k] = q[k]
                              /\ data'[q[k]] = data[q[k]]
      BY <2>1, <2>3, <2>4, WalkedIs DEF Untouched
    <2>7. b.fsa # None => data'[b.fcs] = data[b.fcs]
      <3>1. b.fsz > 0 => b.fsz \in 1..b.fsz
        BY <2>1
      <3> QED  BY <2>1, <2>6, <3>1
    <2>8. PICK c, c1 : c = Walked(link, b.fsa, b.fsz) /\ c1 = Walked(link', b.fsa, b.fsz)
      OBVIOUS
    <2> HIDE DEF b, e, q
    <2>9. HasWritten(g, b, e.fsz, c1, data', b.frn - 1)
      BY <2>1, <2>2, <2>5, <2>6, <2>7, <2>8, WrittenKept
    <2> QED  BY <2>8, <2>9
  <1>3. ASSUME Edits(g)'  PROVE HasRead(g, b, e.fsz, Walked(link', e.fsa, e.fsz))
    <2>0. /\ Edits(g) /\ Listed(g) /\ i # 0 /\ Untouched(q, Len(q))
      BY <1>1, <1>3
    <2>1. i \in Files
      BY <2>0 DEF Owns, BlockAt
    <2>2. /\ Leads(link, e.fsa, e.fsz, q) /\ e.fsz <= Len(q) /\ e.fsz \in Nat /\ Len(q) \in Nat
      BY <2>1, EntryLeads
    <2>3. Untouched(q, e.fsz)
      BY <2>0, <2>2 DEF Untouched
    <2>4. Leads(link', e.fsa, e.fsz, q)
      BY <2>2, <2>3, LeadsKept
    <2>5. \A k \in 1..e.fsz : Walked(link, e.fsa, e.fsz)[k] = q[k]
                              /\ Walked(link', e.fsa, e.fsz)[k] = q[k]
      BY <2>2, <2>4, WalkedIs
    <2>6. HasRead(g, b, e.fsz, Walked(link, e.fsa, e.fsz))
      BY <2>0 DEF BlockRecords
    <2> QED  BY <2>5, <2>6 DEF HasRead
  <1>4. \/ ~Listed(g)' \/ i = 0
        \/ dir'[fcb'[g].fcd].fsa = e.fsa /\ dir'[fcb'[g].fcd].fsz = e.fsz
    OBVIOUS
  <1>5. Ahead(g)' => HasWritten(g, fcb'[g], dir'[fcb'[g].fcd].fsz,
                                Walked(link', fcb'[g].fsa, fcb'[g].fsz), data', b.frn - 1)
    BY <1>1, <1>2, <1>4
  <1>6. Edits(g)' => HasRead(g, fcb'[g], dir'[fcb'[g].fcd].fsz,
                             Walked(link', dir'[fcb'[g].fcd].fsa, dir'[fcb'[g].fcd].fsz))
    BY <1>1, <1>3, <1>4
  <1> QED  BY <1>5, <1>6, RecordsNext

-----------------------------------------------------------------------------
(* One step of the store, or none, at every step of the system.            *)

StoreStep == Store!Next \/ Stored' = Stored

\* A step leaves the entry and the sectors of file j alone.
FileKept(j, Q) ==
  dir'[j].fsa = dir[j].fsa /\ dir'[j].fsz = dir[j].fsz /\ Untouched(Q[j], Len(Q[j]))

\* A step leaves block g alone, or takes it off the list.
BlockKeeps(g) ==
  fcb'[g] = fcb[g] /\ (Listed(g)' => Listed(g)) /\ ~Closes(g) /\ ~Closes(g)'

\* Block g is at no file, or reads one.
LEMMA NoRecords ==
  ASSUME NEW g, ~Listed(g)' \/ fcb'[g].fcd = 0 \/ fcb'[g].fas \notin {2, 3, 131}
  PROVE  BlockRecords(g)'
  BY DEF BlockRecords, Ahead, Edits, Writers

\* A step of block f.
LEMMA OneBlockRecords ==
  ASSUME IInv, Recs, NEW P, NEW m, NEW Q, Owns(P, m, Q), NEW f \in Fcb,
         \A g \in Fcb : g # f => BlockKeeps(g),
         \A g \in Fcb : g # f /\ Listed(g) /\ fcb[g].fcd # 0 => FileKept(fcb[g].fcd, Q),
         BlockRecords(f)'
  PROVE  Recs'
  <1> SUFFICES ASSUME NEW g \in Fcb, g # f  PROVE BlockRecords(g)'
    BY DEF Recs
  <1>1. BlockKeeps(g) /\ BlockRecords(g)
    BY DEF Recs
  <1>2. fcb'[g] = fcb[g] /\ (Listed(g)' => Listed(g)) /\ ~Closes(g) /\ ~Closes(g)'
    BY <1>1 DEF BlockKeeps
  <1>3. Listed(g) /\ fcb[g].fcd # 0 =>
           /\ dir'[fcb[g].fcd].fsa = dir[fcb[g].fcd].fsa
           /\ dir'[fcb[g].fcd].fsz = dir[fcb[g].fcd].fsz
           /\ Untouched(Q[fcb[g].fcd], Len(Q[fcb[g].fcd]))
    BY DEF FileKept
  <1> QED  BY <1>1, <1>2, <1>3, RecordsKept

\* An entry stays when a step writes no data sector and not the entry.
LEMMA StaysQuiet ==
  ASSUME UNCHANGED <<link, data>>, NEW j, dir'[j] = dir[j], j \in DOMAIN dir' <=> j \in DOMAIN dir
  PROVE  Stays(j)
  <1>1. j \in Live' <=> j \in Live
    BY DEF Live
  <1>2. Content(j)' = Content(j)
    BY ContentIs
  <1> QED  BY <1>1, <1>2 DEF Stays

\* An entry stays when a step leaves its sectors alone.
LEMMA StaysFile ==
  ASSUME IInv, NEW P, NEW m, NEW Q, Owns(P, m, Q), NEW j \in Files,
         dir'[j] = dir[j], j \in DOMAIN dir', Untouched(Q[j], dir[j].fsz)
  PROVE  Stays(j)
  <1>1. j \in Live /\ j \in Live'
    BY DEF Live, Files
  <1>2. Content(j)' = Content(j)
    BY ContentKept
  <1> QED  BY <1>1, <1>2 DEF Stays

\* A step that writes no data sector and no entry.
LEMMA QuietStep ==
  ASSUME IInv, IInv', Layout, Recs, UNCHANGED <<link, data, dir>>,
         NEW f \in Fcb, \A g \in Fcb : g # f => BlockKeeps(g), BlockRecords(f)'
  PROVE  Recs' /\ StoreStep
  <1>1. PICK P, m, Q : Owns(P, m, Q)
    BY DEF Layout
  <1>2. \A j : FileKept(j, Q)
    BY DEF FileKept, Untouched
  <1>3. Recs'
    BY <1>1, <1>2, OneBlockRecords
  <1>4. \A j : Stays(j)
    BY StaysQuiet
  <1> QED  BY <1>3, <1>4, StoredSame DEF StoreStep

\* A step that changes no block either.
LEMMA QuietBlocks ==
  ASSUME IInv, IInv', Layout, Recs, UNCHANGED <<link, data, dir, fcb, fcblist>>,
         call.op # "close", call'.op # "close"
  PROVE  Recs' /\ StoreStep
  <1>1. PICK P, m, Q : Owns(P, m, Q)
    BY DEF Layout
  <1>2. /\ \A g \in Fcb : Listed(g)' => Listed(g)
        /\ \A g \in Fcb : ~Closes(g) /\ ~Closes(g)'
        /\ \A j : Untouched(Q[j], Len(Q[j]))
    BY DEF Closes, Listed, Untouched
  <1>3. ASSUME NEW g \in Fcb  PROVE BlockRecords(g)'
    <2>1. BlockRecords(g)
      BY DEF Recs
    <2> QED  BY <1>1, <1>2, <2>1, RecordsKept
  <1>4. Recs'
    BY <1>3 DEF Recs
  <1>5. \A j : Stays(j)
    BY StaysQuiet
  <1> QED  BY <1>4, <1>5, StoredSame DEF StoreStep

\* INIT forgets every block.
LEMMA InitRecords ==
  ASSUME IInv, IInv', INIT, UNCHANGED <<link, data, dir>>
  PROVE  Recs' /\ StoreStep
  <1>1. \A g : ~Listed(g)'
    BY DEF INIT, Listed, Range
  <1>2. Recs'
    BY <1>1, NoRecords DEF Recs
  <1>3. \A j : Stays(j)
    BY StaysQuiet
  <1> QED  BY <1>2, <1>3, StoredSame DEF StoreStep

-----------------------------------------------------------------------------
(* The opens.                                                              *)

\* A step of block f alone, while no CLOSE is in progress.
LEMMA OthersKeep ==
  ASSUME IInv, NEW f \in Fcb, NEW b \in Block, fcb' = [fcb EXCEPT ![f] = b],
         fcblist' = fcblist \/ (~Listed(f) /\ fcblist' = SETFCB(f)) \/ fcblist' = REMFCB(f),
         call.op # "close" \/ call.f = f, call'.op # "close" \/ call'.f = f
  PROVE  /\ \A g \in Fcb : g # f => BlockKeeps(g)
         /\ fcb'[f] = b
         /\ fcblist' = fcblist => (Listed(f)' <=> Listed(f))
         /\ fcblist' = SETFCB(f) /\ ~Listed(f) => Listed(f)'
         /\ fcblist' = REMFCB(f) => ~Listed(f)'
  <1>1. /\ \A g \in Fcb : fcb'[g] = IF g = f THEN b ELSE fcb[g]
        /\ \A g \in Fcb : g # f => (Listed(g)' <=> Listed(g))
        /\ fcblist' = fcblist => (Listed(f)' <=> Listed(f))
        /\ fcblist' = SETFCB(f) /\ ~Listed(f) => Listed(f)'
        /\ fcblist' = REMFCB(f) => ~Listed(f)'
    BY BlockStep DEF IInv, HeldIInv
  <1>2. \A g \in Fcb : g # f => ~Closes(g) /\ ~Closes(g)'
    BY DEF Closes
  <1> QED  BY <1>1, <1>2 DEF BlockKeeps

\* The failed OPNWTs change no disk and keep no block.
LEMMA OpenFailsRecords ==
  ASSUME IInv, IInv', Callers, Layout, Recs, "read" \notin FaultAt,
         NEW f \in Fcb, NEW n \in Names,
         \/ OpenWriteBusy(f) \/ OpenWriteExists(f, n) \/ DirExtend(f, n)
         \/ OpenFails(f, n) \/ (OpenWrite(f, n) /\ UNCHANGED <<dir, fcblist>>)
  PROVE  Recs' /\ StoreStep
  <1>0. fcb[f] \in Block /\ fcb = [fcb EXCEPT ![f] = fcb[f]] /\ Idle.op # "close"
    BY DEF IInv, HeldIInv, Types, Idle
  <1>1. CASE OpenWriteBusy(f)
    <2>1. /\ fcblist' = REMFCB(f) /\ fcb' = [fcb EXCEPT ![f] = fcb[f]]
          /\ call = Idle /\ call' = Idle /\ UNCHANGED <<link, data, dir>>
      BY <1>0, <1>1 DEF OpenWriteBusy, CallerOpens, CallerFree, disk
    <2>2. ~Listed(f)' /\ \A g \in Fcb : g # f => BlockKeeps(g)
      BY <1>0, <2>1, OthersKeep
    <2> QED  BY <2>1, <2>2, NoRecords, QuietStep
  <1>2. CASE OpenWriteExists(f, n)
    BY <1>0, <1>2, QuietBlocks DEF OpenWriteExists, CallerOpens, CallerFree, disk
  <1>3. CASE OpenFails(f, n)
    BY <1>0, <1>3, QuietBlocks DEF OpenFails, CallerOpens, CallerFree, vars, disk, memory
  <1>4. CASE OpenWrite(f, n) /\ UNCHANGED <<dir, fcblist>>
    <2>1. PICK b \in Block : fcb' = [fcb EXCEPT ![f] = b]
      BY <1>4, CreatesBlock DEF IInv, HeldIInv
    <2>2. /\ ~Listed(f) /\ call = Idle /\ call' = Idle /\ UNCHANGED <<link, data, dir, fcblist>>
      BY <1>4 DEF OpenWrite, CallerOpens, CallerFree
    <2>3. ~Listed(f)' /\ \A g \in Fcb : g # f => BlockKeeps(g)
      BY <1>0, <2>1, <2>2, OthersKeep
    <2> QED  BY <2>2, <2>3, NoRecords, QuietStep
  <1>5. CASE DirExtend(f, n)
    <2>1. PICK b \in Block : fcb' = [fcb EXCEPT ![f] = b] /\ b.fcd = 0
      BY <1>5, ExtendsBlock DEF IInv, HeldIInv
    <2>2. /\ ~Listed(f) /\ call = Idle /\ call'.op # "close" /\ UNCHANGED <<link, data, dir>>
          /\ fcblist' = fcblist \/ fcblist' = SETFCB(f)
      BY <1>0, <1>5 DEF DirExtend, CallerOpens, CallerFree
    <2>3. fcb'[f].fcd = 0 /\ \A g \in Fcb : g # f => BlockKeeps(g)
      BY <1>0, <2>1, <2>2, OthersKeep
    <2> QED  BY <2>2, <2>3, NoRecords, QuietStep
  <1> QED  BY <1>1, <1>2, <1>3, <1>4, <1>5

\* OPNWT: block f has written nothing to the new file.
LEMMA NewFileRecords ==
  ASSUME IInv, IInv', Callers, Layout, Recs, "read" \notin FaultAt,
         NEW f \in Fcb, NEW n \in Names, NEW i \in 1..Len(dir),
         call.op # "delete", call.op # "close", call' = Idle, UNCHANGED <<link, data>>,
         i \notin Files, \A j \in 1..Len(dir) : dir[j].name # n, WriteEntry(i, NoFile(n)),
         NEW b \in Block, fcb' = [fcb EXCEPT ![f] = b], b.fcd = i, b.fas = 2,
         b.fsa = None, b.fsz = 0, b.frn = 0,
         fcblist' = fcblist \/ (~Listed(f) /\ fcblist' = SETFCB(f))
  PROVE  Recs' /\ StoreStep
  <1>0. PICK P, m, Q : Owns(P, m, Q)
    BY DEF Layout
  <1>1. /\ \A g \in Fcb : g # f => BlockKeeps(g)
        /\ fcb'[f] = b /\ ~Closes(f)'
    BY OthersKeep DEF Closes, Idle
  <1>2. /\ n \in Name /\ NoFile(n) \in DirEntry /\ n # Deleted /\ n # Never
        /\ NoFile(n).fsz = 0 /\ NoFile(n).fsa = None /\ NoFile(n).name = n
    BY Values, NameAssumption DEF NoFile, Entry
  <1>3. /\ Len(dir') = Len(dir) /\ dir' \in Seq(DirEntry)
        /\ dir'[i] = NoFile(n) /\ \A j \in 1..Len(dir) : j # i => dir'[j] = dir[j]
    BY <1>2, WriteEntryTypes DEF IInv, HeldIInv
  <1>4. DOMAIN dir = 1..Len(dir) /\ DOMAIN dir' = 1..Len(dir)
    BY <1>3 DEF IInv, HeldIInv, Types
  <1>5. Files \subseteq 1..Len(dir) /\ Live = Files
    BY LiveInDir DEF IInv, HeldIInv, Files
  <1>6. ASSUME NEW g \in Fcb, g # f, Listed(g), fcb[g].fcd # 0  PROVE FileKept(fcb[g].fcd, Q)
    <2>1. fcb[g].fcd \in Files
      BY <1>0, <1>6 DEF Owns, BlockAt
    <2>2. dir'[fcb[g].fcd] = dir[fcb[g].fcd]
      BY <1>3, <1>5, <2>1
    <2> QED  BY <2>2 DEF FileKept, Untouched
  <1>7. BlockRecords(f)'
    <2>1. b.fsz = 0 + b.frn /\ 0 - 1 <= b.frn
      OBVIOUS
    <2>2. HasWritten(f, b, 0, Walked(link', b.fsa, b.fsz), data', b.frn - 1)
      BY DEF HasWritten
    <2>3. ~Edits(f)'
      BY <1>1 DEF Edits
    <2> QED  BY <1>1, <1>2, <1>3, <2>2, <2>3, RecordsNext
  <1>8. Recs'
    BY <1>0, <1>1, <1>6, <1>7, OneBlockRecords
  <1>9. ASSUME NEW j, j # i  PROVE Stays(j)
    <2>1. CASE j \in 1..Len(dir)
      BY <1>3, <1>4, <1>9, <2>1, StaysQuiet
    <2>2. CASE j \notin 1..Len(dir)
      BY <1>4, <2>2 DEF Stays, Live
    <2> QED  BY <2>1, <2>2
  <1>10. i \notin Live /\ i \in Live'
    BY <1>2, <1>3, <1>4, <1>5 DEF Live
  <1>11. \A j \in Live : dir[j].name # n
    BY <1>5
  <1>12. Store!Next
    BY <1>3, <1>9, <1>10, <1>11, StoreCreates
  <1> QED  BY <1>8, <1>12 DEF StoreStep

\* OPNWT with an entry to reuse.
LEMMA OpenWriteRecords ==
  ASSUME IInv, IInv', Callers, Layout, Recs, "read" \notin FaultAt,
         NEW f \in Fcb, NEW n \in Names,
         OpenWrite(f, n), ~UNCHANGED <<dir, fcblist>>
  PROVE  Recs' /\ StoreStep
  <1> DEFINE i == FirstDeleted
             new == [Blank EXCEPT !.fas = 2, !.name = n, !.fcd = i]
  <1>1. /\ call = Idle /\ call' = Idle /\ UNCHANGED <<link, data>> /\ ~Listed(f)
        /\ WriteEntry(i, NoFile(n)) /\ fcb' = [fcb EXCEPT ![f] = new] /\ fcblist' = SETFCB(f)
        /\ Reusable # {} /\ Found(n) = {}
    BY DEF OpenWrite, CallerOpens, CallerFree
  <1>2. i \in Reusable /\ i \in 1..Len(dir)
    BY <1>1, ReusableEntry DEF IInv, HeldIInv
  <1>3. i \notin Files
    <2>1. dir[i].name \in {Deleted, Never}
      BY <1>2 DEF Reusable
    <2> QED  BY <2>1 DEF Files, Live
  <1>4. /\ new \in Block /\ new.fas = 2 /\ new.fcd = i /\ new.fsa = None /\ new.fsz = 0
        /\ new.frn = 0
    <2>1. i \in Nat
      BY <1>2, LiveInDir DEF IInv, HeldIInv
    <2> HIDE DEF i
    <2> QED  BY <2>1, Values DEF Block, Fields, Buffered, Blank
  <1>5. \A j \in 1..Len(dir) : dir[j].name # n
    BY <1>1, NotFound DEF IInv, HeldIInv, DirInv
  <1>6. call.op # "delete" /\ call.op # "close"
    BY <1>1 DEF Idle
  <1> HIDE DEF i, new
  <1> QED  BY <1>1, <1>2, <1>3, <1>4, <1>5, <1>6, NewFileRecords

\* The open of an existing file: for update the first record is in the buffer, for
\* append the last, behind which nothing is written yet.
LEMMA OpenFileRecords ==
  ASSUME IInv, IInv', Callers, Layout, Recs, "read" \notin FaultAt,
         NEW f \in Fcb, NEW n \in Names,
         OpenRead(f, n) \/ OpenUpdate(f, n) \/ OpenAppend(f, n)
  PROVE  Recs' /\ StoreStep
  <1> DEFINE i == FNDNAM(n)
  <1>0. PICK P, m, Q : Owns(P, m, Q)
    BY DEF Layout
  <1>1. /\ ~Listed(f) /\ fcblist' = SETFCB(f) /\ Found(n) # {}
        /\ UNCHANGED <<link, data, dir>> /\ call = Idle /\ call' = Idle
    BY DEF OpenRead, OpenUpdate, OpenAppend, disk, CallerOpens, CallerFree
  <1>2. PICK b \in Block : fcb' = [fcb EXCEPT ![f] = b] /\ b.fcd = i
    BY <1>1, OpensBlock DEF IInv, HeldIInv
  <1>3. /\ \A g \in Fcb : g # f => BlockKeeps(g)
        /\ fcb'[f] = b /\ ~Closes(f)'
    BY <1>1, <1>2, OthersKeep DEF Closes, Idle
  <1>4. i \in 1..Len(dir) /\ dir[i] \in DirEntry /\ dir[i].name = n
    BY <1>1, FoundEntry DEF IInv, HeldIInv
  <1>5. i \in Files
    BY <1>1, <1>4, LiveInDir DEF IInv, HeldIInv, Idle
  <1>6. /\ FromEntry(i) \in Block /\ FromEntry(i).fsa = dir[i].fsa /\ FromEntry(i).fea = dir[i].fea
        /\ FromEntry(i).fsz = dir[i].fsz /\ FromEntry(i).fcs = None /\ FromEntry(i).frn = 0
        /\ FromEntry(i).fas = 0
    BY <1>4, EntryBlock DEF IInv, HeldIInv, FromEntry, Blank
  <1>7. Leads(link, dir[i].fsa, dir[i].fsz, Q[i]) /\ dir[i].fsz \in Nat
        /\ (dir[i].fsa # None => dir[i].fsz > 0)
    <2>1. Describes(dir[i], Q[i])
      BY <1>0, <1>4, <1>5 DEF Owns, EntryAt
    <2>2. Leads(link, dir[i].fsa, dir[i].fsz, Q[i]) /\ dir[i].fsz \in Nat
      BY <1>0, <1>5, EntryLeads
    <2> QED  BY <2>1, <2>2 DEF Describes
  <1> HIDE DEF i
  <1>8. CASE OpenRead(f, n)
    <2>1. b = [FromEntry(i) EXCEPT !.fas = 1, !.fwd = FromEntry(i).fsa]
      BY <1>3, <1>8 DEF OpenRead, i, IInv, HeldIInv, Types
    <2>2. b.fas = 1
      BY <1>6, <2>1 DEF Block, Fields, Buffered
    <2> QED  BY <1>1, <1>3, <2>2, NoRecords, QuietStep
  <1>9. CASE OpenUpdate(f, n)
    <2> DEFINE e == [FromEntry(i) EXCEPT !.fas = 3]
    <2> DEFINE o == [e EXCEPT !.frn = 1, !.fwd = e.fsa]
    <2>0. \/ fcb' = [fcb EXCEPT ![f] = e]
          \/ e.fsa # None /\ fcb' = [fcb EXCEPT ![f] = Reads(o, e.fsa)]
      <3>1. ~Fault("read")
        BY DEF Fault, May
      <3> QED  BY <1>9, <3>1, Zenon DEF OpenUpdate, i
    <2> HIDE DEF e
    <2>1. b = IF e.fsa = None \/ b = e THEN e
              ELSE [o EXCEPT !.fcs = e.fsa, !.fwd = link[e.fsa], !.tag = data[e.fsa], !.fsb = "own"]
      BY <1>3, <2>0 DEF IInv, HeldIInv, Types, Reads
    <2> USE DEF e
    <2>2. e \in Block /\ e.fas = 3 /\ e.fsa = dir[i].fsa /\ e.fcs = None
      BY <1>6 DEF Block, Fields, Buffered
    <2> HIDE DEF e
    <2>3. b.fas = 3 /\ (b.fcs # None => b.fcs = dir[i].fsa /\ b.frn = 1 /\ dir[i].fsa # None)
      BY <2>1, <2>2 DEF Block, Fields, Buffered
    <2>4. b.fcs # None => b.frn \in 1..dir[i].fsz /\ b.fcs = Q[i][1]
      BY <1>7, <2>3 DEF Leads
    <2>5. b.fcs # None => b.fcs = Walked(link, dir[i].fsa, dir[i].fsz)[b.frn]
      BY <1>7, <2>3, <2>4, WalkedIs
    <2>6. HasRead(f, b, dir[i].fsz, Walked(link, dir[i].fsa, dir[i].fsz))
      BY <2>3, <2>4, <2>5 DEF HasRead
    <2>7. HasRead(f, fcb'[f], dir'[fcb'[f].fcd].fsz,
                  Walked(link', dir'[fcb'[f].fcd].fsa, dir'[fcb'[f].fcd].fsz))
      BY <1>1, <1>2, <1>3, <2>6
    <2>8. ~Ahead(f)'
      BY <1>3, <2>3 DEF Ahead, Writers
    <2>9. BlockRecords(f)'
      BY <2>7, <2>8, RecordsNext
    <2> QED  BY <1>1, <1>3, <2>9, QuietStep
  <1>10. CASE OpenAppend(f, n)
    <2>1. "append" \notin FaultAt
      BY DEF Callers
    <2>2. b = Reads([FromEntry(i) EXCEPT !.fas = 2], FromEntry(i).fea)
      BY <1>3, <1>10, <2>1 DEF OpenAppend, Fault, May, i, IInv, HeldIInv, Types
    <2>3. /\ b.fas = 2 /\ b.fcs = dir[i].fea /\ b.fsz = dir[i].fsz /\ b.frn = 0
          /\ b.tag = data[dir[i].fea]
      BY <1>6, <2>2 DEF Block, Fields, Buffered, Reads
    <2>4. HasWritten(f, b, dir[i].fsz, Walked(link, b.fsa, b.fsz), data, 0 - 1)
      BY <1>7, <2>3 DEF HasWritten
    <2>5. HasWritten(f, fcb'[f], dir'[fcb'[f].fcd].fsz,
                     Walked(link', fcb'[f].fsa, fcb'[f].fsz), data', fcb'[f].frn - 1)
      BY <1>1, <1>2, <1>3, <2>3, <2>4
    <2>6. ~Edits(f)'
      BY <1>3, <2>3 DEF Edits
    <2>7. BlockRecords(f)'
      BY <1>3, <2>5, <2>6, RecordsNext
    <2> QED  BY <1>1, <1>3, <2>7, QuietStep
  <1> QED  BY <1>8, <1>9, <1>10

-----------------------------------------------------------------------------
(* Data sectors.                                                           *)

\* Of the sectors q the k-th gets link a and data t.
SectorWritten(q, k, a, t) ==
  /\ \A x \in 1..Len(q) : x # k => link'[q[x]] = link[q[x]] /\ data'[q[x]] = data[q[x]]
  /\ link'[q[k]] = a /\ data'[q[k]] = t

\* A data write into the k-th sector of file i reaches no other sector of a file.
LEMMA WriteInFile ==
  ASSUME IInv, NEW P, NEW m, NEW Q, Owns(P, m, Q), NEW i \in DOMAIN Q, NEW k \in 1..Len(Q[i]),
         NEW a, NEW t, WriteData(Q[i][k], a, t)
  PROVE  /\ \A j \in DOMAIN Q : j # i => Untouched(Q[j], Len(Q[j]))
         /\ SectorWritten(Q[i], k, a, t)
  <1> DEFINE s == Q[i][k]
  <1>1. Tidy(link, P, m, Q, DirExt)
    BY DEF Owns
  <1>2. \A j \in DOMAIN Q : \A x \in 1..Len(Q[j]) : Q[j][x] \in Sector
    BY <1>1, TidyTypes
  <1>3. \A j \in DOMAIN Q : \A x \in 1..Len(Q[j]) : Q[j][x] = s => j = i /\ x = k
    BY <1>1 DEF Tidy, Apart
  <1>4. s \in Sector /\ link' = [link EXCEPT ![s] = a] /\ data' = [data EXCEPT ![s] = t]
    BY <1>2 DEF WriteData
  <1> HIDE DEF s
  <1>5. \A x \in Sector : /\ link'[x] = IF x = s THEN a ELSE link[x]
                          /\ data'[x] = IF x = s THEN t ELSE data[x]
    BY <1>4 DEF IInv, HeldIInv, Types
  <1>6. \A j \in DOMAIN Q : j # i => Untouched(Q[j], Len(Q[j]))
    BY <1>2, <1>3, <1>5 DEF Untouched
  <1>7. \A x \in 1..Len(Q[i]) : x # k =>
          link'[Q[i][x]] = link[Q[i][x]] /\ data'[Q[i][x]] = data[Q[i][x]]
    BY <1>2, <1>3, <1>5
  <1>8. link'[s] = a /\ data'[s] = t
    BY <1>4, <1>5
  <1> QED  BY <1>6, <1>7, <1>8 DEF s, SectorWritten

\* The entries of the other files stay.
LEMMA StaysOthers ==
  ASSUME IInv, NEW P, NEW m, NEW Q, Owns(P, m, Q), NEW i, UNCHANGED dir, call.op # "delete",
         \A j \in DOMAIN Q : j # i => Untouched(Q[j], Len(Q[j]))
  PROVE  \A j : j # i => Stays(j)
  <1> SUFFICES ASSUME NEW j, j # i  PROVE Stays(j)
    OBVIOUS
  <1>1. Live = Files /\ Live' = Live
    BY DEF Files, Live
  <1>2. CASE j \in Files
    <2>1. /\ dir[j].fsz \in Nat /\ Len(Q[j]) \in Nat /\ dir[j].fsz <= Len(Q[j])
          /\ j \in DOMAIN Q /\ j \in 1..Len(dir)
      BY <1>2, EntryLeads
    <2>2. Untouched(Q[j], dir[j].fsz)
      BY <2>1 DEF Untouched
    <2>3. j \in DOMAIN dir'
      BY <2>1 DEF IInv, HeldIInv, Types
    <2> QED  BY <1>2, <2>2, <2>3, StaysFile
  <1>3. CASE j \notin Files
    BY <1>1, <1>3 DEF Stays
  <1> QED  BY <1>2, <1>3

\* What a block that updates a file knows.
LEMMA EditorKnows ==
  ASSUME IInv, Callers, Layout, Recs, "read" \notin FaultAt,
         call \in {Idle, Excls}, NEW P, NEW m, NEW Q, Owns(P, m, Q),
         NEW f \in Fcb, Listed(f), fcb[f].fas \in {3, 131}
  PROVE  LET i == fcb[f].fcd
             b == fcb[f]
             q == Q[i]
         IN  /\ i \in Files /\ i \in DOMAIN Q /\ i # 0 /\ dir[i].fsz = Len(q) /\ Len(q) \in Nat
             /\ \A g \in Fcb : g # f /\ Listed(g) => fcb[g].fcd # i
             /\ b.fcs # None => /\ b.frn \in 1..Len(q) /\ b.fcs = q[b.frn]
                                /\ b.fwd = link[b.fcs]
                                /\ b.fwd # None => b.frn + 1 \in 1..Len(q) /\ b.fwd = q[b.frn + 1]
             /\ b.fas = 131 => b.fcs # None /\ b.tag = Tag(f, Sectors + b.frn)
  <1> DEFINE i == fcb[f].fcd
             b == fcb[f]
             q == Q[i]
  <1>1. /\ i # 0 /\ i \in Files /\ ReadsAt(b, q, link) /\ dir[i].fsz = Len(q)
        /\ \A g \in Fcb : g # f /\ Listed(g) => fcb[g].fcd # i
    BY ReaderKnows DEF Layout
  <1>o. b.fsb = "own"
    BY OwnAlways
  <1>2. /\ Leads(link, dir[i].fsa, dir[i].fsz, q) /\ i \in 1..Len(dir) /\ i \in DOMAIN Q
        /\ Len(q) \in Nat
    BY <1>1, EntryLeads
  <1>3. EntryAt(i, Q)
    BY <1>2 DEF Owns
  <1>4. Len(q) > 0 => link[q[Len(q)]] = None
    BY <1>1, <1>3 DEF EntryAt
  <1>5. BlockRecords(f) /\ Edits(f)
    BY <1>1 DEF Recs, Edits
  <1>6. HasRead(f, b, dir[i].fsz, Walked(link, dir[i].fsa, dir[i].fsz))
    BY <1>5 DEF BlockRecords
  <1>7. \A k \in 1..Len(q) : Walked(link, dir[i].fsa, dir[i].fsz)[k] = q[k]
    BY <1>1, <1>2, WalkedIs
  <1>8. b.fas = 131 => b.fcs # None /\ b.tag = Tag(f, Sectors + b.frn)
    BY <1>6 DEF HasRead
  <1>9. ASSUME b.fcs # None
        PROVE  /\ b.frn \in 1..Len(q) /\ b.fcs = q[b.frn] /\ b.fwd = link[b.fcs]
               /\ b.fwd # None => b.frn + 1 \in 1..Len(q) /\ b.fwd = q[b.frn + 1]
    <2>1. b.frn \in 1..Len(q) /\ b.fcs = q[b.frn]
      BY <1>1, <1>6, <1>7, <1>9 DEF HasRead
    <2>2. b.fwd = link[b.fcs]
      BY <1>o, <1>1, <1>9 DEF ReadsAt
    <2>3. CASE b.frn < Len(q)
      <3>1. b.frn + 1 \in 1..Len(q) /\ link[q[b.frn]] = q[b.frn + 1]
        BY <1>1, <1>2, <2>1, <2>3 DEF Leads
      <3> QED  BY <2>1, <2>2, <3>1
    <2>4. CASE b.frn = Len(q)
      BY <1>2, <1>4, <2>1, <2>2, <2>4
    <2> QED  BY <1>2, <2>1, <2>2, <2>3, <2>4
  <1> QED  BY <1>1, <1>2, <1>8, <1>9

\* CHKWT writes a changed record: the store replaces it.
LEMMA UpdateWritten ==
  ASSUME IInv, IInv', Callers, Layout, Recs, "read" \notin FaultAt,
         call \in {Idle, Excls}, NEW P, NEW m, NEW Q, Owns(P, m, Q),
         UNCHANGED dir, NEW f \in Fcb, Listed(f), fcb[f].fas = 131,
         WriteData(fcb[f].fcs, fcb[f].fwd, fcb[f].tag)
  PROVE  /\ Store!Next /\ link' = link
         /\ \A g \in Fcb : g # f /\ Listed(g) /\ fcb[g].fcd # 0 => FileKept(fcb[g].fcd, Q)
  <1>i. PICK i : i = fcb[f].fcd
    OBVIOUS
  <1>k. PICK k : k = fcb[f].frn
    OBVIOUS
  <1>q. PICK q : q = Q[i]
    OBVIOUS
  <1>1. /\ i \in Files /\ i \in DOMAIN Q /\ dir[i].fsz = Len(q) /\ Len(q) \in Nat
        /\ \A g \in Fcb : g # f /\ Listed(g) => fcb[g].fcd # i
        /\ k \in 1..Len(q) /\ fcb[f].fcs = q[k] /\ fcb[f].fwd = link[q[k]]
        /\ fcb[f].tag = Tag(f, Sectors + k)
    BY <1>i, <1>k, <1>q, EditorKnows
  <1>2. WriteData(Q[i][k], link[q[k]], Tag(f, Sectors + k)) /\ call.op # "delete"
    BY <1>q, <1>1 DEF Idle, Excls
  <1>3. /\ \A j \in DOMAIN Q : j # i => Untouched(Q[j], Len(Q[j]))
        /\ \A x \in 1..Len(q) : x # k => link'[q[x]] = link[q[x]] /\ data'[q[x]] = data[q[x]]
        /\ link'[q[k]] = link[q[k]] /\ data'[q[k]] = Tag(f, Sectors + k)
    <2>1. PICK a, t : a = link[q[k]] /\ t = Tag(f, Sectors + k)
      OBVIOUS
    <2>2. WriteData(Q[i][k], a, t) /\ k \in 1..Len(Q[i])
      BY <1>q, <1>1, <1>2, <2>1
    <2>3. /\ \A j \in DOMAIN Q : j # i => Untouched(Q[j], Len(Q[j]))
          /\ SectorWritten(Q[i], k, a, t)
      BY <1>1, <2>2, WriteInFile
    <2> QED  BY <1>q, <2>1, <2>3 DEF SectorWritten
  <1>4. link' = link
    BY <1>q, <1>2 DEF WriteData, IInv, HeldIInv, Types
  <1>5. ASSUME NEW g \in Fcb, g # f, Listed(g), fcb[g].fcd # 0  PROVE FileKept(fcb[g].fcd, Q)
    <2>1. fcb[g].fcd \in Files /\ fcb[g].fcd # i
      BY <1>1, <1>5 DEF Owns, BlockAt
    <2>2. fcb[g].fcd \in DOMAIN Q
      BY <2>1, EntryLeads
    <2> QED  BY <1>3, <2>1, <2>2 DEF FileKept
  <1>6. \A j : j # i => Stays(j)
    <2>1. call.op # "delete" /\ \A j \in DOMAIN Q : j # i => Untouched(Q[j], Len(Q[j]))
      BY <1>2, <1>3
    <2> QED  BY <2>1, StaysOthers
  <1>7. i \in Live /\ i \in Live'
    BY <1>1 DEF Files, Live
  <1>8. PICK z : z = Len(q)
    OBVIOUS
  <1>9. PICK r, t : r = [x \in 1..z |-> data[q[x]]] /\ t = [x \in 1..z |-> data'[q[x]]]
    OBVIOUS
  <1>s. PICK s : s = dir[i].fsa
    OBVIOUS
  <1>10. Leads(link, s, z, q) /\ Leads(link', s, z, q)
    BY <1>q, <1>s, <1>1, <1>4, <1>8, EntryLeads
  <1>11. r = Content(i) /\ Becomes(i, t)
    <2>1. Content(i) = Records(link, data, s, z) /\ Content(i)' = Records(link', data', s, z)
      BY <1>s, <1>1, <1>8, ContentIs
    <2>2. Records(link, data, s, z) = [x \in 1..z |-> data[q[x]]]
      BY <1>10, WalkedIs
    <2>3. Records(link', data', s, z) = [x \in 1..z |-> data'[q[x]]]
      BY <1>10, WalkedIs
    <2> QED  BY <1>9, <2>1, <2>2, <2>3 DEF Becomes
  <1>12. t[k] = Tag(f, Sectors + k) /\ \A x \in 1..z : x # k => t[x] = r[x]
    BY <1>1, <1>3, <1>8, <1>9
  <1>13. /\ k \in 1..z /\ dir'[i].name = dir[i].name
         /\ DOMAIN r = 1..z /\ Len(r) = z /\ Len(t) = z
    BY <1>1, <1>8, <1>9
  <1>14. Store!Next
    BY <1>6, <1>7, <1>11, <1>12, <1>13, StoreReplaces
  <1> QED  BY <1>4, <1>5, <1>14

\* A block behind a step knows the number of the record in its buffer.
LEMMA EditorRecords ==
  ASSUME IInv, NEW P, NEW m, NEW Q, Owns(P, m, Q), UNCHANGED <<link, dir>>,
         NEW f, NEW b, fcb'[f] = b, NEW i \in Files, b.fcd = i, b.fas # 2, dir[i].fsz = Len(Q[i]),
         b.fcs # None => b.frn \in 1..Len(Q[i]) /\ b.fcs = Q[i][b.frn],
         b.fas = 131 => b.fcs # None /\ b.tag = Tag(f, Sectors + b.frn)
  PROVE  BlockRecords(f)'
  <1>1. Leads(link, dir[i].fsa, dir[i].fsz, Q[i])
    BY EntryLeads
  <1>2. \A k \in 1..dir[i].fsz : Walked(link, dir[i].fsa, dir[i].fsz)[k] = Q[i][k]
    BY <1>1, WalkedIs
  <1>3. HasRead(f, b, dir[i].fsz, Walked(link, dir[i].fsa, dir[i].fsz))
    BY <1>2 DEF HasRead
  <1>4. HasRead(f, fcb'[f], dir'[fcb'[f].fcd].fsz,
                Walked(link', dir'[fcb'[f].fcd].fsa, dir'[fcb'[f].fcd].fsz))
    BY <1>3
  <1>5. ~Ahead(f)'
    BY DEF Ahead, Writers
  <1> QED  BY <1>4, <1>5, RecordsNext

\* RDNEXT, PUTRAN and NEXTS: of the data sectors CHKWT writes at most the changed one.
LEMMA ReadingRecords ==
  ASSUME IInv, IInv', Callers, Layout, Recs, "read" \notin FaultAt,
         NEW f \in Fcb, Reading(f)
  PROVE  Recs' /\ StoreStep
  <1>0. PICK P, m, Q : Owns(P, m, Q)
    BY DEF Layout
  <1>i. PICK i : i = fcb[f].fcd
    OBVIOUS
  <1>1. /\ Listed(f) /\ call = Idle /\ call' = Idle /\ call \in {Idle, Excls} /\ Idle.op # "close"
        /\ UNCHANGED <<dir, fcblist>> /\ fcb[f] \in Block
    BY DEF Reading, ReadNext, Update, NextSector, CallerUses, CallerChanges, CallerFree, disk, IInv, HeldIInv, Types, Idle
  <1>2. PICK b \in Block : fcb' = [fcb EXCEPT ![f] = b] /\ b = fcb'[f]
    <2>0. ~Fault("read")
      BY DEF Fault, May
    <2>1. \E x : fcb' = [fcb EXCEPT ![f] = x]
      <3>1. CASE ReadNext(f)
        BY <2>0, <3>1 DEF ReadNext, IInv, HeldIInv, Types
      <3>2. CASE Update(f)
        <4>1. PICK t : t = Tag(f, Sectors + fcb[f].frn)
          OBVIOUS
        <4>2. fcb' = [fcb EXCEPT ![f].fas = 131, ![f].tag = t]
          BY <3>2, <4>1 DEF Update
        <4>3. fcb' = [fcb EXCEPT ![f] = [fcb[f] EXCEPT !.fas = 131, !.tag = t]]
          BY <4>2 DEF IInv, HeldIInv, Types
        <4> QED  BY <4>3
      <3>3. CASE NextSector(f)
        BY <2>0, <3>3 DEF NextSector
      <3> QED  BY <3>1, <3>2, <3>3 DEF Reading
    <2>2. fcb' = [fcb EXCEPT ![f] = fcb'[f]] /\ fcb'[f] \in Block
      BY <2>1 DEF IInv, HeldIInv, Types
    <2> QED  BY <2>2
  <1>3. \A g \in Fcb : g # f => BlockKeeps(g)
    BY <1>1, <1>2, OthersKeep
  <1>4. ASSUME fcb[f].fas \in {3, 131}
        PROVE  /\ i \in Files /\ i # 0 /\ dir[i].fsz = Len(Q[i]) /\ Len(Q[i]) \in Nat
               /\ fcb[f].fcs # None =>
                    /\ fcb[f].frn \in 1..Len(Q[i]) /\ fcb[f].fcs = Q[i][fcb[f].frn]
                    /\ fcb[f].fwd # None => /\ fcb[f].frn + 1 \in 1..Len(Q[i])
                                            /\ fcb[f].fwd = Q[i][fcb[f].frn + 1]
    BY <1>0, <1>1, <1>4, <1>i, EditorKnows
  <1>5. CASE ReadNext(f)
    <2>1. UNCHANGED <<link, data>> /\ b.fas = 1
      <3>1. PICK s, l, t : s = fcb[f].fwd /\ l = link[s] /\ t = data[s]
        OBVIOUS
      <3>2. /\ UNCHANGED <<link, data>> /\ fcb[f].fas = 1
        BY <1>5, <3>1 DEF ReadNext, disk
      <3>3. fcb'[f].fas = 1
        <4> DEFINE c == [fcb[f] EXCEPT !.frn = @ + 1]
        <4>1. fcb' = [fcb EXCEPT ![f] = Reads(c, c.fwd)]
          BY <1>5, Zenon DEF ReadNext, Fault, May
        <4>2. c.fas = 1
          BY <1>1, <3>2 DEF Block, Fields, Buffered
        <4>3. Reads(c, c.fwd).fas = c.fas
          BY <1>1 DEF Block, Fields, Buffered, Reads
        <4> HIDE DEF c
        <4> QED  BY <4>1, <4>2, <4>3 DEF IInv, HeldIInv, Types
      <3> QED  BY <1>1, <1>2, <3>2, <3>3 DEF Block, Fields, Buffered
    <2> QED  BY <1>1, <1>2, <1>3, <2>1, NoRecords, QuietStep
  <1>6. CASE Update(f)
    <2>t. PICK t : t = Tag(f, Sectors + fcb[f].frn)
      OBVIOUS
    <2>1. /\ UNCHANGED <<link, data>> /\ fcb[f].fas \in {3, 131} /\ fcb[f].fcs # None
          /\ fcb' = [fcb EXCEPT ![f].fas = 131, ![f].tag = t]
      BY <1>6, <2>t DEF Update, disk
    <2>2. b = [fcb[f] EXCEPT !.fas = 131, !.tag = t]
      BY <1>2, <2>1 DEF IInv, HeldIInv, Types
    <2>3. b.fas = 131 /\ b.tag = t /\ b.fcd = i /\ b.fcs = fcb[f].fcs /\ b.frn = fcb[f].frn
      BY <1>1, <1>i, <2>2 DEF Block, Fields, Buffered
    <2>4. BlockRecords(f)'
      BY <1>0, <1>1, <1>2, <1>4, <2>t, <2>1, <2>3, EditorRecords
    <2> QED  BY <1>1, <1>3, <2>1, <2>4, QuietStep
  <1>7. CASE NextSector(f)
    <2>1. /\ fcb[f].fas \in {3, 131} /\ fcb[f].fcs # None
          /\ \/ UNCHANGED <<link, data>>
             \/ /\ fcb[f].fas = 131
                /\ WriteData(fcb[f].fcs, fcb[f].fwd, fcb[f].tag)
      <3>1. /\ [fcb[f] EXCEPT !.fas = 3].fcs = fcb[f].fcs
            /\ [fcb[f] EXCEPT !.fas = 3].fwd = fcb[f].fwd
            /\ [fcb[f] EXCEPT !.fas = 3].tag = fcb[f].tag
        BY <1>1 DEF Block, Fields, Buffered
      <3> QED  BY <1>7, <3>1 DEF NextSector
    <2>2. b.fas = 3 /\ b.fcd = i /\ (b.fcs # None => b.frn \in 1..Len(Q[i]) /\ b.fcs = Q[i][b.frn])
      <3> DEFINE o == [fcb[f] EXCEPT !.fas = 3]
                 s == o.fwd
                 next == [o EXCEPT !.frn = @ + 1]
                 read == Reads(next, s)
      <3>1. /\ o \in Block /\ o.fas = 3 /\ o.fcd = i /\ o.fcs = fcb[f].fcs /\ o.fwd = fcb[f].fwd
            /\ o.frn = fcb[f].frn
        BY <1>1, <1>i DEF Block, Fields, Buffered
      <3>2. (b = read /\ s # None) \/ b = o
        <4>1. ~Fault("read")
          BY DEF Fault, May
        <4>2. \/ fcb' = [fcb EXCEPT ![f] = o]
              \/ s # None /\ fcb' = [fcb EXCEPT ![f] = read]
          BY <1>7, <4>1, Zenon DEF NextSector
        <4> HIDE DEF o, next, read
        <4> QED  BY <1>2, <4>2 DEF IInv, HeldIInv, Types
      <3>3. fcb[f].frn \in 1..Len(Q[i]) /\ fcb[f].fcs = Q[i][fcb[f].frn]
        BY <1>4, <2>1
      <3> HIDE DEF o
      <3>4. CASE b = o
        BY <3>1, <3>3, <3>4
      <3>5. CASE b = read /\ s # None
        <4>1. /\ b.fas = 3 /\ b.fcd = i /\ b.fcs = s /\ b.frn = o.frn + 1
          BY <3>1, <3>5 DEF Block, Fields, Buffered, Reads
        <4> QED  BY <1>4, <2>1, <3>1, <3>5, <4>1
      <3> QED  BY <3>2, <3>4, <3>5
    <2>3. CASE UNCHANGED <<link, data>>
      <3>1. BlockRecords(f)'
        BY <1>0, <1>1, <1>2, <1>4, <2>1, <2>2, <2>3, EditorRecords
      <3> QED  BY <1>1, <1>3, <2>3, <3>1, QuietStep
    <2>4. CASE fcb[f].fas = 131 /\ WriteData(fcb[f].fcs, fcb[f].fwd, fcb[f].tag)
      <3>1. /\ Store!Next /\ link' = link
            /\ \A g \in Fcb : g # f /\ Listed(g) /\ fcb[g].fcd # 0 => FileKept(fcb[g].fcd, Q)
        BY <1>0, <1>1, <2>4, UpdateWritten
      <3>2. BlockRecords(f)'
        BY <1>0, <1>1, <1>2, <1>4, <2>1, <2>2, <3>1, EditorRecords
      <3>3. Recs'
        BY <1>0, <1>3, <3>1, <3>2, OneBlockRecords
      <3> QED  BY <3>1, <3>3 DEF StoreStep
    <2> QED  BY <2>1, <2>3, <2>4
  <1> QED  BY <1>5, <1>6, <1>7 DEF Reading

\* What a block that writes knows of its records.
LEMMA WriterRecords ==
  ASSUME IInv, Callers, Layout, Recs, "read" \notin FaultAt,
         call \in {Idle, Excls}, NEW P, NEW m, NEW Q, Owns(P, m, Q),
         NEW f \in Fcb, Listed(f), fcb[f].fas = 2
  PROVE  LET i == fcb[f].fcd
             b == fcb[f]
             q == Q[i]
             z == dir[i].fsz
         IN  /\ f \in Writers /\ i # 0 /\ i \in Files /\ i \in DOMAIN Q /\ b \in Block
             /\ z \in Nat /\ b.frn \in Nat /\ Len(q) = z + b.frn /\ b.fsz = Len(q)
             /\ Leads(link, b.fsa, b.fsz, q)
             /\ b.fsa # None => Len(q) > 0 /\ b.fcs = q[Len(q)]
             /\ b.fsa = None => Len(q) = 0
             /\ \A k \in 1..b.frn : k < b.frn => data[q[z + k]] = Tag(f, k)
             /\ b.fsa # None => b.tag = IF b.frn = 0 THEN data[b.fcs] ELSE Tag(f, b.frn)
             /\ \A g \in Fcb : g # f /\ Listed(g) => fcb[g].fcd # i
  <1> DEFINE i == fcb[f].fcd
             b == fcb[f]
             q == Q[i]
             z == dir[i].fsz
  <1>1. f \in Writers /\ i # 0 /\ ~Closes(f)
    BY WriterKnows DEF Layout, Closes, Idle, Excls
  <1>2. /\ Leads(link, b.fsa, b.fsz, q) /\ b.fsz = Len(q) /\ (b.fsa # None <=> b.fsz > 0)
        /\ b.fsa # None => b.fcs = q[b.fsz]
        /\ i \in Files /\ b.frn \in Nat /\ b.fsz \in Nat /\ b \in Block
    BY <1>1, BlockLeads
  <1>3. z \in Nat /\ i \in DOMAIN Q
    BY <1>2, EntryLeads
  <1>4. HasWritten(f, b, z, Walked(link, b.fsa, b.fsz), data, b.frn - 1)
    <2>1. BlockRecords(f) /\ Ahead(f)
      BY <1>1 DEF Recs, Ahead
    <2> QED  BY <1>1, <2>1 DEF BlockRecords, OnDisk
  <1>5. \A k \in 1..b.fsz : Walked(link, b.fsa, b.fsz)[k] = q[k]
    BY <1>2, WalkedIs
  <1>6. b.fsz = z + b.frn
    BY <1>4 DEF HasWritten
  <1>7. ASSUME NEW k \in 1..b.frn, k < b.frn  PROVE data[q[z + k]] = Tag(f, k)
    <2>1. z + k \in 1..b.fsz /\ k \in 1..(b.frn - 1)
      BY <1>2, <1>3, <1>6, <1>7
    <2>2. data[Walked(link, b.fsa, b.fsz)[z + k]] = Tag(f, k)
      BY <1>4, <2>1 DEF HasWritten
    <2> QED  BY <1>5, <2>1, <2>2
  <1>8. b.fsa # None => b.tag = IF b.frn = 0 THEN data[b.fcs] ELSE Tag(f, b.frn)
    BY <1>4 DEF HasWritten
  <1>9. \A g \in Fcb : g # f /\ Listed(g) => fcb[g].fcd # i
    BY DEF Layout, Sharing
  <1>10. /\ b.fsa # None => Len(q) > 0 /\ b.fcs = q[Len(q)]
         /\ b.fsa = None => Len(q) = 0
    BY <1>2
  <1> QED  BY <1>1, <1>2, <1>3, <1>6, <1>7, <1>8, <1>9, <1>10

\* The full buffer is written: the entry of no file changes its contents, for the
\* sector is behind those the entry knows, or holds what it held.
LEMMA BufferWritten ==
  ASSUME IInv, Callers, Layout, Recs, "read" \notin FaultAt,
         call \in {Idle, Excls}, NEW P, NEW m, NEW Q, Owns(P, m, Q),
         UNCHANGED dir, NEW f \in Fcb, Listed(f), fcb[f].fas = 2, fcb[f].fsa # None,
         NEW a, WriteData(fcb[f].fcs, a, fcb[f].tag)
  PROVE  /\ \A j : Stays(j)
         /\ \A g \in Fcb : g # f /\ Listed(g) /\ fcb[g].fcd # 0 => FileKept(fcb[g].fcd, Q)
         /\ SectorWritten(Q[fcb[f].fcd], Len(Q[fcb[f].fcd]), a, fcb[f].tag)
  <1>i. PICK i : i = fcb[f].fcd
    OBVIOUS
  <1>q. PICK q : q = Q[i]
    OBVIOUS
  <1>z. PICK z : z = dir[i].fsz
    OBVIOUS
  <1>t. PICK t : t = fcb[f].tag
    OBVIOUS
  <1>r. PICK r : r = fcb[f].frn
    OBVIOUS
  <1>1. /\ i \in Files /\ i \in DOMAIN Q /\ z \in Nat /\ r \in Nat /\ Len(q) = z + r
        /\ Len(q) > 0 /\ fcb[f].fcs = q[Len(q)]
        /\ r = 0 => t = data[q[Len(q)]]
        /\ \A g \in Fcb : g # f /\ Listed(g) => fcb[g].fcd # i
    BY <1>i, <1>q, <1>z, <1>t, <1>r, WriterRecords
  <1>2. Len(q) \in 1..Len(q) /\ call.op # "delete"
    BY <1>1 DEF Idle, Excls
  <1>3. /\ \A j \in DOMAIN Q : j # i => Untouched(Q[j], Len(Q[j]))
        /\ SectorWritten(q, Len(q), a, t)
    <2>1. WriteData(Q[i][Len(Q[i])], a, t) /\ Len(Q[i]) \in 1..Len(Q[i])
      BY <1>q, <1>t, <1>1, <1>2
    <2>2. PICK k : k = Len(Q[i])
      OBVIOUS
    <2>3. WriteData(Q[i][k], a, t) /\ k \in 1..Len(Q[i])
      BY <2>1, <2>2
    <2>4. /\ \A j \in DOMAIN Q : j # i => Untouched(Q[j], Len(Q[j]))
          /\ SectorWritten(Q[i], k, a, t)
      BY <1>1, <2>3, WriteInFile
    <2> QED  BY <1>q, <2>2, <2>4
  <1>4. Untouched(q, z)
    <2> SUFFICES ASSUME NEW k \in 1..z
                 PROVE  data'[q[k]] = data[q[k]] /\ (k < z => link'[q[k]] = link[q[k]])
      BY DEF Untouched
    <2>1. k \in 1..Len(q)
      BY <1>1
    <2>2. CASE k # Len(q)
      BY <1>3, <2>1, <2>2 DEF SectorWritten
    <2>3. CASE k = Len(q)
      <3>1. r = 0 /\ k = z
        BY <1>1, <2>3
      <3>2. data'[q[k]] = t
        BY <1>3, <2>3 DEF SectorWritten
      <3> QED  BY <1>1, <2>3, <3>1, <3>2
    <2> QED  BY <2>2, <2>3
  <1>5. ASSUME NEW g \in Fcb, g # f, Listed(g), fcb[g].fcd # 0  PROVE FileKept(fcb[g].fcd, Q)
    <2>1. fcb[g].fcd \in Files /\ fcb[g].fcd # i
      BY <1>1, <1>5 DEF Owns, BlockAt
    <2>2. fcb[g].fcd \in DOMAIN Q
      BY <2>1, EntryLeads
    <2> QED  BY <1>3, <2>1, <2>2 DEF FileKept
  <1>6. \A j : j # i => Stays(j)
    BY <1>2, <1>3, StaysOthers
  <1>7. Stays(i)
    <2>1. Untouched(Q[i], dir[i].fsz)
      BY <1>q, <1>z, <1>4
    <2>2. i \in DOMAIN dir'
      BY <1>1, LiveInDir DEF IInv, HeldIInv, Types
    <2> QED  BY <1>1, <2>1, <2>2, StaysFile
  <1> QED  BY <1>i, <1>q, <1>t, <1>3, <1>5, <1>6, <1>7

\* Of the sectors q those behind the z-th hold the first n records that f wrote.
HasTags(f, D, q, z, n) == \A k \in 1..n : D[q[z + k]] = Tag(f, k)

\* The buffer holds the last record.
HoldsLast(f, b, D) == b.fsa # None => b.tag = IF b.frn = 0 THEN D[b.fcs] ELSE Tag(f, b.frn)

\* The entry knows z sectors.
KnownSize(i, z) == dir[i].fsz = z

\* Block b of f behind a step.
WroteBlock(f, b, q, z, n) ==
  /\ fcb'[f] = b /\ b.fas = 2 /\ b.frn \in Nat /\ b.fsz = z + b.frn
  /\ n \in Int /\ n = IF Closes(f)' THEN b.frn ELSE b.frn - 1
  /\ Leads(link', b.fsa, b.fsz, q)
  /\ z \in Nat /\ KnownSize(b.fcd, z)'
  /\ HasTags(f, data', q, z, n) /\ HoldsLast(f, b, data')

\* A block behind a step leads through q and has written the records behind the z-th.
LEMMA WroteRecords ==
  ASSUME NEW f, NEW b, NEW q, NEW z, NEW n, WroteBlock(f, b, q, z, n)
  PROVE  BlockRecords(f)'
  <1>l. PICK L, D : L = link' /\ D = data'
    OBVIOUS
  <1>0. /\ fcb'[f] = b /\ b.fas = 2 /\ Leads(L, b.fsa, b.fsz, q) /\ z \in Nat
        /\ z = dir'[b.fcd].fsz /\ b.frn \in Nat /\ b.fsz = z + b.frn
        /\ n \in Int /\ n = IF Closes(f)' THEN b.frn ELSE b.frn - 1
        /\ \A k \in 1..n : D[q[z + k]] = Tag(f, k)
        /\ b.fsa # None => b.tag = IF b.frn = 0 THEN D[b.fcs] ELSE Tag(f, b.frn)
    BY <1>l DEF WroteBlock, KnownSize, HasTags, HoldsLast
  <1>1. \A k \in 1..b.fsz : Walked(L, b.fsa, b.fsz)[k] = q[k]
    BY <1>0, WalkedIs
  <1>2. n <= b.frn
    BY <1>0
  <1>3. ASSUME NEW k \in 1..n  PROVE D[Walked(L, b.fsa, b.fsz)[z + k]] = Tag(f, k)
    <2>1. z + k \in 1..b.fsz
      BY <1>0, <1>2
    <2> QED  BY <1>0, <1>1, <2>1
  <1>4. HasWritten(f, b, z, Walked(L, b.fsa, b.fsz), D, n)
    BY <1>0, <1>2, <1>3 DEF HasWritten
  <1>5. HasWritten(f, fcb'[f], dir'[fcb'[f].fcd].fsz,
                   Walked(link', fcb'[f].fsa, fcb'[f].fsz), data', n)
    BY <1>l, <1>0, <1>4
  <1>6. ~Edits(f)' /\ n = IF Closes(f)' THEN fcb'[f].frn ELSE fcb'[f].frn - 1
    BY <1>0 DEF Edits
  <1> QED  BY <1>5, <1>6, RecordsNext

\* The links of q lead on to sector a.
LeadsTo(L, q, a) == \A k \in 1..Len(q) : L[q[k]] = IF k < Len(q) THEN q[k + 1] ELSE a

\* ASNNXT gives block f the next sector, behind what it has written.
LEMMA AssignedRecords ==
  ASSUME IInv, Callers, call' = Idle, UNCHANGED dir,
         NEW f \in Fcb, NEW b \in Block, ASNNXT(f, b),
         secmap.first # None, b.fas = 2,
         NEW q \in Seq(Sector), NEW z \in Nat, KnownSize(b.fcd, z), Len(q) = z + b.frn,
         b.fsz = Len(q), b.fsa = None <=> Len(q) = 0, Len(q) > 0 => b.fsa = q[1],
         LeadsTo(link', q, secmap.first), HasTags(f, data', q, z, b.frn)
  PROVE  BlockRecords(f)'
  <1>l. PICK L, D : L = link' /\ D = data'
    OBVIOUS
  <1>0. /\ \A k \in 1..Len(q) : L[q[k]] = IF k < Len(q) THEN q[k + 1] ELSE secmap.first
        /\ \A k \in 1..b.frn : D[q[z + k]] = Tag(f, k)
        /\ z = dir[b.fcd].fsz
    BY <1>l DEF KnownSize, LeadsTo, HasTags
  <1>a. PICK a : a = secmap.first
    OBVIOUS
  <1>r. PICK r : r = b.frn
    OBVIOUS
  <1>s. PICK s : s = IF b.fsa = None THEN a ELSE b.fsa
    OBVIOUS
  <1>y. PICK y : y = b.fsz + 1
    OBVIOUS
  <1>t. PICK t : t = Tag(f, r + 1)
    OBVIOUS
  <1>1. a \in Sector /\ a # None /\ r \in Nat /\ y \in Nat
    <2>1. secmap \in Map
      BY DEF IInv, HeldIInv, Types
    <2>2. a \in Sector /\ a # None
      BY <1>a, <2>1 DEF Map, Addr
    <2>3. r \in Nat /\ y \in Nat
      BY <1>r, <1>y DEF Block, Fields, Buffered
    <2> QED  BY <2>2, <2>3
  <1>2. PICK c : c = [[b EXCEPT !.fea = a, !.fsz = y, !.fsa = s]
                        EXCEPT !.fcs = a, !.frn = r + 1, !.fwd = None, !.tag = t, !.fsb = "own"]
    OBVIOUS
  <1>3. fcb' = [fcb EXCEPT ![f] = c]
    <2>1. ~Fault("assign")
      BY DEF Callers, Fault, May
    <2>2. Assigned(b, a) = [b EXCEPT !.fea = a, !.fsz = y, !.fsa = s]
      BY <1>s, <1>y DEF Assigned, Block, Fields
    <2> QED  BY <1>a, <1>r, <1>t, <1>2, <2>1, <2>2 DEF ASNNXT
  <1>4. /\ c.fas = 2 /\ c.fcd = b.fcd /\ c.fsa = s /\ c.fsz = y /\ c.frn = r + 1 /\ c.tag = t
        /\ fcb'[f] = c
    BY <1>2, <1>3 DEF Block, Fields, Buffered, IInv, HeldIInv, Types
  <1>5. PICK q1 : q1 = Append(q, a)
    OBVIOUS
  <1>6. /\ q1 \in Seq(Sector) /\ Len(q1) = Len(q) + 1 /\ q1[Len(q) + 1] = a
        /\ \A k \in 1..Len(q) : q1[k] = q[k]
    BY <1>1, <1>5
  <1>7. Leads(L, c.fsa, c.fsz, q1)
    <2>1. s = q1[1]
      <3>1. CASE Len(q) = 0
        BY <1>s, <1>6, <3>1
      <3>2. CASE Len(q) # 0
        BY <1>s, <1>6, <3>2
      <3> QED  BY <3>1, <3>2
    <2>2. ASSUME NEW k \in 1..Len(q)  PROVE L[q1[k]] = q1[k + 1]
      <3>1. CASE k < Len(q)
        BY <1>0, <1>6, <2>2, <3>1
      <3>2. CASE k = Len(q)
        BY <1>0, <1>a, <1>6, <2>2, <3>2
      <3> QED  BY <2>2, <3>1, <3>2
    <2>3. y = Len(q) + 1 /\ \A k \in 1..y : k < y => k \in 1..Len(q)
      BY <1>y
    <2> QED  BY <1>1, <1>4, <1>6, <2>1, <2>2, <2>3 DEF Leads
  <1>8. /\ c.frn \in Nat /\ c.fsz = z + c.frn /\ z = dir'[c.fcd].fsz
    <2>1. y = z + (r + 1)
      BY <1>1, <1>r, <1>y
    <2>2. z = dir'[c.fcd].fsz
      BY <1>0, <1>4
    <2> QED  BY <1>1, <1>4, <2>1, <2>2
  <1>9. r = IF Closes(f)' THEN c.frn ELSE c.frn - 1
    <2>1. ~Closes(f)'
      BY DEF Closes, Idle
    <2> QED  BY <1>1, <1>4, <2>1
  <1>10. ASSUME NEW k \in 1..r  PROVE D[q1[z + k]] = Tag(f, k)
    <2>1. z + k \in 1..Len(q)
      BY <1>1, <1>4, <1>10, <1>r
    <2> QED  BY <1>0, <1>6, <1>r, <2>1
  <1>11. c.fsa # None => c.tag = IF c.frn = 0 THEN D[c.fcs] ELSE Tag(f, c.frn)
    BY <1>1, <1>4, <1>t
  <1>12. r \in Int
    BY <1>1
  <1>13. HasTags(f, data', q1, z, r)
    BY <1>l, <1>10 DEF HasTags
  <1>14. HoldsLast(f, c, data')
    BY <1>l, <1>11 DEF HoldsLast
  <1>15. KnownSize(c.fcd, z)'
    BY <1>8 DEF KnownSize
  <1>16. Leads(link', c.fsa, c.fsz, q1)
    BY <1>l, <1>7
  <1>17. WroteBlock(f, c, q1, z, r)
    BY <1>4, <1>8, <1>9, <1>12, <1>13, <1>14, <1>15, <1>16 DEF WroteBlock
  <1> QED  BY <1>17, WroteRecords

\* What a block that writes has in the sectors behind the entry, once its buffer is on
\* the disk with the link a.
LEMMA WrittenOut ==
  ASSUME IInv, Callers, Layout, Recs, "read" \notin FaultAt,
         call \in {Idle, Excls}, NEW P, NEW m, NEW Q, Owns(P, m, Q),
         NEW f \in Fcb, Listed(f), fcb[f].fas = 2, fcb[f].fsa # None,
         NEW q, q = Q[fcb[f].fcd], NEW z, z = dir[fcb[f].fcd].fsz,
         NEW a, SectorWritten(q, Len(q), a, fcb[f].tag)
  PROVE  HasTags(f, data', q, z, fcb[f].frn) /\ LeadsTo(link', q, a) /\ HoldsLast(f, fcb[f], data')
  <1>b. PICK b : b = fcb[f]
    OBVIOUS
  <1>l. PICK L, D : L = link' /\ D = data'
    OBVIOUS
  <1>1. /\ z \in Nat /\ b.frn \in Nat /\ Len(q) = z + b.frn /\ b.fsz = Len(q)
        /\ Leads(link, b.fsa, b.fsz, q) /\ Len(q) > 0 /\ b.fcs = q[Len(q)]
        /\ \A k \in 1..b.frn : k < b.frn => data[q[z + k]] = Tag(f, k)
        /\ b.tag = IF b.frn = 0 THEN data[b.fcs] ELSE Tag(f, b.frn)
    <2>i. PICK i : i = fcb[f].fcd
      OBVIOUS
    <2>1. q = Q[i] /\ z = dir[i].fsz
      BY <2>i
    <2> QED  BY <1>b, <2>i, <2>1, WriterRecords
  <1>2. /\ \A x \in 1..Len(q) : x # Len(q) => L[q[x]] = link[q[x]] /\ D[q[x]] = data[q[x]]
        /\ L[q[Len(q)]] = a /\ D[q[Len(q)]] = b.tag
    <2>1. SectorWritten(q, Len(q), a, b.tag)
      BY <1>b
    <2> QED  BY <1>l, <2>1 DEF SectorWritten
  <1>3. ASSUME NEW k \in 1..b.frn  PROVE D[q[z + k]] = Tag(f, k)
    <2>1. CASE k = b.frn
      <3>1. z + k = Len(q) /\ b.frn # 0
        BY <1>1, <2>1
      <3> QED  BY <1>1, <1>2, <2>1, <3>1
    <2>2. CASE k # b.frn
      <3>1. z + k \in 1..Len(q) /\ z + k # Len(q) /\ k < b.frn
        BY <1>1, <1>3, <2>2
      <3> QED  BY <1>1, <1>2, <3>1
    <2> QED  BY <2>1, <2>2
  <1>4. ASSUME NEW k \in 1..Len(q)  PROVE L[q[k]] = IF k < Len(q) THEN q[k + 1] ELSE a
    <2>0. Len(q) \in Nat
      BY <1>1
    <2>1. CASE k = Len(q)
      <3>1. L[q[k]] = a /\ ~(k < Len(q))
        BY <1>2, <2>0, <2>1
      <3> QED  BY <3>1
    <2>2. CASE k # Len(q)
      <3>1. k < Len(q)
        BY <1>4, <2>0, <2>2
      <3>2. L[q[k]] = link[q[k]]
        BY <1>2, <2>2
      <3>3. link[q[k]] = q[k + 1]
        BY <1>1, <3>1 DEF Leads
      <3> QED  BY <3>1, <3>2, <3>3
    <2> QED  BY <2>1, <2>2
  <1>5. b.tag = IF b.frn = 0 THEN D[b.fcs] ELSE Tag(f, b.frn)
    BY <1>1, <1>2
  <1> QED  BY <1>b, <1>l, <1>3, <1>4, <1>5 DEF HasTags, LeadsTo, HoldsLast

\* The block goes on behind a write of its buffer without a new sector.
LEMMA EndedRecords ==
  ASSUME IInv, Callers, Layout, Recs, "read" \notin FaultAt,
         call \in {Idle, Excls}, NEW P, NEW m, NEW Q, Owns(P, m, Q),
         UNCHANGED dir, NEW f \in Fcb, Listed(f), fcb[f].fas = 2, fcb[f].fsa # None,
         NEW c, fcb'[f] = c, c.fas = 2, c.fcd = fcb[f].fcd, c.fsa = fcb[f].fsa,
         c.fsz = fcb[f].fsz, c.fcs = fcb[f].fcs, c.frn = fcb[f].frn, c.tag = fcb[f].tag,
         NEW a, SectorWritten(Q[fcb[f].fcd], Len(Q[fcb[f].fcd]), a, fcb[f].tag)
  PROVE  BlockRecords(f)'
  <1>b. PICK b : b = fcb[f]
    OBVIOUS
  <1>q. PICK q : q = Q[fcb[f].fcd]
    OBVIOUS
  <1>z. PICK z : z = dir[fcb[f].fcd].fsz
    OBVIOUS
  <1>1. /\ z \in Nat /\ b.frn \in Nat /\ Len(q) = z + b.frn /\ b.fsz = Len(q)
        /\ Leads(link, b.fsa, b.fsz, q)
    BY <1>b, <1>q, <1>z, WriterRecords
  <1>2. SectorWritten(q, Len(q), a, fcb[f].tag)
    BY <1>q
  <1>3. HasTags(f, data', q, z, b.frn) /\ LeadsTo(link', q, a) /\ HoldsLast(f, b, data')
    BY <1>b, <1>q, <1>z, <1>2, WrittenOut
  <1>4. PICK n : n = IF Closes(f)' THEN c.frn ELSE c.frn - 1
    OBVIOUS
  <1>5. n \in Int /\ n <= b.frn
    BY <1>b, <1>1, <1>4
  <1>6. HasTags(f, data', q, z, n)
    BY <1>1, <1>3, <1>5 DEF HasTags
  <1>7. Leads(link', c.fsa, c.fsz, q)
    <2>1. PICK L : L = link'
      OBVIOUS
    <2>2. \A k \in 1..Len(q) : k < Len(q) => L[q[k]] = q[k + 1]
      BY <1>3, <2>1 DEF LeadsTo
    <2>3. Leads(L, b.fsa, b.fsz, q)
      BY <1>1, <2>2 DEF Leads
    <2> QED  BY <1>b, <2>1, <2>3
  <1>8. KnownSize(c.fcd, z)'
    BY <1>z DEF KnownSize
  <1>9. HoldsLast(f, c, data')
    BY <1>b, <1>3 DEF HoldsLast
  <1>10. WroteBlock(f, c, q, z, n)
    BY <1>b, <1>1, <1>4, <1>5, <1>6, <1>7, <1>8, <1>9 DEF WroteBlock
  <1> QED  BY <1>10, WroteRecords

\* WTNEXT: the file grows, or the disk is full.
LEMMA WritingRecords ==
  ASSUME IInv, IInv', Callers, Layout, Recs, "read" \notin FaultAt,
         NEW f \in Fcb, Writing(f)
  PROVE  Recs' /\ StoreStep
  <1>0. PICK P, m, Q : Owns(P, m, Q)
    BY DEF Layout
  <1>1. /\ fcb[f] \in Block /\ Listed(f) /\ call = Idle /\ call' = Idle /\ fcb[f].fas = 2
        /\ UNCHANGED <<dir, fcblist>> /\ call \in {Idle, Excls} /\ Idle.op # "close"
        /\ secmap \in Map
    BY DEF Writing, WriteFirst, WriteNext, WriteFull, CallerUses, CallerChanges, CallerFree, disk, IInv, HeldIInv, Types, Idle
  <1>i. PICK i : i = fcb[f].fcd
    OBVIOUS
  <1>q. PICK q : q = Q[i]
    OBVIOUS
  <1>z. PICK z : z = dir[i].fsz
    OBVIOUS
  <1>r. PICK r : r = fcb[f].frn
    OBVIOUS
  <1>2. /\ z \in Nat /\ r \in Nat /\ Len(q) = z + r /\ fcb[f].fsz = Len(q)
        /\ Leads(link, fcb[f].fsa, fcb[f].fsz, q) /\ (fcb[f].fsa = None <=> Len(q) = 0)
    BY <1>0, <1>1, <1>i, <1>q, <1>z, <1>r, WriterRecords
  <1>3. q \in Seq(Sector) /\ (Len(q) > 0 => fcb[f].fsa = q[1])
    BY <1>2 DEF Leads
  <1>4. PICK b \in Block : fcb' = [fcb EXCEPT ![f] = b]
    BY WritesBlock DEF IInv, HeldIInv
  <1>5. \A g \in Fcb : g # f => BlockKeeps(g)
    BY <1>1, <1>4, OthersKeep
  <1>6. CASE WriteFirst(f)
    <2>1. UNCHANGED <<link, data>> /\ ASNNXT(f, fcb[f]) /\ secmap.first # None /\ fcb[f].fsa = None
      BY <1>6 DEF WriteFirst, disk
    <2>2. LeadsTo(link', q, secmap.first) /\ HasTags(f, data', q, z, r)
      BY <1>2, <2>1 DEF LeadsTo, HasTags
    <2>3. KnownSize(i, z)
      BY <1>z DEF KnownSize
    <2>4. PICK o \in Block : o = fcb[f]
      BY <1>1
    <2>5. /\ ASNNXT(f, o) /\ o.fas = 2 /\ KnownSize(o.fcd, z) /\ Len(q) = z + o.frn /\ o.fsz = Len(q)
          /\ (o.fsa = None <=> Len(q) = 0) /\ (Len(q) > 0 => o.fsa = q[1])
          /\ HasTags(f, data', q, z, o.frn)
      BY <1>1, <1>i, <1>r, <1>2, <1>3, <2>1, <2>2, <2>3, <2>4
    <2>6. BlockRecords(f)'
      BY <1>1, <1>2, <1>3, <2>1, <2>2, <2>5, AssignedRecords
    <2> QED  BY <1>1, <1>5, <2>1, <2>6, QuietStep
  <1>7. CASE WriteNext(f)
    <2>a. PICK a : a = secmap.first
      OBVIOUS
    <2>b. PICK o : o = [fcb[f] EXCEPT !.fwd = a]
      OBVIOUS
    <2>1. ~Fault("write")
      BY DEF Callers, Fault, May
    <2>2. WriteData(o.fcs, o.fwd, o.tag) /\ ASNNXT(f, o) /\ fcb[f].fsa # None /\ secmap.first # None
      BY <1>7, <2>a, <2>b, <2>1 DEF WriteNext
    <2>3. /\ o \in Block /\ o.fas = fcb[f].fas /\ o.fcd = fcb[f].fcd /\ o.fsa = fcb[f].fsa
          /\ o.fsz = fcb[f].fsz /\ o.fcs = fcb[f].fcs /\ o.fwd = a /\ o.frn = fcb[f].frn
          /\ o.tag = fcb[f].tag
      <3>1. a \in Addr
        BY <1>1, <2>a DEF Map
      <3> QED  BY <1>1, <2>b, <3>1 DEF Block, Fields, Buffered
    <2>4. WriteData(fcb[f].fcs, a, fcb[f].tag)
      BY <2>2, <2>3
    <2>5. /\ \A j : Stays(j)
          /\ \A g \in Fcb : g # f /\ Listed(g) /\ fcb[g].fcd # 0 => FileKept(fcb[g].fcd, Q)
          /\ SectorWritten(Q[fcb[f].fcd], Len(Q[fcb[f].fcd]), a, fcb[f].tag)
      BY <1>0, <1>1, <2>2, <2>4, BufferWritten
    <2>6. HasTags(f, data', q, z, r) /\ LeadsTo(link', q, a)
      <3>1. q = Q[fcb[f].fcd] /\ z = dir[fcb[f].fcd].fsz /\ SectorWritten(q, Len(q), a, fcb[f].tag)
        BY <1>i, <1>q, <1>z, <2>5
      <3> QED  BY <1>0, <1>1, <1>r, <2>2, <3>1, WrittenOut
    <2>7. KnownSize(o.fcd, z)
      BY <1>i, <1>z, <2>3 DEF KnownSize
    <2>8. /\ o.fas = 2 /\ Len(q) = z + o.frn /\ o.fsz = Len(q)
          /\ (o.fsa = None <=> Len(q) = 0) /\ (Len(q) > 0 => o.fsa = q[1])
          /\ HasTags(f, data', q, z, o.frn) /\ LeadsTo(link', q, secmap.first)
      BY <1>1, <1>r, <1>2, <1>3, <2>a, <2>3, <2>6
    <2>9. BlockRecords(f)'
      BY <1>1, <1>2, <1>3, <2>2, <2>3, <2>7, <2>8, AssignedRecords
    <2>10. Recs'
      BY <1>0, <1>5, <2>5, <2>9, OneBlockRecords
    <2> QED  BY <2>5, <2>10, StoredSame DEF StoreStep
  <1>8. CASE WriteFull(f)
    <2>1. /\ WriteData(fcb[f].fcs, None, fcb[f].tag) /\ fcb[f].fsa # None
          /\ fcb' = [fcb EXCEPT ![f].fwd = None]
      <3>1. ~Fault("write")
        BY DEF Callers, Fault, May
      <3> QED  BY <1>8, <3>1 DEF WriteFull
    <2>2. PICK c : c = [fcb[f] EXCEPT !.fwd = None]
      OBVIOUS
    <2>3. /\ fcb'[f] = c /\ c.fas = 2 /\ c.fcd = fcb[f].fcd /\ c.fsa = fcb[f].fsa
          /\ c.fsz = fcb[f].fsz /\ c.fcs = fcb[f].fcs /\ c.frn = fcb[f].frn /\ c.tag = fcb[f].tag
      BY <1>1, <2>1, <2>2 DEF IInv, HeldIInv, Types, Block, Fields, Buffered
    <2>5. /\ \A j : Stays(j)
          /\ \A g \in Fcb : g # f /\ Listed(g) /\ fcb[g].fcd # 0 => FileKept(fcb[g].fcd, Q)
          /\ SectorWritten(Q[fcb[f].fcd], Len(Q[fcb[f].fcd]), None, fcb[f].tag)
      BY <1>0, <1>1, <2>1, BufferWritten
    <2>6. BlockRecords(f)'
      BY <1>0, <1>1, <2>1, <2>3, <2>5, EndedRecords
    <2>7. Recs'
      BY <1>0, <1>5, <2>5, <2>6, OneBlockRecords
    <2> QED  BY <2>5, <2>7, StoredSame DEF StoreStep
  <1> QED  BY <1>6, <1>7, <1>8 DEF Writing

-----------------------------------------------------------------------------
(* CLOSE.                                                                  *)

\* A directory entry is written.
LEMMA EntryWritten ==
  ASSUME IInv, UNCHANGED <<link, data>>, NEW i \in 1..Len(dir), NEW e \in DirEntry,
         WriteEntry(i, e)
  PROVE  /\ dir'[i] = e /\ (i \in Live' <=> e.name \notin {Deleted, Never})
         /\ \A j : j # i => Stays(j)
         /\ \A j \in 1..Len(dir) : j # i => \A Q : FileKept(j, Q)
  <1>1. /\ Len(dir') = Len(dir) /\ dir' \in Seq(DirEntry)
        /\ \A k \in 1..Len(dir) : dir'[k] = IF k = i THEN e ELSE dir[k]
    BY WriteEntryTypes DEF IInv, HeldIInv
  <1>2. DOMAIN dir = 1..Len(dir) /\ DOMAIN dir' = 1..Len(dir)
    BY <1>1 DEF IInv, HeldIInv, Types
  <1>3. ASSUME NEW j, j # i  PROVE Stays(j)
    <2>1. CASE j \in 1..Len(dir)
      BY <1>1, <1>2, <1>3, <2>1, StaysQuiet
    <2>2. CASE j \notin 1..Len(dir)
      BY <1>2, <2>2 DEF Stays, Live
    <2> QED  BY <2>1, <2>2
  <1>4. ASSUME NEW j \in 1..Len(dir), j # i, NEW Q  PROVE FileKept(j, Q)
    <2>1. dir'[j] = dir[j]
      BY <1>1, <1>4
    <2> QED  BY <2>1 DEF FileKept, Untouched
  <1>5. dir'[i] = e
    BY <1>1
  <1>6. i \in Live' <=> e.name \notin {Deleted, Never}
    BY <1>2, <1>5 DEF Live
  <1> QED  BY <1>3, <1>4, <1>5, <1>6

\* A CLOSE that fails writes nothing, and the block it leaves has no records of its own.
LEMMA CloseFailsRecords ==
  ASSUME IInv, IInv', Callers, Layout, Recs, "read" \notin FaultAt,
         NEW f \in Fcb, NEW then, call \in {Idle, Excls},
         NEW b \in Block, CloseFails(f, then, b), UNCHANGED <<link, data, dir>>,
         ~INIT => BlockRecords(f)'
  PROVE  Recs' /\ StoreStep
  <1>1. CASE INIT
    BY <1>1, InitRecords
  <1>2. CASE ~INIT
    <2>1. fcb' = [fcb EXCEPT ![f] = b] /\ call' = Idle /\ fcblist' = fcblist
      BY <1>2 DEF CloseFails
    <2>2. call.op # "close" /\ call'.op # "close"
      BY <2>1 DEF Idle, Excls
    <2>3. \A g \in Fcb : g # f => BlockKeeps(g)
      BY <2>1, <2>2, OthersKeep
    <2> QED  BY <1>2, <2>3, QuietStep
  <1> QED  BY <1>1, <1>2

\* CLOSE of a block that reads or updates.
LEMMA CloseReadRecords ==
  ASSUME IInv, IInv', Callers, Layout, Recs, "read" \notin FaultAt,
         NEW f \in Fcb, NEW then, Listed(f), call \in {Idle, Excls},
         CloseRead(f, then)
  PROVE  Recs' /\ StoreStep
  <1>0. PICK P, m, Q : Owns(P, m, Q)
    BY DEF Layout
  <1>1. /\ fcb[f] \in Block /\ Blank \in Block /\ UNCHANGED dir
        /\ call.op # "close" /\ Idle.op # "close" /\ Excls.op # "close"
    BY Values DEF IInv, HeldIInv, Types, CloseRead, Idle, Excls
  <1>2. ASSUME Closed(f, then)
        PROVE  ~Listed(f)' /\ \A g \in Fcb : g # f => BlockKeeps(g)
    <2>1. fcb' = [fcb EXCEPT ![f] = Blank] /\ fcblist' = REMFCB(f) /\ call'.op # "close"
      BY <1>1, <1>2 DEF Closed
    <2> QED  BY <1>1, <2>1, OthersKeep
  <1>3. CASE Closed(f, then) /\ UNCHANGED <<link, data>>
    <2>1. BlockRecords(f)'
      BY <1>2, <1>3, NoRecords
    <2> QED  BY <1>1, <1>2, <1>3, <2>1, QuietStep
  <1>4. CASE fcb[f].fas = 131 /\ Closed(f, then) /\ WriteData(fcb[f].fcs, fcb[f].fwd, fcb[f].tag)
    <2>1. BlockRecords(f)'
      BY <1>2, <1>4, NoRecords
    <2>2. /\ Store!Next
          /\ \A g \in Fcb : g # f /\ Listed(g) /\ fcb[g].fcd # 0 => FileKept(fcb[g].fcd, Q)
      BY <1>0, <1>1, <1>4, UpdateWritten
    <2>3. Recs'
      BY <1>0, <1>2, <1>4, <2>1, <2>2, OneBlockRecords
    <2> QED  BY <2>2, <2>3 DEF StoreStep
  <1>5. CASE fcb[f].fas = 131 /\ CloseFails(f, then, [fcb[f] EXCEPT !.fas = 3])
             /\ UNCHANGED <<link, data>>
    <2>1. PICK b : b = [fcb[f] EXCEPT !.fas = 3]
      OBVIOUS
    <2>2. b \in Block /\ b.fas = 3 /\ b.fcs = fcb[f].fcs /\ b.frn = fcb[f].frn /\ b.fcd = fcb[f].fcd
      BY <1>1, <2>1 DEF Block, Fields, Buffered
    <2>3. ASSUME ~INIT  PROVE BlockRecords(f)'
      <3>i. PICK i : i = fcb[f].fcd
        OBVIOUS
      <3>1. fcb' = [fcb EXCEPT ![f] = b]
        BY <1>5, <2>1, <2>3 DEF CloseFails
      <3>2. fcb'[f] = b
        BY <3>1 DEF IInv, HeldIInv, Types
      <3>3. /\ i \in Files /\ dir[i].fsz = Len(Q[i])
            /\ b.fcs # None => b.frn \in 1..Len(Q[i]) /\ b.fcs = Q[i][b.frn]
        BY <1>0, <1>5, <2>2, <3>i, EditorKnows
      <3> QED  BY <1>0, <1>1, <1>5, <2>2, <3>i, <3>2, <3>3, EditorRecords
    <2> QED  BY <1>1, <1>5, <2>1, <2>2, <2>3, CloseFailsRecords
  <1>6. \/ Closed(f, then) /\ UNCHANGED <<link, data>>
        \/ fcb[f].fas = 131 /\ Closed(f, then) /\ WriteData(fcb[f].fcs, fcb[f].fwd, fcb[f].tag)
        \/ fcb[f].fas = 131 /\ CloseFails(f, then, [fcb[f] EXCEPT !.fas = 3])
           /\ UNCHANGED <<link, data>>
    BY DEF CloseRead
  <1> QED  BY <1>3, <1>4, <1>5, <1>6

\* CLOSE of a block that has written nothing deletes the name again.
LEMMA CloseEmptyRecords ==
  ASSUME IInv, IInv', Callers, Layout, Recs, "read" \notin FaultAt,
         NEW f \in Fcb, NEW then, Listed(f), call \in {Idle, Excls},
         CloseEmpty(f, then)
  PROVE  Recs' /\ StoreStep
  <1>0. PICK P, m, Q : Owns(P, m, Q)
    BY DEF Layout
  <1>i. PICK i : i = fcb[f].fcd
    OBVIOUS
  <1>1. /\ fcb[f] \in Block /\ Blank \in Block /\ UNCHANGED <<link, data>> /\ fcb[f].fas = 2
        /\ call.op # "close" /\ Idle.op # "close" /\ Excls.op # "close"
    BY Values DEF IInv, HeldIInv, Types, CloseEmpty, Idle, Excls
  <1>2. CASE WriteEntry(i, NoFile(Deleted)) /\ Closed(f, then)
    <2>1. /\ i \in Files /\ i \in 1..Len(dir)
          /\ \A g \in Fcb : g # f /\ Listed(g) => fcb[g].fcd # i
      BY <1>0, <1>1, <1>i, WriterKnows DEF Layout, Sharing
    <2>2. NoFile(Deleted) \in DirEntry /\ NoFile(Deleted).name = Deleted
      BY Values DEF NoFile, Entry
    <2>3. /\ i \notin Live' /\ \A j : j # i => Stays(j)
          /\ \A j \in 1..Len(dir) : j # i => FileKept(j, Q)
      BY <1>1, <1>2, <2>1, <2>2, EntryWritten
    <2>4. ~Listed(f)' /\ \A g \in Fcb : g # f => BlockKeeps(g)
      <3>1. fcb' = [fcb EXCEPT ![f] = Blank] /\ fcblist' = REMFCB(f) /\ call'.op # "close"
        BY <1>1, <1>2 DEF Closed
      <3> QED  BY <1>1, <3>1, OthersKeep
    <2>5. ASSUME NEW g \in Fcb, g # f, Listed(g), fcb[g].fcd # 0  PROVE FileKept(fcb[g].fcd, Q)
      <3>1. fcb[g].fcd \in Files /\ fcb[g].fcd # i
        BY <1>0, <2>1, <2>5 DEF Owns, BlockAt
      <3>2. fcb[g].fcd \in 1..Len(dir)
        BY <3>1, LiveInDir DEF IInv, HeldIInv
      <3> QED  BY <2>3, <3>1, <3>2
    <2>6. BlockRecords(f)'
      BY <2>4, NoRecords
    <2>7. Recs'
      BY <1>0, <2>4, <2>5, <2>6, OneBlockRecords
    <2>8. i \in Live
      BY <2>1 DEF Files
    <2>9. Store!Next
      BY <2>3, <2>8, StoreDrops
    <2> QED  BY <2>7, <2>9 DEF StoreStep
  <1>3. CASE CloseFails(f, then, [fcb[f] EXCEPT !.fas = 0]) /\ UNCHANGED dir
    <2>1. PICK b : b = [fcb[f] EXCEPT !.fas = 0]
      OBVIOUS
    <2>2. b \in Block /\ b.fas = 0
      BY <1>1, <2>1 DEF Block, Fields, Buffered
    <2>3. ASSUME ~INIT  PROVE BlockRecords(f)'
      <3>1. fcb' = [fcb EXCEPT ![f] = b]
        BY <1>3, <2>1, <2>3 DEF CloseFails
      <3>2. fcb'[f] = b
        BY <3>1 DEF IInv, HeldIInv, Types
      <3> QED  BY <2>2, <3>2, NoRecords
    <2> QED  BY <1>1, <1>3, <2>1, <2>2, <2>3, CloseFailsRecords
  <1>4. \/ WriteEntry(i, NoFile(Deleted)) /\ Closed(f, then)
        \/ CloseFails(f, then, [fcb[f] EXCEPT !.fas = 0]) /\ UNCHANGED dir
    BY <1>i DEF CloseEmpty
  <1> QED  BY <1>2, <1>3, <1>4

\* CLOSE writes the buffer of a block that has written.
LEMMA CloseDataRecords ==
  ASSUME IInv, IInv', Callers, Layout, Recs, "read" \notin FaultAt,
         NEW f \in Fcb, NEW then, Listed(f), call \in {Idle, Excls},
         CloseData(f, then)
  PROVE  Recs' /\ StoreStep
  <1>0. PICK P, m, Q : Owns(P, m, Q)
    BY DEF Layout
  <1>1. /\ fcb[f] \in Block /\ UNCHANGED dir /\ fcb[f].fas = 2 /\ fcb[f].fsa # None
        /\ fcb = [fcb EXCEPT ![f] = fcb[f]]
        /\ call.op # "close" /\ Idle.op # "close" /\ Excls.op # "close"
    BY DEF IInv, HeldIInv, Types, CloseData, Idle, Excls
  <1>2. CASE CloseFails(f, then, fcb[f]) /\ UNCHANGED <<link, data>>
    <2>1. CASE INIT
      BY <1>1, <1>2, <2>1, InitRecords
    <2>2. CASE ~INIT
      <3>1. UNCHANGED <<fcb, fcblist>> /\ call' = Idle
        BY <1>1, <1>2, <2>2 DEF CloseFails
      <3> QED  BY <1>1, <1>2, <3>1, QuietBlocks
    <2> QED  BY <2>1, <2>2
  <1>3. CASE /\ WriteData(fcb[f].fcs, fcb[f].fwd, fcb[f].tag)
             /\ call' = [op |-> "close", f |-> f, then |-> then, next |-> "entry"]
             /\ UNCHANGED <<fcb, fcblist>>
    <2>a. PICK a : a = fcb[f].fwd
      OBVIOUS
    <2>1. call'.op = "close" /\ call'.f = f
      BY <1>3
    <2>2. \A g \in Fcb : g # f => BlockKeeps(g)
      BY <1>1, <1>3, <2>1, OthersKeep
    <2>3. WriteData(fcb[f].fcs, a, fcb[f].tag)
      BY <1>3, <2>a
    <2>5. /\ \A j : Stays(j)
          /\ \A g \in Fcb : g # f /\ Listed(g) /\ fcb[g].fcd # 0 => FileKept(fcb[g].fcd, Q)
          /\ SectorWritten(Q[fcb[f].fcd], Len(Q[fcb[f].fcd]), a, fcb[f].tag)
      BY <1>0, <1>1, <2>3, BufferWritten
    <2>6. PICK c : c = fcb[f]
      OBVIOUS
    <2>7. /\ fcb'[f] = c /\ c.fas = 2 /\ c.fcd = fcb[f].fcd /\ c.fsa = fcb[f].fsa
          /\ c.fsz = fcb[f].fsz /\ c.fcs = fcb[f].fcs /\ c.frn = fcb[f].frn /\ c.tag = fcb[f].tag
      BY <1>1, <1>3, <2>6
    <2>8. BlockRecords(f)'
      BY <1>0, <1>1, <2>5, <2>7, EndedRecords
    <2>9. Recs'
      BY <1>0, <2>2, <2>5, <2>8, OneBlockRecords
    <2> QED  BY <2>5, <2>9, StoredSame DEF StoreStep
  <1>4. \/ CloseFails(f, then, fcb[f]) /\ UNCHANGED <<link, data>>
        \/ /\ WriteData(fcb[f].fcs, fcb[f].fwd, fcb[f].tag)
           /\ call' = [op |-> "close", f |-> f, then |-> then, next |-> "entry"]
           /\ UNCHANGED <<fcb, fcblist>>
    BY DEF CloseData, memory
  <1> QED  BY <1>2, <1>3, <1>4

\* CLOSE, up to its first write.
LEMMA CloseRecords ==
  ASSUME IInv, IInv', Callers, Layout, Recs, "read" \notin FaultAt,
         NEW f \in Fcb, NEW then, Listed(f), call \in {Idle, Excls},
         CLOSE(f, then)
  PROVE  Recs' /\ StoreStep
  <1>1. ~CloseRefused(f, then)
    BY DEF CloseRefused, Layout, Sharing
  <1>2. ~CloseAgain(f, then)
    BY OwnAlways DEF CloseAgain
  <1> QED  BY <1>1, <1>2, CloseReadRecords, CloseEmptyRecords, CloseDataRecords DEF CLOSE

\* CLOSE writes the entry: the file grows by what the block has written, as a whole.
LEMMA CloseEntryRecords ==
  ASSUME IInv, IInv', Callers, Layout, Recs, "read" \notin FaultAt,
         CloseEntry
  PROVE  Recs' /\ StoreStep
  <1>0. PICK P, m, Q : Owns(P, m, Q)
    BY DEF Layout
  <1>f. PICK f : f = call.f
    OBVIOUS
  <1>b. PICK b : b = fcb[f]
    OBVIOUS
  <1>i. PICK i : i = b.fcd
    OBVIOUS
  <1>q. PICK q : q = Q[i]
    OBVIOUS
  <1>z. PICK z : z = dir[i].fsz
    OBVIOUS
  <1>s. PICK s : s = dir[i].fsa
    OBVIOUS
  <1>e. PICK e : e = Entry(b.name, b.fsa, b.fea, b.fsz)
    OBVIOUS
  <1>1. /\ call.op = "close" /\ call.next = "entry" /\ WriteEntry(i, e)
        /\ UNCHANGED <<link, data, fcb, fcblist>> /\ call' = [call EXCEPT !.next = "sir"]
    <2>1. ~Fault("entry")
      BY DEF Callers, Fault, May
    <2> QED  BY <1>f, <1>b, <1>i, <1>e, <2>1 DEF CloseEntry, memory
  <1>2. /\ f \in Fcb /\ f \in Writers /\ Listed(f) /\ b \in Block /\ b.fas = 2
        /\ i # 0 /\ i \in Files /\ i \in 1..Len(dir)
        /\ \A g \in Fcb : g # f /\ Listed(g) => fcb[g].fcd # i
    BY <1>0, <1>1, <1>f, <1>b, <1>i, ClosingKnows
  <1>3. call'.op = "close" /\ call'.f = f /\ call'.next = "sir"
    <2>1. call \in [op : {"close"}, f : Fcb, then : {"return", "excls"}, next : {"entry", "sir"}]
      BY <1>1 DEF IInv, HeldIInv, Types, Calls, Idle, Excls
    <2> QED  BY <1>1, <1>f, <2>1
  <1>4. e \in DirEntry /\ e.fsa = b.fsa /\ e.fsz = b.fsz /\ e.name = dir[i].name /\ e.name \in Names
    <2>1. b.name \in Names /\ dir[i].name = b.name
      BY <1>2, <1>b, <1>i DEF IInv, HeldIInv, DirInv, Located
    <2> QED  BY <1>2, <1>e, <2>1 DEF Entry, Block, Fields, Buffered, DirEntry
  <1>5. /\ dir'[i] = e /\ i \in Live' /\ \A j : j # i => Stays(j)
        /\ \A j \in 1..Len(dir) : j # i => FileKept(j, Q)
    BY <1>1, <1>2, <1>4, NameAssumption, EntryWritten
  <1>6. /\ Leads(link, b.fsa, b.fsz, q) /\ b.fsz = Len(q) /\ b.frn \in Nat /\ b.fsz \in Nat
        /\ Leads(link, s, z, q) /\ z \in Nat
    <2>1. Leads(link, b.fsa, b.fsz, q) /\ b.fsz = Len(q) /\ b.frn \in Nat /\ b.fsz \in Nat
      BY <1>0, <1>2, <1>b, <1>i, <1>q, BlockLeads
    <2>2. Leads(link, s, z, q) /\ z \in Nat
      BY <1>0, <1>2, <1>q, <1>s, <1>z, EntryLeads
    <2> QED  BY <2>1, <2>2
  <1>y. PICK y : y = b.frn
    OBVIOUS
  <1>7. b.fsz = z + y /\ \A k \in 1..y : data[q[z + k]] = Tag(f, k)
    <2>1. Ahead(f) /\ Closes(f) /\ BlockRecords(f)
      BY <1>1, <1>2, <1>f DEF Ahead, Closes, Recs
    <2>2. HasWritten(f, b, z, Walked(link, b.fsa, b.fsz), data, b.frn)
      BY <1>b, <1>i, <1>z, <2>1 DEF BlockRecords, OnDisk
    <2>3. \A k \in 1..b.fsz : Walked(link, b.fsa, b.fsz)[k] = q[k]
      BY <1>6, WalkedIs
    <2>4. b.fsz = z + y
      BY <1>y, <2>2 DEF HasWritten
    <2>5. ASSUME NEW k \in 1..y  PROVE data[q[z + k]] = Tag(f, k)
      <3>1. z + k \in 1..b.fsz
        BY <1>6, <1>y, <2>4
      <3>2. data[Walked(link, b.fsa, b.fsz)[z + k]] = Tag(f, k)
        BY <1>y, <2>2 DEF HasWritten
      <3> QED  BY <2>3, <3>1, <3>2
    <2> QED  BY <2>4, <2>5
  <1>8. PICK r, t : r = [x \in 1..z |-> data[q[x]]] /\ t = [x \in 1..(z + y) |-> data[q[x]]]
    OBVIOUS
  <1>9. r = Content(i) /\ Becomes(i, t)
    <2>1. Content(i) = Records(link, data, s, z)
      BY <1>s, <1>z, ContentIs
    <2>2. Content(i)' = Records(link, data, b.fsa, b.fsz)
      BY <1>1, <1>4, <1>5, ContentIs
    <2>3. Records(link, data, s, z) = [x \in 1..z |-> data[q[x]]]
      BY <1>6, WalkedIs
    <2>4. Records(link, data, b.fsa, b.fsz) = [x \in 1..b.fsz |-> data[q[x]]]
      BY <1>6, WalkedIs
    <2> QED  BY <1>7, <1>8, <2>1, <2>2, <2>3, <2>4 DEF Becomes
  <1>10. Recs'
    <2>1. \A g \in Fcb : g # f => BlockKeeps(g)
      <3>1. fcb = [fcb EXCEPT ![f] = fcb[f]] /\ fcb[f] \in Block
        BY <1>2, <1>b DEF IInv, HeldIInv, Types
      <3> QED  BY <1>1, <1>2, <1>3, <1>f, <3>1, OthersKeep
    <2>2. ASSUME NEW g \in Fcb, g # f, Listed(g), fcb[g].fcd # 0  PROVE FileKept(fcb[g].fcd, Q)
      <3>1. fcb[g].fcd \in Files /\ fcb[g].fcd # i
        BY <1>0, <1>2, <2>2 DEF Owns, BlockAt
      <3>2. fcb[g].fcd \in 1..Len(dir)
        BY <3>1, LiveInDir DEF IInv, HeldIInv
      <3> QED  BY <1>5, <3>1, <3>2
    <2>3. BlockRecords(f)'
      <3>1. ~Ahead(f)' /\ ~Edits(f)'
        BY <1>1, <1>2, <1>3, <1>b DEF Ahead, Edits, Closes
      <3> QED  BY <3>1 DEF BlockRecords
    <2> QED  BY <1>0, <1>2, <2>1, <2>2, <2>3, OneBlockRecords
  <1>11. i \in Live /\ dir'[i].name = dir[i].name
    BY <1>2, <1>4, <1>5 DEF Files
  <1>12. y \in Nat
    BY <1>6, <1>y
  <1>13. CASE y = 0
    <2>1. t = r
      BY <1>6, <1>8, <1>13
    <2>2. Stays(i)
      BY <1>5, <1>9, <1>11, <2>1 DEF Stays, Becomes
    <2>3. \A j : Stays(j)
      BY <1>5, <2>2
    <2> QED  BY <1>10, <2>3, StoredSame DEF StoreStep
  <1>14. CASE y # 0
    <2>1. /\ DOMAIN r = 1..z /\ Len(r) = z /\ Len(t) = z + y
          /\ \A x \in 1..z : t[x] = r[x]
      BY <1>6, <1>8, <1>12
    <2>2. \A k \in 1..y : t[z + k] = Tag(f, k)
      <3> SUFFICES ASSUME NEW k \in 1..y  PROVE t[z + k] = Tag(f, k)
        OBVIOUS
      <3>1. z + k \in 1..(z + y)
        BY <1>6, <1>12
      <3>2. t[z + k] = data[q[z + k]]
        BY <1>8, <3>1
      <3> QED  BY <1>7, <3>2
    <2>3. y > 0 /\ f \in Fcb /\ i \in Live /\ i \in Live' /\ dir'[i].name = dir[i].name
          /\ \A j : j # i => Stays(j)
      BY <1>2, <1>5, <1>11, <1>12, <1>14
    <2>4. Extended(r, t, z, f, y)
      BY <1>6, <1>12, <2>1, <2>2, <2>3 DEF Extended
    <2>5. Store!Next
      BY <1>9, <2>3, <2>4, StoreExtends
    <2> QED  BY <1>10, <2>5 DEF StoreStep
  <1> QED  BY <1>13, <1>14

\* CLOSE records the map, and the block leaves the list.
LEMMA CloseRecordRecords ==
  ASSUME IInv, IInv', Callers, Layout, Recs, "read" \notin FaultAt,
         CloseRecord
  PROVE  Recs' /\ StoreStep
  <1>0. PICK P, m, Q : Owns(P, m, Q)
    BY DEF Layout
  <1>f. PICK f : f = call.f
    OBVIOUS
  <1>1. /\ call.op = "close" /\ UNCHANGED <<link, data, dir>>
        /\ fcb' = [fcb EXCEPT ![f] = Blank] /\ fcblist' = REMFCB(f)
        /\ call'.op # "close"
    <2>1. ~Fault(IF call.then = "excls" THEN "excls" ELSE "record")
      BY DEF Callers, Fault, May
    <2> QED  BY <1>f, <2>1 DEF CloseRecord, Closed, Idle, Excls
  <1>2. f \in Fcb /\ Blank \in Block
    BY <1>0, <1>1, <1>f, ClosingKnows, Values
  <1>3. ~Listed(f)' /\ \A g \in Fcb : g # f => BlockKeeps(g)
    BY <1>1, <1>2, <1>f, OthersKeep
  <1>4. BlockRecords(f)'
    BY <1>3, NoRecords
  <1> QED  BY <1>1, <1>2, <1>3, <1>4, QuietStep

-----------------------------------------------------------------------------
(* The directory grows; DELETE and RENAME.                                 *)

\* A step that leaves the entries and the sectors of the files alone, and the blocks.
LEMMA FilesKept ==
  ASSUME IInv, IInv', Recs, NEW P, NEW m, NEW Q, Owns(P, m, Q),
         UNCHANGED <<fcb, fcblist>>, call.op # "close", call'.op # "close",
         Live = Files, Live' = Live,
         \A j \in Live : dir'[j] = dir[j] /\ Untouched(Q[j], Len(Q[j]))
  PROVE  Recs' /\ StoreStep
  <1>1. \A g \in Fcb : (Listed(g)' <=> Listed(g)) /\ ~Closes(g) /\ ~Closes(g)'
    BY DEF Closes, Listed
  <1>2. ASSUME NEW g \in Fcb  PROVE BlockRecords(g)'
    <2>1. BlockRecords(g)
      BY DEF Recs
    <2>2. ASSUME Listed(g), fcb[g].fcd # 0
          PROVE  /\ dir'[fcb[g].fcd].fsa = dir[fcb[g].fcd].fsa
                 /\ dir'[fcb[g].fcd].fsz = dir[fcb[g].fcd].fsz
                 /\ Untouched(Q[fcb[g].fcd], Len(Q[fcb[g].fcd]))
      <3>1. fcb[g].fcd \in Live
        BY <2>2 DEF Owns, BlockAt
      <3> QED  BY <3>1
    <2> QED  BY <1>1, <2>1, <2>2, RecordsKept
  <1>3. ASSUME NEW j  PROVE Stays(j)
    <2>1. CASE j \in Live
      <3>1. j \in DOMAIN dir' /\ dir'[j] = dir[j] /\ Untouched(Q[j], Len(Q[j]))
        BY <2>1 DEF Live
      <3>2. dir[j].fsz <= Len(Q[j]) /\ dir[j].fsz \in Nat /\ Len(Q[j]) \in Nat
        BY <2>1, EntryLeads
      <3>3. Untouched(Q[j], dir[j].fsz)
        BY <3>1, <3>2 DEF Untouched
      <3> QED  BY <2>1, <3>1, <3>3, StaysFile
    <2>2. CASE j \notin Live
      BY <2>2 DEF Stays
    <2> QED  BY <2>1, <2>2
  <1>4. Recs'
    BY <1>2 DEF Recs
  <1> QED  BY <1>3, <1>4, StoredSame DEF StoreStep

\* A step that writes a sector of no file.
LEMMA OtherSector ==
  ASSUME NEW a, NEW t, NEW s, \A x \in Sector : x # s => data'[x] = data[x] /\ link'[x] = link[x],
         NEW q \in Seq(Sector), \A k \in 1..Len(q) : q[k] # s
  PROVE  Untouched(q, Len(q))
  BY DEF Untouched

\* The new directory sector is of no file, and its entries are not used.
LEMMA DirClearRecords ==
  ASSUME IInv, IInv', Callers, Layout, Recs, "read" \notin FaultAt,
         DirExtendClear
  PROVE  Recs' /\ StoreStep
  <1>0. PICK P, m, Q : Owns(P, m, Q)
    BY DEF Layout
  <1>n. PICK n : n = Len(dir)
    OBVIOUS
  <1>s. PICK s : s = dirext[Len(dirext)]
    OBVIOUS
  <1>1. /\ call.op = "extend" /\ call.next = "clear" /\ call'.op = "extend"
        /\ UNCHANGED <<fcb, fcblist>>
        /\ \A x \in Sector : x # s => data'[x] = data[x] /\ link'[x] = link[x]
    <2>1. call \in [op : {"extend"}, f : Fcb, name : Names, next : {"clear", "sir", "entry"}]
      BY DEF DirExtendClear, IInv, HeldIInv, Types, Calls, Idle, Excls
    <2>2. /\ call.op = "extend" /\ call.next = "clear" /\ call' = [call EXCEPT !.next = "sir"]
          /\ WriteData(s, None, <<>>) /\ UNCHANGED memory
      BY <1>s DEF DirExtendClear
    <2>3. \A x \in Sector : x # s => data'[x] = data[x] /\ link'[x] = link[x]
      BY <2>2 DEF WriteData, IInv, HeldIInv, Types
    <2> QED  BY <2>1, <2>2, <2>3 DEF memory
  <1>2. /\ n \in Nat /\ DOMAIN dir = 1..n /\ n <= Len(dir') /\ DOMAIN dir' = 1..Len(dir')
        /\ Len(dir') \in Nat
        /\ \A k \in 1..n : dir'[k] = dir[k]
        /\ \A k \in 1..Len(dir') : k > n => dir'[k].name = Never
    <2> DEFINE more == [i \in 1..DirSlots |-> NoFile(Never)]
    <2>0. n \in Nat /\ DirSlots \in Nat \ {0}
      BY <1>n, SizeAssumption DEF IInv, HeldIInv, Types
    <2>1. /\ more \in Seq(DirEntry) /\ Len(more) = DirSlots
          /\ \A i \in 1..DirSlots : more[i].name = Never
      <3>1. NoFile(Never) \in DirEntry /\ NoFile(Never).name = Never
        BY Values DEF NoFile, Entry
      <3> QED  BY <3>1, SizeAssumption
    <2>2. dir' = dir \o more
      BY DEF DirExtendClear
    <2> HIDE DEF more
    <2>3. /\ Len(dir') = n + DirSlots /\ dir' \in Seq(DirEntry)
          /\ \A k \in 1..(n + DirSlots) :
               dir'[k] = IF k <= n THEN dir[k] ELSE more[k - n]
      BY <1>n, <2>1, <2>2, ConcatProperties DEF IInv, HeldIInv, Types
    <2>4. \A k \in 1..(n + DirSlots) : k > n => dir'[k].name = Never
      <3> SUFFICES ASSUME NEW k \in 1..(n + DirSlots), k > n  PROVE dir'[k].name = Never
        OBVIOUS
      <3>1. k - n \in 1..DirSlots
        BY <2>0
      <3> QED  BY <2>0, <2>1, <2>3, <3>1
    <2>5. \A k \in 1..n : dir'[k] = dir[k]
      BY <2>0, <2>3
    <2>6. DOMAIN dir = 1..n
      BY <1>n, LiveInDir DEF IInv, HeldIInv
    <2> QED  BY <2>0, <2>3, <2>4, <2>5, <2>6
  <1>3. Live' = Live /\ Live = Files /\ Live \subseteq 1..n
    <2>1. Live' = Live /\ Live \subseteq 1..n
      BY <1>2 DEF Live
    <2> QED  BY <1>1, <2>1 DEF Files
  <1>4. Tidy(link, P, m, Q, DirExt) /\ DOMAIN Q = 1..n /\ s \in DirExt
    <2>1. dirext \in Seq(Sector) /\ Len(dirext) > 0
      BY <1>1 DEF Layout, Extension
    <2>2. Len(dirext) \in DOMAIN dirext
      BY <2>1
    <2>3. s \in DirExt
      BY <1>s, <2>2 DEF DirExt, Range
    <2> QED  BY <1>0, <1>n, <2>3 DEF Owns
  <1>5. \A i \in DOMAIN Q : \A k \in 1..Len(Q[i]) : Q[i][k] # s
    BY <1>4 DEF Tidy, Apart
  <1>6. ASSUME NEW j \in Live  PROVE dir'[j] = dir[j] /\ Untouched(Q[j], Len(Q[j]))
    <2>1. Q[j] \in Seq(Sector) /\ j \in DOMAIN Q
      BY <1>3, <1>4 DEF Tidy
    <2>2. Untouched(Q[j], Len(Q[j]))
      BY <1>1, <1>5, <2>1, OtherSector
    <2> QED  BY <1>2, <1>3, <2>2
  <1>7. call.op # "close" /\ call'.op # "close"
    BY <1>1
  <1> QED  BY <1>0, <1>1, <1>3, <1>6, <1>7, FilesKept

\* PUTAVL records that the directory has the sector.
LEMMA DirRecordRecords ==
  ASSUME IInv, IInv', Callers, Layout, Recs, "read" \notin FaultAt,
         DirExtendRecord
  PROVE  Recs' /\ StoreStep
  <1>1. /\ call.op # "close" /\ call'.op # "close" /\ UNCHANGED <<link, data, dir, fcb, fcblist>>
    <2>1. call \in [op : {"extend"}, f : Fcb, name : Names, next : {"clear", "sir", "entry"}]
      BY DEF DirExtendRecord, IInv, HeldIInv, Types, Calls, Idle, Excls
    <2>2. ~Fault("avail")
      BY DEF Callers, Fault, May
    <2> QED  BY <2>1, <2>2 DEF DirExtendRecord
  <1> QED  BY <1>1, QuietBlocks

\* OPNWT4 creates the file in the new directory sector.
LEMMA DirEntryRecords ==
  ASSUME IInv, IInv', Callers, Layout, Recs, "read" \notin FaultAt,
         DirExtendEntry
  PROVE  Recs' /\ StoreStep
  <1>0. PICK P, m, Q : Owns(P, m, Q)
    BY DEF Layout
  <1>f. PICK f : f = call.f
    OBVIOUS
  <1>n. PICK n : n = call.name
    OBVIOUS
  <1>i. PICK i : i = Len(dir) - DirSlots + 1
    OBVIOUS
  <1>b. PICK new : new = [Blank EXCEPT !.fas = 2, !.name = call.name, !.fcd = Len(dir) - DirSlots + 1]
    OBVIOUS
  <1>1. /\ call.op = "extend" /\ call' = Idle
        /\ UNCHANGED <<link, data>> /\ fcb' = [fcb EXCEPT ![f] = new]
        /\ \/ WriteEntry(i, NoFile(n)) /\ UNCHANGED fcblist
           \/ UNCHANGED dir /\ fcblist' = REMFCB(f)
    BY <1>f, <1>i, <1>n, <1>b DEF DirExtendEntry
  <1>2. f \in Fcb /\ n \in Names
    BY <1>0, <1>1, <1>f, <1>n, ExtendingKnows
  <1>3. i \in 1..Len(dir) /\ i \notin Files
    <2>1. DirSlots <= Len(dir) /\ (\A k \in 1..Len(dir) : dir[k].name # Never <=> k <= Len(dir) - DirSlots)
      BY DEF DirExtendEntry, IInv, HeldIInv, DirInv, Extending
    <2>2. DirSlots \in Nat \ {0} /\ Len(dir) \in Nat
      BY SizeAssumption, LiveInDir DEF IInv, HeldIInv
    <2>3. i \in 1..Len(dir) /\ ~(i <= Len(dir) - DirSlots)
      BY <1>i, <2>1, <2>2
    <2>4. dir[i].name = Never
      BY <2>1, <2>3
    <2> QED  BY <2>3, <2>4 DEF Files, Live
  <1>4. /\ new \in Block /\ new.fas = 2 /\ new.fcd = i /\ new.fsa = None /\ new.fsz = 0
        /\ new.frn = 0
    <2>1. i \in Nat
      BY <1>3, LiveInDir DEF IInv, HeldIInv
    <2> QED  BY <1>2, <1>b, <1>i, <1>n, <2>1, Values DEF Block, Fields, Buffered, Blank
  <1>5. \A j \in 1..Len(dir) : dir[j].name # n
    BY <1>1, <1>n DEF IInv, HeldIInv, DirInv, Extending
  <1>6. call.op # "delete" /\ call.op # "close"
    BY <1>1
  <1>7. CASE WriteEntry(i, NoFile(n)) /\ UNCHANGED fcblist
    BY <1>1, <1>2, <1>3, <1>4, <1>5, <1>6, <1>7, NewFileRecords
  <1>8. CASE UNCHANGED dir /\ fcblist' = REMFCB(f)
    <2>1. call'.op # "close"
      BY <1>1 DEF Idle
    <2>2. ~Listed(f)' /\ \A g \in Fcb : g # f => BlockKeeps(g)
      BY <1>1, <1>2, <1>4, <1>6, <1>8, <2>1, OthersKeep
    <2>3. BlockRecords(f)'
      BY <2>2, NoRecords
    <2> QED  BY <1>1, <1>2, <1>8, <2>2, <2>3, QuietStep
  <1> QED  BY <1>1, <1>7, <1>8

\* DELETE links the file's sectors to the last available one, which is of no file.
LEMMA DeleteLinkRecords ==
  ASSUME IInv, IInv', Callers, Layout, Recs, "read" \notin FaultAt,
         NEW f \in Fcb, NEW n \in Names, DeleteLink(f, n)
  PROVE  Recs' /\ StoreStep
  <1>0. PICK P, m, Q : Owns(P, m, Q)
    BY DEF Layout
  <1>i. PICK i : i = FNDNAM(n)
    OBVIOUS
  <1>e. PICK e : e = dir[i]
    OBVIOUS
  <1>m. PICK map : map = GETAVL
    OBVIOUS
  <1>1. /\ call = Idle /\ CallerMapValid /\ UNCHANGED <<data, dir, fcb, fcblist>>
        /\ link' = link \/ (map.last # None /\ link' = [link EXCEPT ![map.last] = e.fsa])
        /\ call' = call \/ call' = [op |-> "delete", slot |-> i, next |-> "entry"]
    BY <1>i, <1>e, <1>m DEF DeleteLink, CallerFree
  <1>2. MapIs(map, P, m, Q, DirExt)
    BY <1>0, <1>1, <1>m, GetavlIs DEF IInv, HeldIInv, Callers
  <1>3. Tidy(link, P, m, Q, DirExt) /\ DOMAIN Q = 1..Len(dir)
    BY <1>0 DEF Owns
  <1>4. Live' = Live /\ Live = Files /\ Live \subseteq 1..Len(dir)
    <2>1. Live' = Live /\ Live = Files
      BY <1>1 DEF Live, Files, Idle
    <2> QED  BY <2>1, LiveInDir DEF IInv, HeldIInv
  <1>5. map.last # None => \A j \in DOMAIN Q : \A k \in 1..Len(Q[j]) : Q[j][k] # map.last
    <2>1. Len(P) \in Nat /\ m \in Nat /\ m <= Len(P)
      BY <1>3, TidyTypes DEF Tidy
    <2>2. CASE m = Len(P)
      BY <1>2, <2>2 DEF MapIs, NoAvail
    <2>3. CASE m # Len(P) /\ map.last = P[Len(P)]
      <3>1. Len(P) \in 1..Len(P) /\ Len(P) > m
        BY <2>1, <2>3
      <3> QED  BY <1>3, <2>3, <3>1 DEF Tidy, Apart
    <2>4. CASE m # Len(P) /\ Lost(map.last, P, Q, DirExt)
      BY <2>4 DEF Lost
    <2> QED  BY <1>2, <2>2, <2>3, <2>4 DEF MapIs
  <1>6. ASSUME NEW j \in Live  PROVE dir'[j] = dir[j] /\ Untouched(Q[j], Len(Q[j]))
    <2>1. Q[j] \in Seq(Sector) /\ j \in DOMAIN Q
      BY <1>3, <1>4 DEF Tidy
    <2>2. CASE link' = link
      BY <1>1, <2>2 DEF Untouched
    <2>3. CASE map.last # None /\ link' = [link EXCEPT ![map.last] = e.fsa]
      <3>1. \A x \in Sector : x # map.last => data'[x] = data[x] /\ link'[x] = link[x]
        BY <1>1, <2>3 DEF IInv, HeldIInv, Types
      <3> QED  BY <1>5, <2>1, <2>3, <3>1, <1>1, OtherSector
    <2> QED  BY <1>1, <2>2, <2>3
  <1>7. call.op # "close" /\ call'.op # "close"
    BY <1>1 DEF Idle
  <1> QED  BY <1>0, <1>1, <1>4, <1>6, <1>7, FilesKept

\* A step that writes an entry no block is at.
LEMMA EntryOfNoBlock ==
  ASSUME IInv, Callers, Layout, Recs, "read" \notin FaultAt,
         UNCHANGED <<link, data, fcb, fcblist>>,
         call.op # "close", call'.op # "close", call.op # "extend",
         NEW i \in 1..Len(dir), NEW e \in DirEntry, WriteEntry(i, e),
         \A g \in Fcb : Listed(g) => fcb[g].fcd # i
  PROVE  Recs'
  <1>0. PICK P, m, Q : Owns(P, m, Q)
    BY DEF Layout
  <1>1. \A j \in 1..Len(dir) : j # i => FileKept(j, Q)
    BY EntryWritten
  <1>2. \A g \in Fcb : (Listed(g)' <=> Listed(g)) /\ ~Closes(g) /\ ~Closes(g)'
    BY DEF Closes, Listed
  <1>3. ASSUME NEW g \in Fcb  PROVE BlockRecords(g)'
    <2>1. BlockRecords(g)
      BY DEF Recs
    <2>2. ASSUME Listed(g), fcb[g].fcd # 0
          PROVE  /\ dir'[fcb[g].fcd].fsa = dir[fcb[g].fcd].fsa
                 /\ dir'[fcb[g].fcd].fsz = dir[fcb[g].fcd].fsz
                 /\ Untouched(Q[fcb[g].fcd], Len(Q[fcb[g].fcd]))
      <3>1. fcb[g].fcd \in 1..Len(dir)
        BY <1>0, <2>2, LiveInDir DEF Owns, BlockAt, IInv, HeldIInv
      <3> QED  BY <1>1, <2>2, <3>1 DEF FileKept
    <2> QED  BY <1>0, <1>2, <2>1, <2>2, RecordsKept
  <1> QED  BY <1>3 DEF Recs

\* DELETE marks the entry: the file is gone.
LEMMA DeleteEntryRecords ==
  ASSUME IInv, IInv', Callers, Layout, Recs, "read" \notin FaultAt,
         DeleteEntry
  PROVE  Recs' /\ StoreStep
  <1>i. PICK i : i = call.slot
    OBVIOUS
  <1>1. /\ call.op = "delete" /\ call.next = "entry" /\ WriteEntry(i, NoFile(Deleted))
        /\ call' = [call EXCEPT !.next = "sir"]
        /\ UNCHANGED <<link, data, fcb, fcblist>>
    <2>1. ~Fault("delete")
      BY DEF Callers, Fault, May
    <2> QED  BY <1>i, <2>1 DEF DeleteEntry, memory
  <1>2. call'.op = "delete"
    <2>1. call \in [op : {"delete"}, slot : Nat, next : {"entry", "sir"}]
      BY <1>1 DEF IInv, HeldIInv, Types, Calls, Idle, Excls
    <2> QED  BY <1>1, <2>1
  <1>3. NoFile(Deleted) \in DirEntry /\ NoFile(Deleted).name = Deleted
    BY Values DEF NoFile, Entry
  <1>4. OpenOn(i) = {}
    BY <1>1, <1>i DEF IInv, HeldIInv, DirInv, Deleting
  <1>5. CASE i \in 1..Len(dir)
    <2>1. \A j : j # i => Stays(j)
      BY <1>1, <1>3, <1>5, EntryWritten
    <2>2. i \notin Live'
      BY <1>1, <1>3, <1>5, EntryWritten
    <2>3. Recs'
      <3>1. \A g \in Fcb : Listed(g) => fcb[g].fcd # i
        BY <1>4 DEF OpenOn
      <3> QED  BY <1>1, <1>2, <1>3, <1>5, <3>1, EntryOfNoBlock
    <2>4. CASE i \in Live
      <3>1. Store!Next
        BY <2>1, <2>2, <2>4, StoreDrops
      <3> QED  BY <2>3, <3>1 DEF StoreStep
    <2>5. CASE i \notin Live
      <3>1. Stays(i)
        BY <2>2, <2>5 DEF Stays
      <3>2. \A j : Stays(j)
        BY <2>1, <3>1
      <3> QED  BY <2>3, <3>2, StoredSame DEF StoreStep
    <2> QED  BY <2>4, <2>5
  <1>6. CASE i \notin 1..Len(dir)
    <2>1. UNCHANGED dir
      <3>1. dir \in Seq(DirEntry) /\ DOMAIN dir = 1..Len(dir)
        BY LiveInDir DEF IInv, HeldIInv, Types
      <3>2. dir' = [dir EXCEPT ![i] = NoFile(Deleted)]
        BY <1>1 DEF WriteEntry
      <3> QED  BY <1>6, <3>1, <3>2
    <2> QED  BY <1>1, <1>2, <2>1, QuietBlocks
  <1> QED  BY <1>5, <1>6

\* PUTAVL of DELETE.
LEMMA DeleteRecordRecords ==
  ASSUME IInv, IInv', Callers, Layout, Recs, "read" \notin FaultAt,
         DeleteRecord
  PROVE  Recs' /\ StoreStep
  <1>1. /\ call.op # "close" /\ call'.op # "close" /\ UNCHANGED <<link, data, dir, fcb, fcblist>>
    BY DEF DeleteRecord, memory, Idle
  <1> QED  BY <1>1, QuietBlocks

\* RENAME: the file has another name.
LEMMA RenameRecords ==
  ASSUME IInv, IInv', Callers, Layout, Recs, "read" \notin FaultAt,
         NEW f \in Fcb, NEW old \in Names, NEW new \in Names,
         Rename(f, old, new)
  PROVE  Recs' /\ StoreStep
  <1>i. PICK i : i = FNDNAM(old)
    OBVIOUS
  <1>e. PICK e : e = [dir[i] EXCEPT !.name = new]
    OBVIOUS
  <1>1. /\ call = Idle /\ call.op # "close" /\ call'.op # "close" /\ call.op # "extend"
        /\ Found(old) # {} /\ Found(new) = {} /\ CallerOwns(old)
        /\ UNCHANGED <<link, data, fcb, fcblist, call>>
        /\ UNCHANGED dir \/ dir' = [dir EXCEPT ![i].name = new]
    BY <1>i DEF Rename, CallerFree, memory, Idle
  <1>2. CASE UNCHANGED dir
    BY <1>1, <1>2, QuietBlocks
  <1>3. CASE dir' = [dir EXCEPT ![i].name = new]
    <2>1. i \in 1..Len(dir) /\ dir[i] \in DirEntry /\ dir[i].name = old /\ OpenOn(i) = {}
      BY <1>1, <1>i, FoundEntry DEF IInv, HeldIInv, CallerOwns, Callers
    <2>2. e \in DirEntry /\ e.name = new /\ e.fsa = dir[i].fsa /\ e.fsz = dir[i].fsz
      BY <1>e, <2>1, Values DEF DirEntry
    <2>3. WriteEntry(i, e)
      BY <1>3, <1>e, <2>1 DEF WriteEntry, IInv, HeldIInv, Types
    <2>4. dir'[i] = e /\ (i \in Live' <=> e.name \notin {Deleted, Never})
      BY <1>1, <2>1, <2>2, <2>3, EntryWritten
    <2>5. \A j : j # i => Stays(j)
      BY <1>1, <2>1, <2>2, <2>3, EntryWritten
    <2>6. \A g \in Fcb : Listed(g) => fcb[g].fcd # i
      BY <2>1 DEF OpenOn
    <2>7. Recs'
      BY <1>1, <2>1, <2>2, <2>3, <2>6, EntryOfNoBlock
    <2>8. i \in Live /\ i \in Live' /\ dir'[i].name = new
      BY <2>1, <2>2, <2>4, NameAssumption, LiveInDir DEF IInv, HeldIInv, Live
    <2>9. \A j \in Live : dir[j].name # new
      <3>1. \A j \in 1..Len(dir) : dir[j].name # new
        BY <1>1, NotFound DEF IInv, HeldIInv, DirInv
      <3>2. Live \subseteq 1..Len(dir)
        BY LiveInDir DEF IInv, HeldIInv, Live
      <3> QED  BY <3>1, <3>2
    <2>10. Becomes(i, Content(i))
      <3>1. Content(i)' = Content(i)
        BY <1>1, <2>2, <2>4, ContentIs
      <3> QED  BY <3>1 DEF Becomes
    <2>11. Store!Next
      BY <2>5, <2>8, <2>9, <2>10, StoreMoves
    <2> QED  BY <2>7, <2>11 DEF StoreStep
  <1> QED  BY <1>1, <1>2, <1>3

-----------------------------------------------------------------------------
(* Every step.                                                             *)

\* The opens, by the actions of Opening.
LEMMA OpeningRecords ==
  ASSUME IInv, IInv', Callers, Layout, Recs, "read" \notin FaultAt,
         NEW f \in Fcb, NEW n \in Names, Opening(f, n)
  PROVE  Recs' /\ StoreStep
  <1>1. CASE OpenWrite(f, n)
    <2>1. CASE UNCHANGED <<dir, fcblist>>
      BY <1>1, <2>1, OpenFailsRecords
    <2>2. CASE ~UNCHANGED <<dir, fcblist>>
      BY <1>1, <2>2, OpenWriteRecords
    <2> QED  BY <2>1, <2>2
  <1>2. CASE OpenWriteBusy(f) \/ OpenWriteExists(f, n) \/ DirExtend(f, n) \/ OpenFails(f, n)
    BY <1>2, OpenFailsRecords
  <1>3. CASE OpenRead(f, n) \/ OpenUpdate(f, n) \/ OpenAppend(f, n)
    BY <1>3, OpenFileRecords
  <1> QED  BY <1>1, <1>2, <1>3 DEF Opening

\* Reading, writing and CLOSE, by the actions of Using.
LEMMA UsingRecords ==
  ASSUME IInv, IInv', Callers, Layout, Recs, "read" \notin FaultAt,
         NEW f \in Fcb, Using(f)
  PROVE  Recs' /\ StoreStep
  <1>1. CASE Reading(f)
    BY <1>1, ReadingRecords
  <1>2. CASE Writing(f)
    BY <1>2, WritingRecords
  <1>3. CASE CloseCall(f)
    BY <1>3, CloseRecords DEF CloseCall, CallerUses, CallerChanges, CallerFree
  <1> QED  BY <1>1, <1>2, <1>3 DEF Using, Reading, Writing

\* The later steps of a call, by the actions of Continue.
LEMMA ContinueRecords ==
  ASSUME IInv, IInv', Callers, Layout, Recs, "read" \notin FaultAt,
         Continue
  PROVE  Recs' /\ StoreStep
  <1>1. CASE ExclsNext
    <2>1. call = Excls /\ fcblist # <<>> /\ CLOSE(Head(fcblist), "excls")
      BY <1>1 DEF ExclsNext
    <2>2. fcblist \in Seq(Fcb)
      BY DEF IInv, HeldIInv, Types
    <2>3. Head(fcblist) \in Fcb /\ Listed(Head(fcblist))
      BY <2>1, <2>2 DEF Listed, Range
    <2> QED  BY <2>1, <2>3, CloseRecords
  <1>2. CASE DirExtendClear \/ DirExtendRecord \/ DirExtendEntry
    BY <1>2, DirClearRecords, DirRecordRecords, DirEntryRecords
  <1>3. CASE CloseEntry \/ CloseRecord
    BY <1>3, CloseEntryRecords, CloseRecordRecords
  <1>4. CASE DeleteEntry \/ DeleteRecord
    BY <1>4, DeleteEntryRecords, DeleteRecordRecords
  <1>5. CASE ExclsDone
    <2>1. /\ call.op # "close" /\ call'.op # "close"
          /\ UNCHANGED <<link, data, dir, fcb, fcblist>>
      BY <1>5 DEF ExclsDone, disk, Excls, Idle
    <2> QED  BY <2>1, QuietBlocks
  <1> QED  BY <1>1, <1>2, <1>3, <1>4, <1>5 DEF Continue

\* Nothing changes.
LEMMA StutterRecords ==
  ASSUME IInv, IInv', Recs, UNCHANGED vars
  PROVE  Recs' /\ StoreStep
  <1>1. UNCHANGED <<link, data, dir, fcb, fcblist, call>>
    BY DEF vars, disk, memory
  <1>2. ASSUME NEW g \in Fcb  PROVE BlockRecords(g)'
    <2>1. BlockRecords(g)
      BY DEF Recs
    <2>2. /\ Ahead(g)' <=> Ahead(g)
          /\ Edits(g)' <=> Edits(g)
          /\ Closes(g)' <=> Closes(g)
      BY <1>1 DEF Ahead, Edits, Closes, Writers, Listed
    <2> QED  BY <1>1, <2>1, <2>2, RecordsNext DEF BlockRecords, OnDisk
  <1>3. \A j : Stays(j)
    BY <1>1, StaysQuiet
  <1>4. Recs'
    BY <1>2 DEF Recs
  <1> QED  BY <1>3, <1>4, StoredSame DEF StoreStep

\* Every step keeps what the blocks have in memory and is a step of the store, or none.
LEMMA StepRecords ==
  ASSUME IInv, IInv', Callers, Layout, Recs, "read" \notin FaultAt,
         [Next]_vars
  PROVE  Recs' /\ StoreStep
  <1>1. ASSUME NEW f \in Fcb, NEW n \in Names, Opening(f, n)  PROVE Recs' /\ StoreStep
    BY <1>1, OpeningRecords
  <1>2. ASSUME NEW f \in Fcb, NEW n \in Names, DeleteLink(f, n)  PROVE Recs' /\ StoreStep
    BY <1>2, DeleteLinkRecords
  <1>3. ASSUME NEW f \in Fcb, NEW o \in Names, NEW n \in Names, Rename(f, o, n)
        PROVE  Recs' /\ StoreStep
    BY <1>3, RenameRecords
  <1>4. ASSUME NEW f \in Fcb, Using(f)  PROVE Recs' /\ StoreStep
    BY <1>4, UsingRecords
  <1>5. CASE ExclsCall
    <2>1. /\ call.op # "close" /\ call'.op # "close"
          /\ UNCHANGED <<link, data, dir, fcb, fcblist>>
      BY <1>5 DEF ExclsCall, disk, memory, Excls, Idle
    <2> QED  BY <2>1, QuietBlocks
  <1>6. CASE Continue
    BY <1>6, ContinueRecords
  <1>7. CASE Restart
    BY <1>7, InitRecords DEF Restart, disk
  <1>8. CASE UNCHANGED vars
    BY <1>8, StutterRecords
  <1> QED
    BY <1>1, <1>2, <1>3, <1>4, <1>5, <1>6, <1>7, <1>8, Zenon DEF Next

\* At first no block is in use and there are no files.
LEMMA InitStore == Init => Recs /\ Store!Init
  <1> SUFFICES ASSUME Init  PROVE Recs /\ Store!Init
    OBVIOUS
  <1>1. fcblist = <<>> /\ \A i \in DOMAIN dir : dir[i].name = Never
    BY DEF Init, NoFile, Entry
  <1>2. Recs
    BY <1>1 DEF Recs, BlockRecords, Ahead, Edits, Writers, Listed, Range
  <1>3. Live = {}
    BY <1>1 DEF Live
  <1>4. Store!Init
    BY <1>3 DEF Store!Init, Stored
  <1> QED  BY <1>2, <1>4

\* The disk implements the store: whatever the programs do, however their calls
\* interleave, with restarts outside Window and the disk errors that Callers names
\* but for failing reads, a write makes one change of one file, whole, or none that
\* a caller could see (StoreSpec of fms_store; FLX29FMS.ASM).  Behind a failed read
\* of a file open for update the record number counts on while the sector may be
\* read once more: the program would change another record than it counts.
THEOREM StoreImplemented ==
  ASSUME Callers, "read" \notin FaultAt
  PROVE  Spec => StoreSpec
  <1>1. Init => IInv /\ Layout /\ Recs /\ Store!Init
    BY InitHeld, InitDir, InitLayout, InitStore DEF IInv
  <1>2. IInv /\ Layout /\ Recs /\ [Next]_vars
          => (IInv /\ Layout /\ Recs)' /\ [Store!Next]_Stored
    <2> SUFFICES ASSUME IInv, Layout, Recs, [Next]_vars
                 PROVE  (IInv /\ Layout /\ Recs)' /\ [Store!Next]_Stored
      OBVIOUS
    <2>1. IInv' /\ Layout'
      <3>1. "reopen" \in Discipline /\ "share" \in Discipline /\ "entry" \notin FaultAt
        BY DEF Callers
      <3> QED  BY <3>1, NextIInv, StepLayout
    <2>2. Recs' /\ StoreStep
      BY <2>1, StepRecords
    <2> QED  BY <2>1, <2>2 DEF StoreStep
  <1> QED  BY <1>1, <1>2, PTL DEF Spec, StoreSpec, Store!Spec
=============================================================================
