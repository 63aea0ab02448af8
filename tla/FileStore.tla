----------------------------- MODULE FileStore -----------------------------
(***************************************************************************)
(* What the file management system promises its callers: files are         *)
(* sequences of records under distinct names, and a call changes one file  *)
(* as a whole, or nothing.  A file comes into being empty, grows by all    *)
(* the records a program has written when that program closes it, has      *)
(* single records replaced by an update of them, changes its name, or is   *)
(* removed with all its records.                                           *)
(***************************************************************************)
EXTENDS Naturals, Sequences

CONSTANTS
  Names,            \* file names
  Programs,         \* the programs that write
  Written(_, _),    \* what program p writes as its k-th record ...
  Updated(_, _)     \* ... and as the update of record i

VARIABLE files       \* the records of each file that exists

Init == files = [n \in {} |-> <<>>]

\* The files other than those named in changed are as they were.
Others(changed) ==
  \A n \in Names \ changed :
    /\ n \in DOMAIN files' <=> n \in DOMAIN files
    /\ n \in DOMAIN files => files'[n] = files[n]

Create(n) ==
  /\ n \notin DOMAIN files
  /\ n \in DOMAIN files' /\ files'[n] = <<>>
  /\ Others({n})

Extend(n) ==
  /\ n \in DOMAIN files /\ n \in DOMAIN files'
  /\ Len(files'[n]) > Len(files[n])
  /\ \A i \in DOMAIN files[n] : files'[n][i] = files[n][i]
  /\ \E p \in Programs : \A k \in 1..(Len(files'[n]) - Len(files[n])) :
       files'[n][Len(files[n]) + k] = Written(p, k)
  /\ Others({n})

Replace(n, i) ==
  /\ n \in DOMAIN files /\ n \in DOMAIN files'
  /\ i \in DOMAIN files[n]
  /\ Len(files'[n]) = Len(files[n])
  /\ \E p \in Programs : files'[n][i] = Updated(p, i)
  /\ \A j \in DOMAIN files[n] \ {i} : files'[n][j] = files[n][j]
  /\ Others({n})

Move(n, m) ==
  /\ n \in DOMAIN files /\ m \notin DOMAIN files
  /\ n \notin DOMAIN files' /\ m \in DOMAIN files'
  /\ files'[m] = files[n]
  /\ Others({n, m})

Drop(n) ==
  /\ n \in DOMAIN files /\ n \notin DOMAIN files'
  /\ Others({n})

Next ==
  \/ \E n \in Names : Create(n) \/ Extend(n) \/ Drop(n)
  \/ \E n \in Names : n \in DOMAIN files /\ \E i \in DOMAIN files[n] : Replace(n, i)
  \/ \E n, m \in Names : Move(n, m)

Spec == Init /\ [][Next]_files
=============================================================================
