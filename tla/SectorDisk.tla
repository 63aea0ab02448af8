----------------------------- MODULE SectorDisk -----------------------------
(***************************************************************************)
(* What FMS relies on in a disk driver: a call reads or writes one whole   *)
(* sector, every call sees the writes before it, and no other sector       *)
(* changes.  A write may reach the disk after its call has returned, but   *)
(* before the next one has an effect; a reset in between may lose it.      *)
(***************************************************************************)
CONSTANTS Sectors, Existing, Values, None

VARIABLES disk, pending, call, result
diskVars == <<disk, pending, call, result>>

Requests == [op : {"read"}, sector : Sectors, value : {None}]
            \cup [op : {"write"}, sector : Sectors, value : Values]

Init == /\ disk \in [Existing -> Values]
        /\ pending = None
        /\ call = None
        /\ result = None

Call == /\ call = None
        /\ call' \in Requests
        /\ UNCHANGED <<disk, pending, result>>

Read == /\ call # None /\ call.op = "read" /\ call.sector \in Existing
        /\ pending = None /\ result = None
        /\ result' = disk[call.sector]
        /\ UNCHANGED <<disk, pending, call>>

Write == /\ call # None /\ call.op = "write" /\ call.sector \in Existing
         /\ pending = None /\ result = None
         /\ pending' = [sector |-> call.sector, value |-> call.value]
         /\ result' = "ok"
         /\ UNCHANGED <<disk, call>>

Refuse == /\ call # None /\ call.sector \notin Existing
          /\ result = None
          /\ result' = "refused"
          /\ UNCHANGED <<disk, pending, call>>

Return == /\ result # None
          /\ call' = None
          /\ result' = None
          /\ UNCHANGED <<disk, pending>>

Commit == /\ pending # None
          /\ disk' = [disk EXCEPT ![pending.sector] = pending.value]
          /\ pending' = None
          /\ UNCHANGED <<call, result>>

Reset == /\ pending' = None
         /\ call' = None
         /\ result' = None
         /\ UNCHANGED disk

DiskSpec == Init /\ [][Call \/ Read \/ Write \/ Refuse \/ Return \/ Commit \/ Reset]_diskVars
=============================================================================
