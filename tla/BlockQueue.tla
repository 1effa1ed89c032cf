----------------------------- MODULE BlockQueue -----------------------------
(***************************************************************************)
(* What a virtio block device promises its driver: the requests posted on  *)
(* the queue are carried out once each, in the order they were posted, on  *)
(* one disk; each is then handed back with its status and, for a read, the *)
(* data the disk held at that moment.  A reset forgets what was not        *)
(* carried out yet and keeps the disk.                                     *)
(***************************************************************************)
EXTENDS Integers, Sequences

CONSTANTS
    Heads,    \* descriptor chains, named by their first descriptor
    Sectors, Blocks,  \* places on the disk, and what one can hold
    Zero      \* the content of what lies beyond the end of the disk

\* A chain in the driver's memory: its header, its data buffer, its status.
Request == [type: {"in", "out", "other"}, sector: Sectors, data: Blocks]
Statuses == {"ok", "unsupp"}

VARIABLES
    disk,    \* content of the sectors the disk has
    posted,  \* chains to carry out: a sequence of [head, req]
    done     \* chains carried out and not collected yet: [head, data, status]

vars == <<disk, posted, done>>

Init == disk \in UNION {[D -> Blocks] : D \in SUBSET Sectors} /\ posted = << >> /\ done = << >>

\* One request carried out on disk d.
NewDisk(d, req) ==
    IF req.type = "out" /\ req.sector \in DOMAIN d
    THEN [d EXCEPT ![req.sector] = req.data] ELSE d

Answer(d, head, req) ==
    [head |-> head,
     data |-> IF req.type # "in" THEN req.data
              ELSE IF req.sector \in DOMAIN d THEN d[req.sector] ELSE Zero,
     status |-> IF req.type = "other" THEN "unsupp" ELSE "ok"]

\* The disk after the first n posted requests.
After(n) ==
    LET d[k \in 0 .. n] == IF k = 0 THEN disk ELSE NewDisk(d[k - 1], posted[k].req)
    IN  d

Busy == {posted[k].head : k \in DOMAIN posted} \cup {done[k].head : k \in DOMAIN done}

Post == \E head \in Heads \ Busy, req \in Request :
            /\ posted' = Append(posted, [head |-> head, req |-> req])
            /\ UNCHANGED <<disk, done>>

\* The device carries out what it finds posted, as one batch.
Serve == \E n \in 1 .. Len(posted) :
    /\ disk' = After(n)[n]
    /\ done' = done \o [k \in 1 .. n |-> Answer(After(n)[k - 1], posted[k].head, posted[k].req)]
    /\ posted' = SubSeq(posted, n + 1, Len(posted))

Collect == /\ done # << >>
           /\ done' = Tail(done)
           /\ UNCHANGED <<disk, posted>>

Reset == posted' = << >> /\ done' = << >> /\ UNCHANGED disk

Next == Post \/ Serve \/ Collect \/ Reset

Spec == Init /\ [][Next]_vars
=============================================================================
