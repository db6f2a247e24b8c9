------------------------------ MODULE Limiter ------------------------------
(***************************************************************************)
(* class Limiter of security.py: fixed windows counted per identifier, in  *)
(* an OrderedDict of bounded size.  `buckets` is that dictionary as the    *)
(* sequence of its entries, the least recently admitted first.             *)
(***************************************************************************)
EXTENDS Integers, Sequences

CONSTANTS
  LIMIT,      \* requests admitted per window
  SECONDS,    \* length of a window
  CAPACITY    \* identifiers remembered (4096)

Has(buckets, id) == \E i \in DOMAIN buckets : buckets[i].id = id

(* An identifier has one entry.                                            *)
Place(buckets, id) == CHOOSE i \in DOMAIN buckets : buckets[i].id = id

Others(buckets, id) ==
  IF ~Has(buckets, id) THEN buckets
  ELSE SubSeq(buckets, 1, Place(buckets, id) - 1)
         \o SubSeq(buckets, Place(buckets, id) + 1, Len(buckets))

(* buckets.get(identifier, (now, 0))                                       *)
Found(buckets, id, now) ==
  IF Has(buckets, id) THEN buckets[Place(buckets, id)]
  ELSE [id |-> id, start |-> now, count |-> 0]

(* Mutant of Current: the count of a window that is over still stands.     *)
KeepsCount(buckets, id, now) ==
  LET found == Found(buckets, id, now)
  IN IF now - found.start >= SECONDS THEN [found EXCEPT !.start = now] ELSE found

(* The window that is over gives way to one that starts now.               *)
Current(buckets, id, now) ==
  LET found == Found(buckets, id, now)
  IN IF now - found.start >= SECONDS
     THEN [id |-> id, start |-> now, count |-> 0] ELSE found

Allows(buckets, id, now) == Current(buckets, id, now).count < LIMIT

Newest(s) == SubSeq(s, IF Len(s) > CAPACITY THEN Len(s) - CAPACITY + 1 ELSE 1, Len(s))

(* Mutant of Admit: without move_to_end, the identifier keeps its place.   *)
AdmitInPlace(buckets, id, now) ==
  LET counted == [Current(buckets, id, now) EXCEPT !.count = @ + 1]
  IN IF Has(buckets, id)
     THEN [i \in DOMAIN buckets |-> IF buckets[i].id = id THEN counted ELSE buckets[i]]
     ELSE Newest(Append(buckets, counted))

(* Counted, moved to the end, and the oldest entries forgotten.  A refused *)
(* request leaves the dictionary as it was.                                *)
Admit(buckets, id, now) ==
  Newest(Append(Others(buckets, id), [Current(buckets, id, now) EXCEPT !.count = @ + 1]))
=============================================================================
