-------------------------- MODULE StorageProperties --------------------------
(***************************************************************************)
(* What the storage backends and the throttle around them promise.         *)
(***************************************************************************)
EXTENDS ThrottledStorage, SequencesExt

(* A version identifies contents: a caller whose version is the current    *)
(* one holds the current contents, whoever wrote them and however calls    *)
(* failed, unless a write came between the two requests of a GCS call.     *)
VersionsIdentify ==
    \A c \in Callers :
        known[c].version # None /\ known[c].version = version
            => known[c].contents = object.contents \/ raced

(* No acknowledged update is lost, except to such a race.                  *)
NoLostUpdate == \A u \in acked : Contains(object.contents, u)
UpdatesKept == NoLostUpdate \/ raced

(* An update is applied twice only when the client library sent its write  *)
(* again after it had landed: the refusal of the second write looks like   *)
(* another caller's conflict.  Where a write came between the two requests *)
(* of a GCS call (`raced`) nothing is said, as a caller may then write on  *)
(* contents of another version; S3 has no such race, and there the         *)
(* property is unconditional.                                              *)
TwiceOnlyIfRepeated ==
    \A i, j \in DOMAIN object.contents :
        i # j /\ object.contents[i] = object.contents[j] =>
            object.contents[i] \in repeated \/ raced

(* Writing never replaces what the writer has not seen: the contents only  *)
(* grow, by one update at a time, unless such a race has happened.         *)
ContentsExtended ==
    [][ \/ raced'
        \/ object'.contents = object.contents
        \/ object.contents = Front(object'.contents) ]_vars

-----------------------------------------------------------------------------
(* Calls that went through a bucket.                                       *)
metered(k) == stats[k].total - (IF k = "write" THEN exempt ELSE 0)

(* The statistics account for every call above the configured rate: it     *)
(* has been paid for by a delay that its caller was given.                 *)
DelaysAccounted ==
    \A k \in Kinds : limited(k) =>
        metered(k) * limits[k].cost + bucket[k].tokens
            <= capacity(k) + bucket[k].lastRefill + stats[k].delay

(* On each day the first maxWritesPerDay writes pass unmetered, and no     *)
(* other one: neither what an earlier day used, or left, nor how long ago  *)
(* the last write was counts, although the count is only looked at when a  *)
(* write is made.                                                          *)
BudgetKept == today.exempt = Least(today.made, limits.perDay)
=============================================================================
