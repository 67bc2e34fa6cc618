---------------------------- MODULE StorageProofs ----------------------------
(***************************************************************************)
(* The throttle only delays calls; and the backends lose no acknowledged   *)
(* update, for any callers, updates, failures and repeats, unless a write  *)
(* came between the two requests of a Google Cloud Storage call; and none  *)
(* is applied twice but by a repeated request.                             *)
(***************************************************************************)
EXTENDS StorageProperties, TLAPS

USE BackendsAssumption, UpdatesAssumption

Ops == {"none", "create", "read", "write"}
Pcs == {"starting", "idle", "sent", "lookup", "answered", "refused"}
Contents == Seq(Callers \X Nat)
Versions == {None} \cup Contents \cup Seq(Nat)
CallRecords == [op : Ops, pc : Pcs, contents : Contents, expected : Versions, answer : Versions]

(* The types of the variables of ObjectStorage.                            *)
StorageTypes ==
    /\ backend \in {"memory", "s3", "gcs"}
    /\ object \in [contents : Contents, written : Nat]
    /\ call \in [Callers -> CallRecords]
    /\ known \in [Callers -> [contents : Contents, version : Versions]]
    /\ made \in [Callers -> Nat]
    /\ late \subseteq CallRecords

-----------------------------------------------------------------------------
(* Facts about sequences.                                                  *)

LEMMA AppendContains ==
  ASSUME NEW S, NEW s \in Seq(S), NEW u \in S
  PROVE  /\ Append(s, u) \in Seq(S)
         /\ Contains(Append(s, u), u)
         /\ \A v : Contains(s, v) => Contains(Append(s, u), v)
<1>1. Len(Append(s, u)) = Len(s) + 1 /\ Append(s, u)[Len(s) + 1] = u /\ Len(s) \in Nat
  OBVIOUS
<1>2. \A i \in 1..Len(s) : Append(s, u)[i] = s[i]
  OBVIOUS
<1> QED BY <1>1, <1>2 DEF Contains

LEMMA AppendFront ==
  ASSUME NEW S, NEW s \in Seq(S), NEW u \in S
  PROVE  Front(Append(s, u)) = s
<1> DEFINE t == Append(s, u)
<1>1. t \in Seq(S) /\ Len(t) = Len(s) + 1 /\ Len(s) \in Nat
  OBVIOUS
<1>2. Front(t) \in Seq(S) /\ Len(Front(t)) = Len(s) /\ \A i \in 1..Len(s) : Front(t)[i] = t[i]
  BY <1>1 DEF Front
<1>3. \A i \in 1..Len(s) : t[i] = s[i]
  OBVIOUS
<1> QED BY <1>2, <1>3

-----------------------------------------------------------------------------
(* Types.                                                                  *)

LEMMA UpdateType ==
  ASSUME StorageTypes, NEW c \in Callers
  PROVE  update(c) \in Callers \X Nat
  BY DEF StorageTypes, update

LEMMA TokenType ==
  ASSUME StorageTypes, NEW s \in Contents, NEW n \in Nat
  PROVE  tokenOf(s, n) \in Versions
  BY DEF StorageTypes, tokenOf, Versions

LEMMA VersionType == StorageTypes => version \in Versions
  BY TokenType DEF StorageTypes, version

LEMMA TypesInit == Init => StorageTypes
  BY DEF Init, StorageTypes, Starting, NewCall, CallRecords, Ops, Pcs, Contents, Versions

LEMMA TypesNext == StorageTypes /\ [Next]_vars => StorageTypes'
<1> SUFFICES ASSUME StorageTypes, [Next]_vars PROVE StorageTypes'
  OBVIOUS
<1> USE DEF Ops, Pcs
<1>0. <<>> \in Contents /\ None \in Versions
  BY DEF Contents, Versions
<1>1. ASSUME NEW c \in Callers, createIfNotExists(c) \/ read(c) PROVE StorageTypes'
  BY <1>0, <1>1 DEF createIfNotExists, read, Send, NewCall, StorageTypes, CallRecords
<1>2. ASSUME NEW c \in Callers, write(c) PROVE StorageTypes'
  <2>1. Append(known[c].contents, update(c)) \in Contents /\ known[c].version \in Versions
    BY UpdateType, AppendContains DEF StorageTypes, Contents
  <2> QED BY <1>0, <1>2, <2>1 DEF write, Send, NewCall, StorageTypes, CallRecords
<1>3. ASSUME NEW c \in Callers, ReadServed(c) PROVE StorageTypes'
  <2>1. object.contents \in Contents /\ version \in Versions
    BY VersionType DEF StorageTypes
  <2> QED BY <1>0, <1>3, <2>1 DEF ReadServed, Served, NewCall, StorageTypes, CallRecords
<1>4. ASSUME NEW c \in Callers, WriteServed(c) PROVE StorageTypes'
  <2>1. call[c].contents \in Contents /\ tokenOf(call[c].contents, object.written + 1) \in Versions
    BY TokenType DEF StorageTypes, CallRecords
  <2>2. Served(call[c], call[c].contents, tokenOf(call[c].contents, object.written + 1)) \in CallRecords
    BY <1>0, <2>1 DEF Served, NewCall, StorageTypes, CallRecords
  <2> QED BY <1>4, <2>1, <2>2 DEF WriteServed, Land, StorageTypes
<1>5. ASSUME NEW c \in Callers, WriteRefused(c) PROVE StorageTypes'
  BY <1>5 DEF WriteRefused, StorageTypes, CallRecords
<1>6. ASSUME NEW c \in Callers, Lookup(c) PROVE StorageTypes'
  <2>1. call[c] \in CallRecords /\ version \in Versions
    BY VersionType DEF StorageTypes
  <2>2. [call[c] EXCEPT !.pc = "answered", !.answer = version] \in CallRecords
    BY <2>1 DEF CallRecords
  <2>3. call' = [call EXCEPT ![c] = [call[c] EXCEPT !.pc = "answered", !.answer = version]]
    BY <1>6 DEF Lookup, StorageTypes
  <2> QED BY <1>6, <2>2, <2>3 DEF Lookup, StorageTypes
<1>7. ASSUME NEW c \in Callers, Succeeds(c) PROVE StorageTypes'
  <2>1. Idle \in CallRecords
    BY <1>0 DEF Idle, NewCall, CallRecords
  <2>2. call[c].contents \in Contents /\ call[c].answer \in Versions
    BY DEF StorageTypes, CallRecords
  <2> QED BY <1>7, <2>1, <2>2 DEF Succeeds, StorageTypes
<1>8. ASSUME NEW c \in Callers, Conflicts(c) PROVE StorageTypes'
  <2>1. Idle \in CallRecords
    BY <1>0 DEF Idle, NewCall, CallRecords
  <2> QED BY <1>0, <1>8, <2>1 DEF Conflicts, StorageTypes
<1>9. ASSUME NEW c \in Callers, Fails(c) PROVE StorageTypes'
  <2>1. Idle \in CallRecords /\ Starting \in CallRecords
    BY <1>0 DEF Idle, Starting, NewCall, CallRecords
  <2>2. onTheWay(c) \subseteq CallRecords
    BY DEF onTheWay, StorageTypes
  <2> QED BY <1>9, <2>1, <2>2 DEF Fails, StorageTypes
<1>10. ASSUME NEW c \in Callers, Repeats(c) PROVE StorageTypes'
  <2>1. call[c] \in CallRecords
    BY DEF StorageTypes
  <2>2. [call[c] EXCEPT !.pc = "sent", !.answer = None] \in CallRecords
    BY <1>0, <2>1 DEF CallRecords
  <2>3. call' = [call EXCEPT ![c] = [call[c] EXCEPT !.pc = "sent", !.answer = None]]
    BY <1>10 DEF Repeats, StorageTypes
  <2> QED BY <1>10, <2>2, <2>3 DEF Repeats, StorageTypes
<1>11. ASSUME NEW r \in late, LateLands(r) PROVE StorageTypes'
  BY <1>11 DEF LateLands, Land, StorageTypes, CallRecords, callerVars
<1>12. ASSUME NEW r \in late, LateRefused(r) PROVE StorageTypes'
  BY <1>12 DEF LateRefused, StorageTypes, callerVars
<1>13. CASE UNCHANGED vars
  BY <1>13 DEF vars, callerVars, StorageTypes
<1> QED
  BY <1>1, <1>2, <1>3, <1>4, <1>5, <1>6, <1>7, <1>8, <1>9, <1>10, <1>11, <1>12, <1>13
     DEF Next, Steps, Lates

-----------------------------------------------------------------------------
(* A version that a caller holds stands for the contents it came with:     *)
(* when it is the current one these are the current contents, and it will  *)
(* never be current again once it is not, except that the ETag of contents *)
(* always stands for these.                                                *)

StandsFor(o, v, contents) ==
    v # None =>
        IF backend = "s3" THEN v = contents
        ELSE \E n \in Nat : /\ v = <<n>> /\ n <= o.written
                            /\ n = o.written => contents = o.contents

\* A write of update u that is made from contents its version stands for.
Extends(o, r, u) ==
    /\ r.expected # None
    /\ \E k \in Contents : r.contents = Append(k, u) /\ StandsFor(o, r.expected, k)

CallerSound(o, r, held, u) ==
    /\ StandsFor(o, held.version, held.contents)
    /\ r.op = "create" => r.contents = <<>>
    /\ r.op = "write" => Extends(o, r, u)
    /\ r.pc = "lookup" => r.contents = o.contents
    /\ r.pc = "answered" => StandsFor(o, r.answer, r.contents)
    /\ r.op = "write" /\ r.pc \in {"lookup", "answered"} => Contains(o.contents, u)

LateSound(o, r) ==
    \/ r.op = "create" /\ r.contents = <<>>
    \/ r.op = "write" /\ \E u \in Callers \X Nat : Extends(o, r, u)

Sound ==
    /\ absent => object.contents = <<>>
    /\ \A c \in Callers : CallerSound(object, call[c], known[c], update(c))
    /\ \A r \in late : LateSound(object, r)
    /\ NoLostUpdate

StorageInv == StorageTypes /\ (raced \/ Sound)

LEMMA CurrentVersion ==
  ASSUME StorageTypes
  PROVE  /\ StandsFor(object, version, object.contents)
         /\ \A v, k : v # None /\ v = version /\ StandsFor(object, v, k) => k = object.contents
<1>1. CASE backend = "s3"
  BY <1>1 DEF StandsFor, version, tokenOf
<1>2. CASE backend # "s3"
  <2>1. version = <<object.written>> /\ object.written \in Nat
    BY <1>2 DEF version, tokenOf, StorageTypes
  <2>2. \A n \in Nat : version = <<n>> => n = object.written
    BY <2>1
  <2> QED BY <1>2, <2>1, <2>2 DEF StandsFor
<1> QED BY <1>1, <1>2

\* What a write that landed leaves of what was so before it.
Grown(o, p) ==
    /\ p.written = o.written + 1
    /\ \A v : Contains(o.contents, v) => Contains(p.contents, v)

LEMMA StandsForKept ==
  ASSUME StorageTypes, NEW o \in [contents : Contents, written : Nat], NEW p, Grown(o, p),
         NEW v, NEW k, StandsFor(o, v, k)
  PROVE  StandsFor(p, v, k)
<1> SUFFICES ASSUME v # None, backend # "s3" PROVE StandsFor(p, v, k)
  BY DEF StandsFor
<1>1. PICK n \in Nat : v = <<n>> /\ n <= o.written
  BY DEF StandsFor
<1>2. n <= p.written /\ n # p.written
  BY <1>1 DEF Grown
<1> QED BY <1>1, <1>2 DEF StandsFor

LEMMA CallerKept ==
  ASSUME StorageTypes, NEW p, Grown(object, p),
         NEW r, NEW held, NEW u, CallerSound(object, r, held, u), r.pc # "lookup"
  PROVE  CallerSound(p, r, held, u)
<1>1. object \in [contents : Contents, written : Nat]
  BY DEF StorageTypes
<1>2. \A v, k : StandsFor(object, v, k) => StandsFor(p, v, k)
  BY <1>1, StandsForKept
<1> QED BY <1>2 DEF CallerSound, Extends, Grown

LEMMA LateKept ==
  ASSUME StorageTypes, NEW p, Grown(object, p), NEW r, LateSound(object, r)
  PROVE  LateSound(p, r)
<1>1. object \in [contents : Contents, written : Nat]
  BY DEF StorageTypes
<1>2. \A v, k : StandsFor(object, v, k) => StandsFor(p, v, k)
  BY <1>1, StandsForKept
<1> QED BY <1>2 DEF LateSound, Extends

(* The contents that land extend those that are there.                     *)
LEMMA LandsOnCurrent ==
  ASSUME StorageTypes, Sound, NEW r \in CallRecords, LateSound(object, r), holds(r)
  PROVE  \/ r.op = "create" /\ r.contents = <<>> /\ object.contents = <<>>
         \/ r.op = "write" /\ \E u \in Callers \X Nat : r.contents = Append(object.contents, u)
<1>1. CASE r.op = "create"
  BY <1>1 DEF LateSound, holds, Sound
<1>2. CASE r.op = "write"
  <2>1. r.expected # None /\ r.expected = version
    BY <1>2 DEF LateSound, holds, Extends
  <2> QED BY <1>2, <2>1, CurrentVersion DEF LateSound, Extends
<1> QED BY <1>1, <1>2 DEF LateSound

LEMMA LandingGrows ==
  ASSUME StorageTypes, Sound, NEW r \in CallRecords, LateSound(object, r), holds(r),
         NEW others, Land(r, others)
  PROVE  Grown(object, object')
<1>1. object'.contents = r.contents /\ object'.written = object.written + 1
  BY DEF Land
<1>2. object.contents \in Contents
  BY DEF StorageTypes
<1>3. CASE r.contents = object.contents
  BY <1>1, <1>3 DEF Grown
<1>4. ASSUME NEW u \in Callers \X Nat, r.contents = Append(object.contents, u)
      PROVE  Grown(object, object')
  <2>1. \A v : Contains(object.contents, v) => Contains(r.contents, v)
    BY <1>2, <1>4, AppendContains DEF Contents
  <2> QED BY <1>1, <2>1 DEF Grown
<1> QED BY <1>3, <1>4, LandsOnCurrent

-----------------------------------------------------------------------------
(* The steps.                                                              *)

(* A landing leaves what is sound so, but for the callers it overtakes     *)
(* between their two requests.                                             *)
LEMMA LandingKeeps ==
  ASSUME StorageTypes, Sound, NEW r \in CallRecords, LateSound(object, r), holds(r),
         NEW others \in SUBSET Callers, Land(r, others), ~raced', UNCHANGED backend
  PROVE  /\ ~absent'
         /\ \A d \in others : CallerSound(object', call[d], known[d], update(d))
         /\ \A q \in late : LateSound(object', q)
         /\ \A u \in acked : Contains(object'.contents, u)
<1>1. Grown(object, object')
  BY LandingGrows
<1>2. \A d \in others : CallerSound(object', call[d], known[d], update(d))
  BY <1>1, CallerKept DEF Sound, Land, betweenRequests
<1>3. \A q \in late : LateSound(object', q)
  BY <1>1, LateKept DEF Sound
<1>4. \A u \in acked : Contains(object'.contents, u)
  BY <1>1 DEF Sound, NoLostUpdate, Grown
<1>5. ~absent'
  BY <1>1 DEF StorageTypes, Grown, absent
<1> QED BY <1>2, <1>3, <1>4, <1>5

LEMMA SoundInit == Init => Sound
  BY DEF Init, Sound, absent, CallerSound, StandsFor, Starting, NewCall, NoLostUpdate

(* The steps of one caller that leave the object alone.                    *)
LEMMA SoundWhenObjectKept ==
  ASSUME StorageTypes, Sound, NEW c \in Callers, UNCHANGED <<backend, object, acked>>,
         \A d \in Callers \ {c} : UNCHANGED <<call[d], known[d], made[d]>>,
         CallerSound(object, call'[c], known'[c], update(c)'),
         \A q \in late' : LateSound(object, q)
  PROVE  Sound'
<1>1. \A d \in Callers : CallerSound(object, call'[d], known'[d], update(d)')
  BY DEF Sound, update
<1>2. (\A d \in Callers : CallerSound(object, call[d], known[d], update(d)))'
  BY <1>1 DEF CallerSound, Extends, StandsFor
<1>3. (\A q \in late : LateSound(object, q))'
  BY DEF LateSound, Extends, StandsFor
<1> QED BY <1>2, <1>3 DEF Sound, NoLostUpdate, absent

(* A write lands: what LandingKeeps leaves to say is its own caller's.     *)
LEMMA SoundWhenLanded ==
  ASSUME StorageTypes, Sound, NEW r \in CallRecords, LateSound(object, r), holds(r),
         NEW others \in SUBSET Callers, Land(r, others), ~raced',
         UNCHANGED <<backend, known, made, acked>>, late' \subseteq late,
         \A d \in others : UNCHANGED call[d],
         \A d \in Callers \ others : CallerSound(object', call'[d], known'[d], update(d)')
  PROVE  Sound'
<1>1. \A d \in Callers : CallerSound(object', call'[d], known'[d], update(d)')
  BY LandingKeeps DEF update
<1>2. (\A d \in Callers : CallerSound(object, call[d], known[d], update(d)))'
  BY <1>1 DEF CallerSound, Extends, StandsFor
<1>3. \A q \in late' : LateSound(object', q)
  BY LandingKeeps
<1>4. (\A q \in late : LateSound(object, q))'
  BY <1>3 DEF LateSound, Extends, StandsFor
<1>5. NoLostUpdate'
  BY LandingKeeps DEF NoLostUpdate
<1>6. ~absent'
  BY LandingKeeps
<1> QED BY <1>2, <1>4, <1>5, <1>6 DEF Sound

LEMMA SoundNext ==
  ASSUME StorageTypes, Sound, [Next]_vars, ~raced'
  PROVE  Sound'
<1> DEFINE Others(c) == \A d \in Callers \ {c} : UNCHANGED <<call[d], known[d], made[d]>>
           Now(c) == CallerSound(object, call[c], known[c], update(c))
           After(c) == CallerSound(object, call'[c], known'[c], update(c)')
<1>a. \A c \in Callers : Now(c)
  BY DEF Sound
<1>b. \A q \in late : LateSound(object, q)
  BY DEF Sound
<1>1. ASSUME NEW c \in Callers, createIfNotExists(c) \/ read(c) PROVE Sound'
  <2>1. Others(c) /\ UNCHANGED <<backend, object, acked, late>>
    BY <1>1 DEF createIfNotExists, read, Send, history, StorageTypes
  <2>2. After(c)
    BY <1>1, <1>a DEF createIfNotExists, read, Send, NewCall, CallerSound, StorageTypes
  <2> QED BY <1>b, <2>1, <2>2, SoundWhenObjectKept
<1>2. ASSUME NEW c \in Callers, write(c) PROVE Sound'
  <2>1. Others(c) /\ UNCHANGED <<backend, object, acked, late>>
    BY <1>2 DEF write, Send, history, StorageTypes
  <2>2. known[c].version # None /\ known[c].contents \in Contents
    BY <1>2 DEF write, mayWrite, StorageTypes
  <2>3. call'[c] = NewCall("write", "sent", Append(known[c].contents, update(c)), known[c].version, None)
    BY <1>2 DEF write, Send, StorageTypes
  <2>4. UNCHANGED <<known, made>>
    BY <1>2 DEF write, Send
  <2>5. Extends(object, call'[c], update(c))
    BY <1>a, <2>2, <2>3 DEF Extends, NewCall, CallerSound
  <2>6. After(c)
    BY <1>a, <2>3, <2>4, <2>5 DEF CallerSound, NewCall, update
  <2> QED BY <1>b, <2>1, <2>6, SoundWhenObjectKept
<1>3. ASSUME NEW c \in Callers, ReadServed(c) PROVE Sound'
  <2>1. Others(c) /\ UNCHANGED <<backend, object, acked, late, known, made>>
    BY <1>3 DEF ReadServed, history, StorageTypes
  <2>2. call'[c] = Served(call[c], object.contents, version) /\ call[c].op = "read"
    BY <1>3 DEF ReadServed, StorageTypes
  <2>3. After(c)
    BY <1>a, <2>1, <2>2, CurrentVersion DEF CallerSound, Served, NewCall
  <2> QED BY <1>b, <2>1, <2>3, SoundWhenObjectKept
<1>4. ASSUME NEW c \in Callers, WriteServed(c) PROVE Sound'
  <2>1. /\ call[c] \in CallRecords /\ holds(call[c]) /\ Land(call[c], Callers \ {c})
        /\ call[c].op \in {"create", "write"} /\ UNCHANGED <<backend, known, made, acked, late>>
        /\ call' = [call EXCEPT ![c] =
              Served(call[c], call[c].contents, tokenOf(call[c].contents, object.written + 1))]
    BY <1>4 DEF WriteServed, StorageTypes
  <2>2. LateSound(object, call[c])
    BY <1>a, <2>1, UpdateType DEF LateSound, CallerSound
  <2>3. Grown(object, object') /\ object'.contents = call[c].contents
    BY <2>1, <2>2, LandingGrows DEF Land
  <2>4. \A v, k : StandsFor(object, v, k) => StandsFor(object', v, k)
    BY <2>3, StandsForKept DEF StorageTypes
  <2>5. StandsFor(object', tokenOf(call[c].contents, object.written + 1), call[c].contents)
    BY <2>3 DEF StandsFor, tokenOf, Grown, StorageTypes
  <2>6. call'[c] = Served(call[c], call[c].contents, tokenOf(call[c].contents, object.written + 1))
    BY <2>1 DEF StorageTypes
  <2>7. call[c].op = "write" => Contains(object'.contents, update(c))
    <3> SUFFICES ASSUME call[c].op = "write" PROVE Contains(object'.contents, update(c))
      OBVIOUS
    <3>1. PICK k \in Contents : call[c].contents = Append(k, update(c))
      BY <1>a DEF CallerSound, Extends
    <3> QED BY <2>3, <3>1, UpdateType, AppendContains DEF Contents
  <2>8. /\ StandsFor(object', known[c].version, known[c].contents)
        /\ call[c].op = "create" => call[c].contents = <<>>
        /\ call[c].op = "write" => Extends(object', call[c], update(c))
    BY <1>a, <2>4 DEF CallerSound, Extends
  <2>9. CallerSound(object', call'[c], known'[c], update(c)')
    BY <2>1, <2>3, <2>5, <2>6, <2>7, <2>8 DEF CallerSound, Served, NewCall, Extends, update
  <2>10. \A d \in Callers \ {c} : UNCHANGED call[d]
    BY <2>1 DEF StorageTypes
  <2> QED BY <2>1, <2>2, <2>9, <2>10, SoundWhenLanded
<1>5. ASSUME NEW c \in Callers, WriteRefused(c) PROVE Sound'
  <2>1. Others(c) /\ UNCHANGED <<backend, object, acked, late, known, made>>
    BY <1>5 DEF WriteRefused, history, StorageTypes
  <2>2. call'[c] = [call[c] EXCEPT !.pc = "refused"] /\ call[c] \in CallRecords
    BY <1>5 DEF WriteRefused, StorageTypes
  <2>3. After(c)
    BY <1>a, <2>1, <2>2 DEF CallerSound, CallRecords, Extends, update
  <2> QED BY <1>b, <2>1, <2>3, SoundWhenObjectKept
<1>6. ASSUME NEW c \in Callers, Lookup(c) PROVE Sound'
  <2>1. Others(c) /\ UNCHANGED <<backend, object, acked, late, known, made>>
    BY <1>6 DEF Lookup, history, StorageTypes
  <2>2. call[c] \in CallRecords /\ call[c].pc = "lookup"
    BY <1>6 DEF Lookup, betweenRequests, StorageTypes
  <2>3. call'[c] = [call[c] EXCEPT !.pc = "answered", !.answer = version]
    BY <1>6 DEF Lookup, StorageTypes
  <2>4. /\ call'[c].op = call[c].op /\ call'[c].contents = call[c].contents
        /\ call'[c].expected = call[c].expected
        /\ call'[c].pc = "answered" /\ call'[c].answer = version
    BY <2>2, <2>3 DEF CallRecords
  <2>5. call[c].contents = object.contents /\ StandsFor(object, version, object.contents)
    BY <1>a, <2>2, CurrentVersion DEF CallerSound
  <2>6. call[c].op = "write" =>
          Extends(object, call'[c], update(c)) /\ Contains(object.contents, update(c))
    BY <1>a, <2>2, <2>4 DEF CallerSound, Extends
  <2>7. After(c)
    BY <1>a, <2>1, <2>4, <2>5, <2>6 DEF CallerSound, update
  <2> QED BY <1>b, <2>1, <2>7, SoundWhenObjectKept
<1>7. ASSUME NEW c \in Callers, Succeeds(c) PROVE Sound'
  <2>1. Others(c) /\ UNCHANGED <<backend, object, late>>
    BY <1>7 DEF Succeeds, StorageTypes
  <2>2. /\ known'[c] = [contents |-> call[c].contents, version |-> call[c].answer]
        /\ call'[c] = Idle /\ call[c].pc = "answered"
        /\ acked' = acked \cup (IF call[c].op = "write" THEN {update(c)} ELSE {})
    BY <1>7 DEF Succeeds, StorageTypes
  <2>3. After(c)
    BY <1>a, <2>2 DEF CallerSound, Idle, NewCall
  <2>4. NoLostUpdate'
    BY <1>a, <2>1, <2>2 DEF Sound, NoLostUpdate, CallerSound
  <2>5. \A d \in Callers : CallerSound(object, call'[d], known'[d], update(d)')
    BY <1>a, <2>1, <2>3 DEF update
  <2>6. (\A d \in Callers : CallerSound(object, call[d], known[d], update(d)))'
    BY <2>1, <2>5 DEF CallerSound, Extends, StandsFor
  <2>7. (\A q \in late : LateSound(object, q))'
    BY <1>b, <2>1 DEF LateSound, Extends, StandsFor
  <2> QED BY <2>1, <2>4, <2>6, <2>7 DEF Sound, absent
<1>8. ASSUME NEW c \in Callers, Conflicts(c) PROVE Sound'
  <2>1. Others(c) /\ UNCHANGED <<backend, object, acked, late>>
    BY <1>8 DEF Conflicts, history, StorageTypes
  <2>2. After(c)
    BY <1>8 DEF Conflicts, CallerSound, Idle, NewCall, StandsFor, StorageTypes
  <2> QED BY <1>b, <2>1, <2>2, SoundWhenObjectKept
<1>9. ASSUME NEW c \in Callers, Fails(c) PROVE Sound'
  <2>1. Others(c) /\ UNCHANGED <<backend, object, acked, known>>
    BY <1>9 DEF Fails, history, StorageTypes
  <2>2. After(c)
    BY <1>9, <1>a, <2>1 DEF Fails, CallerSound, Idle, Starting, NewCall, StorageTypes
  <2>3. late' = late \cup onTheWay(c)
    BY <1>9 DEF Fails
  <2>4. \A q \in onTheWay(c) : LateSound(object, q)
    BY <1>9, <1>a, UpdateType DEF onTheWay, Fails, mayFail, LateSound, CallerSound, StorageTypes,
       CallRecords, Ops
  <2> QED BY <1>b, <2>1, <2>2, <2>3, <2>4, SoundWhenObjectKept
<1>10. ASSUME NEW c \in Callers, Repeats(c) PROVE Sound'
  <2>1. Others(c) /\ UNCHANGED <<backend, object, acked, late, known, made>>
    BY <1>10 DEF Repeats, StorageTypes
  <2>2. call'[c] = [call[c] EXCEPT !.pc = "sent", !.answer = None] /\ call[c] \in CallRecords
    BY <1>10 DEF Repeats, StorageTypes
  <2>3. After(c)
    BY <1>a, <2>1, <2>2 DEF CallerSound, CallRecords, Extends, update
  <2> QED BY <1>b, <2>1, <2>3, SoundWhenObjectKept
<1>11. ASSUME NEW r \in late, LateLands(r) PROVE Sound'
  <2>1. /\ r \in CallRecords /\ holds(r) /\ Land(r, Callers) /\ late' \subseteq late
        /\ UNCHANGED <<backend, known, made, acked, call>>
    BY <1>11 DEF LateLands, callerVars, StorageTypes
  <2>2. LateSound(object, r)
    BY <1>b
  <2> QED BY <2>1, <2>2, SoundWhenLanded
<1>12. ASSUME NEW r \in late, LateRefused(r) PROVE Sound'
  <2>1. UNCHANGED <<backend, object, acked, call, known, made>> /\ late' \subseteq late
    BY <1>12 DEF LateRefused, callerVars, history
  <2>2. (\A d \in Callers : CallerSound(object, call[d], known[d], update(d)))'
    BY <1>a, <2>1 DEF CallerSound, Extends, StandsFor, update
  <2>3. (\A q \in late : LateSound(object, q))'
    BY <1>b, <2>1 DEF LateSound, Extends, StandsFor
  <2> QED BY <2>1, <2>2, <2>3 DEF Sound, NoLostUpdate, absent
<1>13. CASE UNCHANGED vars
  <2>1. UNCHANGED <<backend, object, acked, call, known, made, late>>
    BY <1>13 DEF vars, callerVars, history
  <2>2. (\A d \in Callers : CallerSound(object, call[d], known[d], update(d)))'
    BY <1>a, <2>1 DEF CallerSound, Extends, StandsFor, update
  <2>3. (\A q \in late : LateSound(object, q))'
    BY <1>b, <2>1 DEF LateSound, Extends, StandsFor
  <2> QED BY <2>1, <2>2, <2>3 DEF Sound, NoLostUpdate, absent
<1> QED
  BY <1>1, <1>2, <1>3, <1>4, <1>5, <1>6, <1>7, <1>8, <1>9, <1>10, <1>11, <1>12, <1>13
     DEF Next, Steps, Lates

(* A race, once it has happened, has happened.                             *)
LEMMA RacedStays == [Next]_vars => (raced => raced')
  BY DEF Next, createIfNotExists, read, write, Send, Steps, Lates, ReadServed, WriteServed,
     WriteRefused, Lookup, Succeeds, Conflicts, Fails, Repeats, LateLands, LateRefused, Land,
     vars, history

LEMMA ObjectChanges ==
  [Next]_vars => \/ UNCHANGED object
                 \/ \E c \in Callers : WriteServed(c)
                 \/ \E r \in late : LateLands(r)
  BY DEF Next, Steps, Lates, createIfNotExists, read, write, Send, ReadServed, WriteRefused, Lookup,
     Succeeds, Conflicts, Fails, Repeats, LateRefused, vars

LEMMA StorageInductive == Spec => []StorageInv
<1>1. Init => StorageInv
  BY TypesInit, SoundInit DEF StorageInv
<1>2. StorageInv /\ [Next]_vars => StorageInv'
  BY TypesNext, SoundNext, RacedStays DEF StorageInv
<1> QED BY <1>1, <1>2, PTL DEF Spec

-----------------------------------------------------------------------------
(* The theorems.                                                           *)

(* No acknowledged update is lost, whatever fails, is repeated or lands    *)
(* late, unless a write came between the two requests of a GCS call        *)
(* (gcs.ts, read and write).                                               *)
THEOREM BackendsKeepUpdates == Spec => []UpdatesKept
<1>1. StorageInv => UpdatesKept
  BY DEF StorageInv, Sound, UpdatesKept
<1> QED BY <1>1, StorageInductive, PTL

(* A caller whose version is the current one holds the current contents.   *)
THEOREM BackendsVersions == Spec => []VersionsIdentify
<1>1. StorageInv => VersionsIdentify
  BY CurrentVersion DEF StorageInv, Sound, VersionsIdentify, CallerSound
<1> QED BY <1>1, StorageInductive, PTL

(* Contents are only extended, by one update at a time: the writer's       *)
(* version stood for what it extended.                                     *)
THEOREM BackendsExtend == Spec => ContentsExtended
<1> DEFINE Kept == \/ raced'
                   \/ object'.contents = object.contents
                   \/ object.contents = Front(object'.contents)
<1>1. ASSUME StorageTypes, Sound, NEW r \in CallRecords, LateSound(object, r), holds(r),
             NEW others, Land(r, others)
      PROVE  Kept
  <2>1. object'.contents = r.contents /\ object.contents \in Contents
    BY <1>1 DEF Land, StorageTypes
  <2>2. ASSUME NEW u \in Callers \X Nat, r.contents = Append(object.contents, u) PROVE Kept
    <3>1. Front(r.contents) = object.contents
      BY <2>1, <2>2, AppendFront DEF Contents
    <3> QED BY <2>1, <3>1
  <2> QED BY <1>1, <2>1, <2>2, LandsOnCurrent
<1>2. StorageInv /\ [Next]_vars => [Kept]_vars
  <2> SUFFICES ASSUME StorageTypes, Sound, ~raced, [Next]_vars PROVE Kept
    BY RacedStays DEF StorageInv
  <2>1. ASSUME NEW c \in Callers, WriteServed(c) PROVE Kept
    <3>1. call[c] \in CallRecords /\ holds(call[c]) /\ Land(call[c], Callers \ {c})
      BY <2>1 DEF WriteServed, StorageTypes
    <3>2. LateSound(object, call[c])
      BY <2>1, UpdateType DEF WriteServed, Sound, LateSound, CallerSound
    <3> QED BY <3>1, <3>2, <1>1
  <2>2. ASSUME NEW r \in late, LateLands(r) PROVE Kept
    BY <2>2, <1>1 DEF LateLands, Sound, StorageTypes
  <2>3. CASE UNCHANGED object
    BY <2>3
  <2> HIDE DEF Kept
  <2> QED BY <2>1, <2>2, <2>3, ObjectChanges
<1> QED BY <1>2, StorageInductive, PTL DEF Spec, ContentsExtended

-----------------------------------------------------------------------------
(* An update that was not sent again is applied once: until its write      *)
(* lands nobody has written it, and then nobody will write it again.       *)

Updates == Callers \X Nat
writes(r) == r.op = "write"
landed(r) == writes(r) /\ r.pc \in {"lookup", "answered"}

\* The update a write makes is the last one of its contents.
updateOf(r) == r.contents[Len(r.contents)]

Unwritten(u) == u \in repeated \/ ~Contains(object.contents, u)
OnceIn(s, u) == \A i, j \in DOMAIN s : s[i] = u /\ s[j] = u => i = j

EachOnce == \A u \in Updates : u \in repeated \/ OnceIn(object.contents, u)
NextUnwritten == \A c \in Callers : landed(call[c]) \/ Unwritten(update(c))
LaterUnwritten ==
    \A c \in Callers : \A n \in Nat : made[c] < n => ~Contains(object.contents, <<c, n>>)

\* A write that was given up: its caller has gone on to its next update.
GivenUp(u) == u \in Updates /\ u[2] < made[u[1]] /\ Unwritten(u)
LateUnwritten == \A r \in late : writes(r) => GivenUp(updateOf(r))
LateApart ==
    \A r, q \in late : writes(r) /\ writes(q) /\ updateOf(r) = updateOf(q) =>
        r = q \/ updateOf(r) \in repeated

Once == EachOnce /\ NextUnwritten /\ LaterUnwritten /\ LateUnwritten /\ LateApart

OnceInv == StorageTypes /\ (raced \/ (Sound /\ Once))

LEMMA AppendElements ==
  ASSUME NEW S, NEW s \in Seq(S), NEW u \in S
  PROVE  /\ Append(s, u)[Len(Append(s, u))] = u
         /\ ~Contains(s, u) => OnceIn(Append(s, u), u)
         /\ \A v : v # u /\ OnceIn(s, v) => OnceIn(Append(s, u), v)
         /\ \A v : v # u /\ ~Contains(s, v) => ~Contains(Append(s, u), v)
<1>1. /\ DOMAIN s = 1..Len(s) /\ DOMAIN Append(s, u) = 1..(Len(s) + 1)
      /\ Len(s) \in Nat /\ Len(Append(s, u)) = Len(s) + 1 /\ Append(s, u)[Len(s) + 1] = u
  OBVIOUS
<1>2. \A i \in 1..Len(s) : Append(s, u)[i] = s[i]
  OBVIOUS
<1>3. \A i \in 1..(Len(s) + 1) : i \in 1..Len(s) \/ i = Len(s) + 1
  BY <1>1
<1>4. ~Contains(s, u) => OnceIn(Append(s, u), u)
  BY <1>1, <1>2, <1>3 DEF Contains, OnceIn
<1>5. ASSUME NEW v, v # u, OnceIn(s, v) PROVE OnceIn(Append(s, u), v)
  BY <1>1, <1>2, <1>3, <1>5 DEF OnceIn
<1>6. ASSUME NEW v, v # u, ~Contains(s, v) PROVE ~Contains(Append(s, u), v)
  BY <1>1, <1>2, <1>3, <1>6 DEF Contains
<1> QED BY <1>1, <1>4, <1>5, <1>6

LEMMA OnceInit == Init => Once
<1>1. ASSUME Init PROVE object.contents = <<>> /\ late = {} /\ \A u : ~Contains(object.contents, u)
  BY <1>1 DEF Init, Contains
<1> QED BY <1>1 DEF Once, EachOnce, NextUnwritten, LaterUnwritten, LateUnwritten, LateApart, Unwritten,
        OnceIn

(* Steps by which no update is written or seen through.                    *)
LEMMA OnceWhenKept ==
  ASSUME Once, UNCHANGED <<object, made>>, repeated \subseteq repeated', late' \subseteq late,
         \A c \in Callers : landed(call[c]) => landed(call'[c]) \/ update(c) \in repeated'
  PROVE  Once'
<1>1. EachOnce'
  BY DEF Once, EachOnce
<1>2. NextUnwritten'
  BY DEF Once, NextUnwritten, Unwritten, update
<1>3. LaterUnwritten'
  BY DEF Once, LaterUnwritten
<1>4. LateUnwritten' /\ LateApart'
  BY DEF Once, LateUnwritten, GivenUp, Unwritten, LateApart
<1> QED BY <1>1, <1>2, <1>3, <1>4 DEF Once

LEMMA WriteOf ==
  ASSUME StorageTypes, Sound, NEW c \in Callers, writes(call[c])
  PROVE  updateOf(call[c]) = update(c) /\ update(c) \in Updates
<1>1. PICK k \in Contents : call[c].contents = Append(k, update(c))
  BY DEF Sound, CallerSound, Extends, writes
<1> QED BY <1>1, UpdateType, AppendElements DEF updateOf, Contents, Updates

(* A caller ends its call: an update it has written, or given up, is made. *)
LEMMA OnceWhenEnded ==
  ASSUME StorageTypes, Sound, Once, NEW c \in Callers, UNCHANGED <<object, repeated>>,
         made' = [made EXCEPT ![c] = @ + (IF call[c].op = "write" THEN 1 ELSE 0)],
         \A d \in Callers \ {c} : UNCHANGED call[d],
         \/ late' = late
         \/ late' = late \cup {call[c]} /\ ~landed(call[c])
  PROVE  Once'
<1> DEFINE Older == \A d \in Callers : made[d] \in Nat /\ made'[d] \in Nat /\ made[d] <= made'[d]
<1>1. /\ Older /\ \A d \in Callers \ {c} : made'[d] = made[d]
      /\ IF writes(call[c]) THEN made'[c] = made[c] + 1 ELSE made'[c] = made[c]
  BY DEF StorageTypes, writes
<1> HIDE DEF Older
<1>2. EachOnce'
  BY DEF Once, EachOnce
<1>3. \A u : Unwritten(u)' <=> Unwritten(u)
  BY DEF Unwritten
<1>4. NextUnwritten'
  <2> SUFFICES ASSUME NEW d \in Callers PROVE (landed(call[d]) \/ Unwritten(update(d)))'
    BY DEF NextUnwritten
  <2>1. CASE d # c
    <3>1. call'[d] = call[d] /\ update(d)' = update(d)
      BY <1>1, <2>1 DEF update
    <3> QED BY <3>1 DEF Once, NextUnwritten, Unwritten, landed, writes
  <2>2. CASE d = c /\ writes(call[c])
    <3>1. update(c)' = <<c, made[c] + 1>> /\ made[c] + 1 \in Nat /\ made[c] < made[c] + 1
      BY <1>1, <2>2 DEF update, Older
    <3>2. ~Contains(object.contents, update(c)')
      BY <3>1 DEF Once, LaterUnwritten
    <3> QED BY <2>2, <3>2 DEF Unwritten
  <2>3. CASE d = c /\ ~writes(call[c])
    <3>1. update(c)' = update(c) /\ Unwritten(update(c))
      BY <1>1, <2>3 DEF update, Once, NextUnwritten, landed
    <3> QED BY <2>3, <3>1 DEF Unwritten
  <2> QED BY <2>1, <2>2, <2>3
<1>5. LaterUnwritten'
  <2> SUFFICES ASSUME NEW d \in Callers, NEW n \in Nat, made'[d] < n
               PROVE  ~Contains(object.contents, <<d, n>>)
    BY DEF LaterUnwritten
  <2>1. made[d] < n
    BY <1>1 DEF Older
  <2> QED BY <2>1 DEF Once, LaterUnwritten
<1>6. ASSUME NEW u, GivenUp(u) PROVE GivenUp(u)'
  <2>1. u \in Updates /\ u[1] \in Callers /\ u[2] \in Nat /\ u[2] < made[u[1]]
    BY <1>6 DEF GivenUp, Updates
  <2>2. u[2] < made'[u[1]]
    BY <1>1, <2>1 DEF Older
  <2> QED BY <1>6, <2>1, <2>2 DEF GivenUp, Unwritten, Updates
<1>7. ASSUME NEW r, r = call[c], writes(r), ~landed(r)
      PROVE  GivenUp(updateOf(r))' /\ \A q \in late : writes(q) => updateOf(q) # updateOf(r)
  <2>1. PICK u : u = updateOf(r)
    OBVIOUS
  <2>2. u \in Updates /\ Unwritten(u) /\ u[1] = c /\ u[2] = made[c]
    <3>1. writes(call[c]) /\ ~landed(call[c]) /\ u = updateOf(call[c])
      BY <1>7, <2>1
    <3>2. u = update(c) /\ u \in Updates
      BY <3>1, WriteOf
    <3> QED BY <3>1, <3>2 DEF Once, NextUnwritten, update
  <2>3. made[c] < made'[c]
    BY <1>1, <1>7 DEF Older
  <2>4. GivenUp(u)'
    BY <2>2, <2>3 DEF GivenUp, Unwritten, Updates
  <2>5. ASSUME NEW q \in late, writes(q), updateOf(q) = u PROVE FALSE
    <3>1. u[2] < made[u[1]]
      BY <2>5 DEF Once, LateUnwritten, GivenUp
    <3> QED BY <1>1, <2>2, <3>1 DEF Older
  <2> QED BY <2>1, <2>4, <2>5
<1>8. ASSUME NEW r \in late', writes(r)
      PROVE  /\ GivenUp(updateOf(r))'
             /\ \A q \in late' : writes(q) /\ updateOf(r) = updateOf(q) =>
                  r = q \/ updateOf(r) \in repeated
  <2>1. \A q \in late' : q \in late \/ (q = call[c] /\ ~landed(q))
    <3>1. CASE late' = late
      BY <3>1
    <3>2. CASE late' = late \cup {call[c]} /\ ~landed(call[c])
      BY <3>2
    <3> QED BY <3>1, <3>2
  <2>2. ASSUME NEW q \in late, writes(q) PROVE GivenUp(updateOf(q))'
    BY <1>6, <2>2 DEF Once, LateUnwritten
  <2>3. \A p, q \in late : writes(p) /\ writes(q) /\ updateOf(p) = updateOf(q) =>
          p = q \/ updateOf(p) \in repeated
    BY DEF Once, LateApart
  <2>4. GivenUp(updateOf(r))'
    BY <1>7, <1>8, <2>1, <2>2
  <2>5. ASSUME NEW q \in late', writes(q), updateOf(r) = updateOf(q)
        PROVE  r = q \/ updateOf(r) \in repeated
    BY <1>7, <1>8, <2>1, <2>3, <2>5
  <2> QED BY <2>4, <2>5
<1>9. LateUnwritten' /\ LateApart'
  BY <1>8 DEF LateUnwritten, LateApart
<1> QED BY <1>2, <1>4, <1>5, <1>9 DEF Once

(* A write lands: it is the first of its update, or was sent again.        *)
LEMMA OnceWhenLanded ==
  ASSUME StorageTypes, Sound, Once, NEW r \in CallRecords, LateSound(object, r), holds(r),
         NEW others, Land(r, others), UNCHANGED <<made, repeated>>, late' \subseteq late,
         writes(r) => Unwritten(updateOf(r)) /\ updateOf(r)[2] <= made[updateOf(r)[1]],
         \A c \in Callers : landed(call[c]) => landed(call'[c]),
         \A c \in Callers : writes(r) /\ update(c) = updateOf(r) => landed(call'[c]),
         \A q \in late' : writes(r) /\ writes(q) /\ updateOf(q) = updateOf(r) =>
             updateOf(r) \in repeated
  PROVE  Once'
<1>0. object'.contents = r.contents /\ object.contents \in Contents
  BY DEF Land, StorageTypes
<1>1. CASE ~writes(r)
  <2>1. object'.contents = object.contents
    BY <1>0, <1>1, LandsOnCurrent DEF writes
  <2> QED BY <2>1 DEF Once, EachOnce, NextUnwritten, LaterUnwritten, LateUnwritten, LateApart,
          GivenUp, Unwritten, update
<1>2. CASE writes(r)
  <2>1. PICK u \in Updates : object'.contents = Append(object.contents, u) /\ u = updateOf(r)
    BY <1>0, <1>2, LandsOnCurrent, AppendElements DEF writes, updateOf, Contents, Updates
  <2>2. /\ u \in repeated \/ OnceIn(object'.contents, u)
        /\ \A v : v # u /\ OnceIn(object.contents, v) => OnceIn(object'.contents, v)
        /\ \A v : v # u /\ ~Contains(object.contents, v) => ~Contains(object'.contents, v)
    BY <1>0, <1>2, <2>1, AppendElements DEF Contents, Updates, Unwritten
  <2>3. EachOnce'
    BY <2>2 DEF Once, EachOnce
  <2>4. NextUnwritten'
    <3> SUFFICES ASSUME NEW c \in Callers, ~landed(call'[c]) PROVE Unwritten(update(c))'
      BY DEF NextUnwritten, landed, writes
    <3>1. update(c) # u /\ Unwritten(update(c)) /\ update(c)' = update(c)
      BY <1>2, <2>1 DEF Once, NextUnwritten, update
    <3>2. update(c) \in repeated' \/ ~Contains(object'.contents, update(c))
      BY <2>2, <3>1 DEF Unwritten
    <3> QED BY <3>1, <3>2 DEF Unwritten
  <2>5. LaterUnwritten'
    <3> SUFFICES ASSUME NEW c \in Callers, NEW n \in Nat, made[c] < n
                 PROVE  ~Contains(object'.contents, <<c, n>>)
      BY DEF LaterUnwritten
    <3>1. <<c, n>> # u
      BY <1>2, <2>1 DEF StorageTypes, Updates
    <3> QED BY <2>2, <3>1 DEF Once, LaterUnwritten
  <2>6. ASSUME NEW q \in late', writes(q) PROVE GivenUp(updateOf(q))'
    <3>1. GivenUp(updateOf(q)) /\ updateOf(q) = u => u \in repeated
      BY <1>2, <2>1, <2>6 DEF Once, LateUnwritten
    <3>2. updateOf(q) \in repeated \/ ~Contains(object'.contents, updateOf(q))
      BY <2>2, <2>6, <3>1 DEF Once, LateUnwritten, GivenUp, Unwritten
    <3> QED BY <2>6, <3>2 DEF Once, LateUnwritten, GivenUp, Unwritten
  <2>7. LateUnwritten' /\ LateApart'
    BY <2>6 DEF Once, LateUnwritten, LateApart
  <2> QED BY <2>3, <2>4, <2>5, <2>7 DEF Once
<1> QED BY <1>1, <1>2

LEMMA OnceNext ==
  ASSUME StorageTypes, Sound, Once, [Next]_vars
  PROVE  Once'
<1>1. ASSUME NEW c \in Callers,
             createIfNotExists(c) \/ read(c) \/ write(c) \/ ReadServed(c) \/ WriteRefused(c) \/ Conflicts(c)
      PROVE  Once'
  <2>1. /\ UNCHANGED <<object, made, repeated, late>> /\ \A d \in Callers \ {c} : UNCHANGED call[d]
        /\ call[c].pc \notin {"lookup", "answered"}
    BY <1>1 DEF createIfNotExists, read, write, mayCreate, mayRead, mayWrite, Send, ReadServed,
       WriteRefused, Conflicts, history, StorageTypes
  <2> QED BY <2>1, OnceWhenKept DEF landed
<1>2. ASSUME NEW c \in Callers, Lookup(c) PROVE Once'
  <2>1. /\ UNCHANGED <<object, made, repeated, late>> /\ \A d \in Callers \ {c} : UNCHANGED call[d]
        /\ call[c] \in CallRecords /\ call'[c] = [call[c] EXCEPT !.pc = "answered", !.answer = version]
    BY <1>2 DEF Lookup, history, StorageTypes
  <2>2. landed(call[c]) => landed(call'[c])
    BY <2>1 DEF landed, writes, CallRecords
  <2> QED BY <2>1, <2>2, OnceWhenKept
<1>3. ASSUME NEW c \in Callers, Repeats(c) PROVE Once'
  <2>1. /\ UNCHANGED <<object, made, late>> /\ \A d \in Callers \ {c} : UNCHANGED call[d]
        /\ repeated' = repeated \cup (IF call[c].op = "write" THEN {update(c)} ELSE {})
    BY <1>3 DEF Repeats, StorageTypes
  <2>2. landed(call[c]) => update(c) \in repeated'
    BY <2>1 DEF landed, writes
  <2> QED BY <2>1, <2>2, OnceWhenKept
<1>4. ASSUME NEW r \in late, LateRefused(r) PROVE Once'
  <2>1. UNCHANGED <<object, made, repeated, call>> /\ late' \subseteq late
    BY <1>4 DEF LateRefused, callerVars, history
  <2> QED BY <2>1, OnceWhenKept
<1>5. ASSUME NEW c \in Callers, Succeeds(c) PROVE Once'
  <2>1. /\ UNCHANGED <<object, repeated, late>> /\ \A d \in Callers \ {c} : UNCHANGED call[d]
        /\ made' = [made EXCEPT ![c] = @ + (IF call[c].op = "write" THEN 1 ELSE 0)]
    BY <1>5 DEF Succeeds, StorageTypes
  <2> QED BY <2>1, OnceWhenEnded
<1>6. ASSUME NEW c \in Callers, Fails(c) PROVE Once'
  <2>1. /\ UNCHANGED <<object, repeated>> /\ \A d \in Callers \ {c} : UNCHANGED call[d]
        /\ made' = [made EXCEPT ![c] = @ + (IF call[c].op = "write" THEN 1 ELSE 0)]
    BY <1>6 DEF Fails, history, StorageTypes
  <2>2. late' = late \/ (late' = late \cup {call[c]} /\ ~landed(call[c]))
    <3>1. late' = late \cup onTheWay(c)
      BY <1>6 DEF Fails
    <3>2. CASE onTheWay(c) = {}
      BY <3>1, <3>2
    <3>3. CASE onTheWay(c) # {}
      BY <3>1, <3>3 DEF onTheWay, landed
    <3> QED BY <3>2, <3>3
  <2> QED BY <2>1, <2>2, OnceWhenEnded
<1>7. ASSUME NEW c \in Callers, WriteServed(c) PROVE Once'
  <2>1. /\ call[c] \in CallRecords /\ holds(call[c]) /\ Land(call[c], Callers \ {c})
        /\ UNCHANGED <<made, repeated, late>> /\ call[c].pc = "sent" /\ call[c].op \in {"create", "write"}
        /\ \A d \in Callers \ {c} : UNCHANGED call[d]
        /\ call'[c] = Served(call[c], call[c].contents, tokenOf(call[c].contents, object.written + 1))
    BY <1>7 DEF WriteServed, StorageTypes
  <2>2. LateSound(object, call[c]) /\ ~landed(call[c]) /\ (writes(call[c]) => landed(call'[c]))
    BY <2>1, UpdateType DEF Sound, LateSound, CallerSound, landed, writes, Served, NewCall
  <2>3. ASSUME writes(call[c])
        PROVE  /\ updateOf(call[c]) = update(c) /\ Unwritten(update(c))
               /\ update(c)[1] = c /\ update(c)[2] = made[c]
    BY <2>2, <2>3, WriteOf DEF Once, NextUnwritten, update
  <2>4. \A d \in Callers : landed(call[d]) => landed(call'[d])
    BY <2>1, <2>2
  <2>5. \A d \in Callers : writes(call[c]) /\ update(d) = updateOf(call[c]) => landed(call'[d])
    BY <2>2, <2>3 DEF update
  <2>6. \A q \in late : writes(call[c]) /\ writes(q) => updateOf(q) # updateOf(call[c])
    BY <2>3 DEF Once, LateUnwritten, GivenUp, StorageTypes
  <2>7. writes(call[c]) =>
          Unwritten(updateOf(call[c])) /\ updateOf(call[c])[2] <= made[updateOf(call[c])[1]]
    BY <2>3 DEF StorageTypes
  <2> QED BY <2>1, <2>2, <2>4, <2>5, <2>6, <2>7, OnceWhenLanded
<1>8. ASSUME NEW r \in late, LateLands(r) PROVE Once'
  <2>1. /\ r \in CallRecords /\ holds(r) /\ Land(r, Callers) /\ late' = late \ {r}
        /\ UNCHANGED <<made, repeated, call>> /\ LateSound(object, r)
    BY <1>8 DEF LateLands, callerVars, StorageTypes, Sound
  <2>2. writes(r) => GivenUp(updateOf(r))
    BY DEF Once, LateUnwritten
  <2>3. ASSUME NEW c \in Callers, writes(r), update(c) = updateOf(r) PROVE FALSE
    <3>1. update(c)[1] = c /\ update(c)[2] = made[c] /\ made[c] \in Nat
      BY DEF update, StorageTypes
    <3> QED BY <2>2, <2>3, <3>1 DEF GivenUp
  <2>4. \A q \in late' : writes(r) /\ writes(q) /\ updateOf(q) = updateOf(r) => updateOf(r) \in repeated
    BY <2>1 DEF Once, LateApart
  <2>5. writes(r) => Unwritten(updateOf(r)) /\ updateOf(r)[2] <= made[updateOf(r)[1]]
    BY <2>2 DEF GivenUp, Updates, StorageTypes
  <2> QED BY <2>1, <2>3, <2>4, <2>5, OnceWhenLanded
<1>9. CASE UNCHANGED vars
  BY <1>9, OnceWhenKept DEF vars, callerVars, history
<1> QED BY <1>1, <1>2, <1>3, <1>4, <1>5, <1>6, <1>7, <1>8, <1>9 DEF Next, Steps, Lates

LEMMA OnceInductive == Spec => []OnceInv
<1>1. Init => OnceInv
  BY TypesInit, SoundInit, OnceInit DEF OnceInv
<1>2. OnceInv /\ [Next]_vars => OnceInv'
  BY TypesNext, SoundNext, OnceNext, RacedStays DEF OnceInv
<1> QED BY <1>1, <1>2, PTL DEF Spec

(* An update is applied twice only if its write was sent again after it    *)
(* had landed (the retries of the client libraries, s3.ts and gcs.ts): a   *)
(* conflict, a failure and a late landing never apply it a second time.    *)
(* On Google Cloud Storage this holds as long as no write has come between *)
(* the two requests of a call (`raced`); on S3 that is always so.          *)
THEOREM OnlyRepeatsDuplicate == Spec => []TwiceOnlyIfRepeated
<1>1. OnceInv => TwiceOnlyIfRepeated
  <2> SUFFICES ASSUME OnceInv, ~raced, NEW i \in DOMAIN object.contents,
                      NEW j \in DOMAIN object.contents,
                      i # j, object.contents[i] = object.contents[j]
               PROVE  object.contents[i] \in repeated
    BY DEF TwiceOnlyIfRepeated
  <2>1. object.contents[i] \in Updates
    BY DEF OnceInv, StorageTypes, Contents, Updates
  <2> QED BY <2>1 DEF OnceInv, Once, EachOnce, OnceIn
<1> QED BY <1>1, OnceInductive, PTL

-----------------------------------------------------------------------------
(* The throttle only delays calls: what it lets happen are behaviours of   *)
(* the backends.                                                           *)
THEOREM ThrottleImplementsBackend == ThrottledSpec => Spec
<1>1. ThrottleInit => Init
  BY DEF ThrottleInit
<1>2. [ThrottleNext]_allVars => [Next]_vars
  BY DEF ThrottleNext, allVars, Tick, acquireRead, acquireWrite, DelayEnds, ForwardUnlessDelayed,
     Forward, Next
<1> QED BY <1>1, <1>2, PTL DEF ThrottledSpec, Spec

(* So no update is lost by throttled callers either.                       *)
THEOREM ThrottledKeepsUpdates == ThrottledSpec => []UpdatesKept
  BY ThrottleImplementsBackend, BackendsKeepUpdates, PTL

-----------------------------------------------------------------------------
(* The statistics of the throttle.                                         *)

ThrottleTypes ==
    /\ limits \in Limits
    /\ clock \in Nat
    /\ bucket \in [Kinds -> [tokens : Nat, lastRefill : Nat]]
    /\ \A k \in Kinds : bucket[k].lastRefill <= clock
    /\ stats \in [Kinds -> [total : Nat, delay : Nat]]
    /\ exempt \in Nat

LEMMA Products == \A m, n \in Nat : m * n \in Nat
  OBVIOUS

LEMMA LimitTypes ==
  ASSUME limits \in Limits, NEW k \in Kinds
  PROVE  limits[k].cost \in Nat /\ capacity(k) \in Nat
<1>1. limits[k].cost \in Nat /\ limits[k].burst \in Nat
  BY LimitsAssumption DEF Kinds, Bucket
<1>2. limits[k].burst * limits[k].cost \in Nat
  BY <1>1, Products
<1> QED BY <1>1, <1>2 DEF capacity

(* What a bucket gives its caller: a token or a delay for the rest of it.  *)
LEMMA BucketTypes ==
  ASSUME ThrottleTypes, NEW k \in Kinds
  PROVE  /\ refill(k) \in Nat /\ left(k) \in Nat /\ delayOf(k) \in Nat
         /\ left(k) + limits[k].cost = refill(k) + delayOf(k)
         /\ refill(k) <= bucket[k].tokens + (clock - bucket[k].lastRefill)
<1>1. bucket[k].tokens \in Nat /\ bucket[k].lastRefill \in Nat /\ clock \in Nat
      /\ bucket[k].lastRefill <= clock
  BY DEF ThrottleTypes
<1>2. refill(k) \in Nat /\ refill(k) <= bucket[k].tokens + (clock - bucket[k].lastRefill)
  BY <1>1, LimitTypes DEF refill, Least, ThrottleTypes
<1> QED BY <1>2, LimitTypes DEF left, delayOf, ThrottleTypes

ThrottleInv == ThrottleTypes /\ DelaysAccounted

LEMMA Distributes == \A m, n \in Int : (m + 1) * n = m * n + n
  OBVIOUS

LEMMA AcquireAccounts ==
  ASSUME ThrottleInv, NEW k \in Kinds, limited(k), NEW c, Acquire(c, k),
         UNCHANGED <<limits, clock, exempt>>
  PROVE  ThrottleInv'
<1>1. ThrottleTypes
  BY DEF ThrottleInv
<1>2. /\ bucket' = [bucket EXCEPT ![k] = [tokens |-> left(k), lastRefill |-> clock]]
      /\ stats' = [stats EXCEPT ![k] =
                     [total |-> stats[k].total + 1, delay |-> stats[k].delay + delayOf(k)]]
  BY <1>1 DEF Acquire, ThrottleTypes
<1>3. ThrottleTypes'
  BY <1>1, <1>2, BucketTypes DEF ThrottleTypes
<1>4. ASSUME NEW j \in Kinds, limited(j)
      PROVE  metered(j)' * limits[j].cost + bucket'[j].tokens
                <= capacity(j) + bucket'[j].lastRefill + stats'[j].delay
  <2>1. metered(j) * limits[j].cost + bucket[j].tokens
           <= capacity(j) + bucket[j].lastRefill + stats[j].delay
    BY <1>4 DEF ThrottleInv, DelaysAccounted
  <2>2. CASE j # k
    BY <1>1, <1>2, <2>1, <2>2 DEF metered, ThrottleTypes
  <2>3. CASE j = k
    <3>1. /\ bucket'[k].tokens = left(k) /\ bucket'[k].lastRefill = clock
          /\ stats'[k].total = stats[k].total + 1 /\ stats'[k].delay = stats[k].delay + delayOf(k)
      BY <1>1, <1>2 DEF ThrottleTypes
    <3>2. metered(k) \in Int /\ metered(k)' = metered(k) + 1
      <4>1. stats[k].total \in Nat /\ exempt \in Nat
        BY <1>1 DEF ThrottleTypes
      <4> QED BY <3>1, <4>1 DEF metered
    <3>3. metered(k)' * limits[k].cost = metered(k) * limits[k].cost + limits[k].cost
          /\ metered(k) * limits[k].cost \in Int
      BY <1>1, <3>2, LimitTypes, Distributes DEF ThrottleTypes
    <3>4. bucket[k].tokens \in Nat /\ bucket[k].lastRefill \in Nat /\ clock \in Nat
          /\ stats[k].delay \in Nat /\ capacity(k) \in Nat /\ limits[k].cost \in Nat
      BY <1>1, LimitTypes DEF ThrottleTypes
    <3> QED BY <1>1, <2>1, <2>3, <3>1, <3>3, <3>4, BucketTypes
  <2> QED BY <2>2, <2>3
<1> QED BY <1>3, <1>4 DEF ThrottleInv, DelaysAccounted, limited, capacity

(* A call that passes unmetered: an unlimited one, or a write within the   *)
(* budget of its day.                                                      *)
LEMMA PassAccounts ==
  ASSUME ThrottleInv, NEW k \in Kinds, Pass(k), UNCHANGED <<limits, clock>>,
         exempt' \in Nat, ~limited(k) \/ (k = "write" /\ exempt' = exempt + 1),
         k = "read" => exempt' = exempt
  PROVE  ThrottleInv'
<1>1. ThrottleTypes
  BY DEF ThrottleInv
<1>2. stats' = [stats EXCEPT ![k].total = stats[k].total + 1] /\ UNCHANGED bucket
  BY <1>1 DEF Pass, ThrottleTypes
<1>3. ThrottleTypes'
  BY <1>1, <1>2 DEF ThrottleTypes
<1>4. ASSUME NEW j \in Kinds, limited(j) PROVE metered(j)' = metered(j) /\ stats'[j].delay = stats[j].delay
  BY <1>1, <1>2, <1>4 DEF metered, ThrottleTypes, Kinds
<1> QED BY <1>2, <1>3, <1>4 DEF ThrottleInv, DelaysAccounted, limited, capacity

LEMMA ThrottleInductive == ThrottledSpec => []ThrottleInv
<1>1. ThrottleInit => ThrottleInv
  <2> SUFFICES ASSUME ThrottleInit PROVE ThrottleInv
    OBVIOUS
  <2>1. limits \in Limits /\ \A k \in Kinds : limits[k].cost \in Nat /\ capacity(k) \in Nat
    BY LimitTypes DEF ThrottleInit
  <2>2. ThrottleTypes
    BY <2>1 DEF ThrottleInit, ThrottleTypes
  <2>3. \A k \in Kinds : metered(k) = 0 /\ bucket[k].tokens = capacity(k)
                         /\ bucket[k].lastRefill = 0 /\ stats[k].delay = 0
    BY DEF ThrottleInit, metered
  <2> QED BY <2>1, <2>2, <2>3 DEF ThrottleInv, DelaysAccounted
<1>2. ThrottleInv /\ [ThrottleNext]_allVars => ThrottleInv'
  <2> SUFFICES ASSUME ThrottleInv, [ThrottleNext]_allVars PROVE ThrottleInv'
    OBVIOUS
  <2>1. ASSUME NEW c \in Callers, acquireRead(c) PROVE ThrottleInv'
    <3>1. "read" \in Kinds /\ exempt' \in Nat /\ UNCHANGED <<limits, clock, exempt>>
      BY <2>1 DEF acquireRead, Kinds, ThrottleInv, ThrottleTypes
    <3>2. CASE limited("read") /\ Acquire(c, "read")
      BY <3>1, <3>2, AcquireAccounts
    <3>3. CASE ~limited("read") /\ Pass("read")
      BY <3>1, <3>3, PassAccounts
    <3> QED BY <2>1, <3>2, <3>3 DEF acquireRead
  <2>2. ASSUME NEW c \in Callers, acquireWrite(c) PROVE ThrottleInv'
    <3>1. /\ "write" \in Kinds /\ UNCHANGED <<limits, clock>> /\ exempt \in Nat
          /\ exempt' = exempt + (IF withinBudget THEN 1 ELSE 0)
      BY <2>2 DEF acquireWrite, Kinds, ThrottleInv, ThrottleTypes
    <3>2. CASE (withinBudget \/ ~limited("write")) /\ Pass("write")
      BY <3>1, <3>2, PassAccounts
    <3>3. CASE ~withinBudget /\ limited("write") /\ Acquire(c, "write")
      BY <3>1, <3>3, AcquireAccounts
    <3> QED BY <2>2, <3>2, <3>3 DEF acquireWrite
  <2>3. CASE clock' \in Nat /\ clock' >= clock /\ UNCHANGED <<limits, bucket, stats, exempt>>
    BY <2>3 DEF ThrottleInv, ThrottleTypes, DelaysAccounted, metered, limited, capacity
  <2>4. ASSUME Tick PROVE ThrottleInv'
    BY <2>3, <2>4 DEF Tick, ThrottleInv, ThrottleTypes
  <2>5. ASSUME UNCHANGED <<clock, limits, bucket, stats, exempt>> PROVE ThrottleInv'
    BY <2>3, <2>5 DEF ThrottleInv, ThrottleTypes
  <2>6. ASSUME NEW c \in Callers, DelayEnds(c) PROVE ThrottleInv'
    BY <2>5, <2>6 DEF DelayEnds
  <2>7. CASE UNCHANGED throttleVars
    BY <2>5, <2>7 DEF throttleVars
  <2> QED BY <2>1, <2>2, <2>4, <2>6, <2>7 DEF ThrottleNext, allVars
<1> QED BY <1>1, <1>2, PTL DEF ThrottledSpec

(* For any limits and callers, the delays that were given pay for every    *)
(* call above the configured rate (throttled.ts, TokenBucket.acquire).     *)
THEOREM ThrottleAccounts == ThrottledSpec => []DelaysAccounted
<1>1. ThrottleInv => DelaysAccounted
  BY DEF ThrottleInv
<1> QED BY <1>1, ThrottleInductive, PTL

-----------------------------------------------------------------------------
(* The daily budget.                                                       *)

dayOf(t) == t \div DayLength

LEMMA DayNumber ==
  ASSUME NEW t \in Nat
  PROVE  dayOf(t) \in Nat /\ startOfUTCDay(t) = dayOf(t) * DayLength
  BY DayAssumption DEF dayOf, startOfUTCDay

LEMMA DaysInOrder ==
  ASSUME NEW t \in Nat, NEW u \in Nat, t <= u
  PROVE  dayOf(t) <= dayOf(u)
  BY DayAssumption DEF dayOf

LEMMA DaysBudget ==
  ASSUME NEW m \in Nat, NEW q \in Nat, NEW p \in Nat, q < p
  PROVE  m * q + m <= m * p
  OBVIOUS

LEMMA DaysApart ==
  ASSUME NEW t \in Nat, NEW q \in Nat, q <= dayOf(t)
  PROVE  startOfUTCDay(t) = q * DayLength <=> q = dayOf(t)
<1> DEFINE p == dayOf(t)
<1>1. p \in Nat /\ startOfUTCDay(t) = p * DayLength
  BY DayNumber
<1> HIDE DEF p
<1>2. ASSUME q < p PROVE p * DayLength # q * DayLength
  <2>1. DayLength * q + DayLength <= DayLength * p
    BY <1>1, <1>2, DayAssumption, DaysBudget
  <2>2. DayLength * q = q * DayLength /\ DayLength * p = p * DayLength
    BY <1>1, DayAssumption
  <2>3. q * DayLength \in Nat /\ p * DayLength \in Nat
    BY <1>1, DayAssumption, Products
  <2> QED BY <2>1, <2>2, <2>3, DayAssumption
<1> QED
  BY <1>1, <1>2 DEF p

\* The writes made since midnight are the ones that have been counted, when
\* any was made; else the count is an earlier day's.
BudgetInv ==
    /\ limits \in Limits /\ clock \in Nat /\ daily.count \in Nat /\ today.made \in Nat
    /\ today.exempt = Least(today.made, limits.perDay)
    /\ \E q \in Nat :
         /\ daily.dayStart = q * DayLength /\ q <= dayOf(clock)
         /\ today.made = IF q = dayOf(clock) THEN daily.count ELSE 0

LEMMA WriteWithinBudget ==
  ASSUME BudgetInv, UNCHANGED <<limits, clock>>,
         daily' = [count |-> countToday, dayStart |-> startOfUTCDay(clock)],
         today' = [made |-> today.made + 1,
                   exempt |-> today.exempt + (IF withinBudget THEN 1 ELSE 0)]
  PROVE  BudgetInv'
<1> DEFINE p == dayOf(clock)
<1>1. /\ limits \in Limits /\ clock \in Nat /\ daily.count \in Nat /\ today.made \in Nat
      /\ limits.perDay \in Nat /\ today.exempt = Least(today.made, limits.perDay)
  BY LimitsAssumption DEF BudgetInv
<1>2. PICK q \in Nat : /\ daily.dayStart = q * DayLength /\ q <= p
                       /\ today.made = IF q = p THEN daily.count ELSE 0
  BY DEF BudgetInv
<1>3. p \in Nat /\ startOfUTCDay(clock) = p * DayLength
  BY <1>1, DayNumber
<1>4. startOfUTCDay(clock) = q * DayLength <=> q = p
  BY <1>1, <1>2, DaysApart
<1> HIDE DEF p
<1>5. countToday = today.made + 1
  BY <1>1, <1>2, <1>4 DEF countToday
<1>6. today'.exempt = Least(today.made + 1, limits.perDay)
  BY <1>1, <1>5 DEF withinBudget, Least
<1>7. /\ daily'.count = today'.made /\ today'.made = today.made + 1
      /\ daily'.dayStart = p * DayLength
  BY <1>3, <1>5
<1> QED BY <1>1, <1>3, <1>6, <1>7 DEF BudgetInv, p

LEMMA MidnightRenews ==
  ASSUME BudgetInv, Tick
  PROVE  BudgetInv'
<1>1. /\ limits \in Limits /\ clock \in Nat /\ daily.count \in Nat /\ today.made \in Nat
      /\ limits.perDay \in Nat /\ today.exempt = Least(today.made, limits.perDay)
      /\ clock' = clock + 1 /\ UNCHANGED <<limits, daily>>
      /\ today' = IF startOfUTCDay(clock + 1) = startOfUTCDay(clock) THEN today ELSE NoWrites
  BY LimitsAssumption DEF BudgetInv, Tick
<1>2. PICK q \in Nat : /\ daily.dayStart = q * DayLength /\ q <= dayOf(clock)
                       /\ today.made = IF q = dayOf(clock) THEN daily.count ELSE 0
  BY DEF BudgetInv
<1>3. /\ dayOf(clock) \in Nat /\ dayOf(clock + 1) \in Nat /\ dayOf(clock) <= dayOf(clock + 1)
      /\ startOfUTCDay(clock) = dayOf(clock) * DayLength
  BY <1>1, DayNumber, DaysInOrder
<1>4. startOfUTCDay(clock + 1) = startOfUTCDay(clock) <=> dayOf(clock) = dayOf(clock + 1)
  BY <1>1, <1>3, DaysApart
<1>5. today'.made = IF q = dayOf(clock') THEN daily'.count ELSE 0
  BY <1>1, <1>2, <1>3, <1>4 DEF NoWrites
<1>6. today'.exempt = Least(today'.made, limits'.perDay) /\ today'.made \in Nat
  BY <1>1 DEF NoWrites, Least
<1>7. q <= dayOf(clock')
  BY <1>1, <1>2, <1>3
<1> QED BY <1>1, <1>2, <1>5, <1>6, <1>7 DEF BudgetInv

LEMMA BudgetInductive == ThrottledSpec => []BudgetInv
<1>1. ThrottleInit => BudgetInv
  <2> SUFFICES ASSUME ThrottleInit PROVE BudgetInv
    OBVIOUS
  <2>1. limits.perDay \in Nat /\ dayOf(clock) \in Nat
    BY LimitsAssumption, DayNumber DEF ThrottleInit
  <2>2. daily.dayStart = 0 * DayLength /\ daily.count = 0
    BY DayAssumption DEF ThrottleInit
  <2>3. today.made = 0 /\ today.exempt = Least(0, limits.perDay)
    BY <2>1 DEF ThrottleInit, NoWrites, Least
  <2> QED BY <2>1, <2>2, <2>3 DEF ThrottleInit, BudgetInv
<1>2. BudgetInv /\ [ThrottleNext]_allVars => BudgetInv'
  <2> SUFFICES ASSUME BudgetInv, [ThrottleNext]_allVars PROVE BudgetInv'
    OBVIOUS
  <2>1. ASSUME NEW c \in Callers, acquireWrite(c) PROVE BudgetInv'
    BY <2>1, WriteWithinBudget DEF acquireWrite
  <2>2. ASSUME UNCHANGED <<limits, clock, daily, today>> PROVE BudgetInv'
    BY <2>2 DEF BudgetInv, dayOf
  <2>3. ASSUME Tick PROVE BudgetInv'
    BY <2>3, MidnightRenews
  <2>4. ASSUME NEW c \in Callers, acquireRead(c) \/ DelayEnds(c) PROVE BudgetInv'
    BY <2>2, <2>4 DEF acquireRead, DelayEnds
  <2>5. CASE UNCHANGED throttleVars
    BY <2>2, <2>5 DEF throttleVars
  <2> QED BY <2>1, <2>3, <2>4, <2>5 DEF ThrottleNext, allVars
<1> QED BY <1>1, <1>2, PTL DEF ThrottledSpec

(* For any budget and on every day, the first writes up to the budget pass *)
(* without a token, and no others (throttled.ts,                           *)
(* ThrottledStorageBackend.acquireWrite).                                  *)
THEOREM ThrottleKeepsBudget == ThrottledSpec => []BudgetKept
  BY BudgetInductive, PTL DEF BudgetInv, BudgetKept
=============================================================================
