------------------------ MODULE MigrationMedia_proofs ------------------------
(* MigrationMedia: its columns keep their values, the user's edits stay, and *)
(* in the end no stored picture is forgotten, for any number of pictures,    *)
(* packages and workers.                                                     *)
EXTENDS MigrationMedia, WellFoundedInduction, TLAPS

States == {"pending", "attached", "overflow", "detached"}

Houses == [value : SUBSET Refs,
           originals : [Records -> SUBSET Refs],
           expected : [Records -> {None} \cup SUBSET Refs],
           binding : [Records -> [Assets -> States]]]

\* What is decided of a stored picture: it is in the field, beyond its limit, or detached.
SettledIn(h, r, x) ==
    \/ h.binding[r][x] = "attached" /\ x \in h.expected[r]
    \/ h.binding[r][x] = "overflow" /\ x \notin h.expected[r]
    \/ h.binding[r][x] = "detached"

\* Attaching a for record r settles a, and leaves settled what was.
Settles(h, k, r, a, stored) ==
    \A x \in stored : x = a \/ SettledIn(h, r, x) => SettledIn(k, r, x)

SameRecord(h, k, r) == k.expected[r] = h.expected[r] /\ k.binding[r] = h.binding[r]

\* The user has changed the field since every import.
Edited(h) == \A r \in final : h.expected[r] # h.value

-----------------------------------------------------------------------------
(* One record.                                                              *)

LEMMA AttachedTyped ==
    ASSUME NEW h \in Houses, NEW r \in Records, NEW a, NEW stored \in SUBSET Assets, NEW force
    PROVE  Attached(h, r, a, stored, force) \in Houses
<1> DEFINE old == IF force THEN h.value ELSE h.originals[r]
           adds == {x \in stored : h.binding[r][x] # "detached"}
           new == {x \in adds \ old :
                     Cardinality(old) + Cardinality({y \in adds \ old : y < x}) < Limit}
<1>1. old \subseteq Refs /\ new \subseteq Refs
  BY DEF Houses, Refs
<1>2. CASE r \notin final \/ h.binding[r][a] = "detached"
  BY <1>2 DEF Attached
<1>3. CASE ~(r \notin final \/ h.binding[r][a] = "detached") /\ ~force /\ h.expected[r] # h.value
  <2> DEFINE b == [x \in Assets |-> "detached"]
  <2>1. Attached(h, r, a, stored, force) = [h EXCEPT !.binding[r] = b]
    BY <1>3 DEF Attached
  <2>2. b \in [Assets -> States]
    BY DEF States
  <2> HIDE DEF b
  <2>3. [h.binding EXCEPT ![r] = b] \in [Records -> [Assets -> States]]
    BY <2>2 DEF Houses
  <2>4. [h EXCEPT !.binding[r] = b] = [h EXCEPT !.binding = [h.binding EXCEPT ![r] = b]]
    BY DEF Houses
  <2> QED
    BY <2>1, <2>3, <2>4 DEF Houses
<1>4. CASE /\ ~(r \notin final \/ h.binding[r][a] = "detached")
           /\ ~(~force /\ h.expected[r] # h.value)
  <2> DEFINE b == [x \in Assets |-> IF x \notin adds THEN h.binding[r][x]
                                    ELSE IF x \in old \cup new THEN "attached" ELSE "overflow"]
  <2>1. Attached(h, r, a, stored, force)
          = [value |-> old \cup new,
             originals |-> [h.originals EXCEPT ![r] = old],
             expected |-> [h.expected EXCEPT ![r] = old \cup new],
             binding |-> [h.binding EXCEPT ![r] = b]]
    BY <1>4 DEF Attached
  <2>2. b \in [Assets -> States]
    BY DEF Houses, States
  <2> HIDE DEF old, new, b
  <2> QED
    BY <1>1, <2>1, <2>2 DEF Houses
<1> QED
  BY <1>2, <1>3, <1>4

LEMMA AttachedElsewhere ==
    ASSUME NEW h \in Houses, NEW r \in Records, NEW a, NEW stored, NEW force,
           NEW q \in Records, q # r
    PROVE  SameRecord(h, Attached(h, r, a, stored, force), q)
BY DEF Attached, SameRecord, Houses

LEMMA AttachedHere ==
    ASSUME NEW h \in Houses, NEW r \in Records, r \in final, NEW a \in Assets,
           NEW stored \in SUBSET Assets, NEW force
    PROVE  Settles(h, Attached(h, r, a, stored, force), r, a, stored)
<1> DEFINE old == IF force THEN h.value ELSE h.originals[r]
           adds == {x \in stored : h.binding[r][x] # "detached"}
           new == {x \in adds \ old :
                     Cardinality(old) + Cardinality({y \in adds \ old : y < x}) < Limit}
           k == Attached(h, r, a, stored, force)
<1>1. CASE h.binding[r][a] = "detached"
  BY <1>1 DEF Attached, Settles, SettledIn
<1>2. CASE h.binding[r][a] # "detached" /\ ~force /\ h.expected[r] # h.value
  <2>1. k.binding[r] = [x \in Assets |-> "detached"]
    BY <1>2 DEF Attached, Houses
  <2> QED
    BY <2>1 DEF Settles, SettledIn
<1>3. CASE h.binding[r][a] # "detached" /\ ~(~force /\ h.expected[r] # h.value)
  <2> DEFINE b == [x \in Assets |-> IF x \notin adds THEN h.binding[r][x]
                                    ELSE IF x \in old \cup new THEN "attached" ELSE "overflow"]
  <2>1. k = [value |-> old \cup new,
             originals |-> [h.originals EXCEPT ![r] = old],
             expected |-> [h.expected EXCEPT ![r] = old \cup new],
             binding |-> [h.binding EXCEPT ![r] = b]]
    BY <1>3 DEF Attached
  <2>2. k.binding[r] = b /\ k.expected[r] = old \cup new
    <3> HIDE DEF old, new, b, k
    <3> QED
      BY <2>1 DEF Houses
  <2>3. ASSUME NEW x \in stored PROVE SettledIn(k, r, x)
    <3>1. CASE x \in adds
      <4>1. b[x] = IF x \in old \cup new THEN "attached" ELSE "overflow"
        BY <3>1
      <4> HIDE DEF old, new, b, k
      <4> QED
        BY <2>2, <4>1 DEF SettledIn
    <3>2. CASE x \notin adds
      <4>1. b[x] = "detached"
        BY <3>2
      <4> HIDE DEF b, k
      <4> QED
        BY <2>2, <4>1 DEF SettledIn
    <3> QED
      BY <3>1, <3>2
  <2> QED
    BY <2>3 DEF Settles
<1> QED
  BY <1>1, <1>2, <1>3

\* A field the user has edited is left alone.
LEMMA AttachedEdited ==
    ASSUME NEW h \in Houses, Edited(h), NEW r \in Records, NEW a, NEW stored,
           NEW force \in BOOLEAN, ~force
    PROVE  /\ Attached(h, r, a, stored, force).value = h.value
           /\ Attached(h, r, a, stored, force).expected = h.expected
BY DEF Attached, Edited, Houses

-----------------------------------------------------------------------------
(* The records in turn.                                                     *)

LEMMA Least ==
    ASSUME NEW B, B \subseteq Nat, B # {}
    PROVE  \E m \in B : \A k \in B : ~(k < m)
<1>1. PICK m \in B : \A k \in B : <<k, m>> \notin OpToRel(<, Nat)
  BY WFMin, NatLessThanWellFounded, Zenon
<1> QED
  BY <1>1 DEF OpToRel

Turns(g, n, h, a, stored, force) ==
    g = [r \in 0..n |-> IF r = 0 THEN h ELSE Attached(g[r - 1], r, a, stored, force)]

LEMMA TurnsExist ==
    ASSUME NEW h, NEW a, NEW stored, NEW force, NEW n \in Nat
    PROVE  \E g : Turns(g, n, h, a, stored, force)
<1> DEFINE B == {m \in Nat : ~\E g : Turns(g, m, h, a, stored, force)}
<1>1. SUFFICES ASSUME B # {} PROVE FALSE
  OBVIOUS
<1>2. PICK m \in B : \A k \in B : ~(k < m)
  <2>1. B \subseteq Nat
    OBVIOUS
  <2> HIDE DEF B
  <2> QED
    BY <1>1, <2>1, Least
<1>3. CASE m = 0
  <2> DEFINE g == [r \in 0..0 |-> h]
  <2>1. Turns(g, 0, h, a, stored, force)
    BY DEF Turns
  <2> QED
    BY <1>2, <1>3, <2>1
<1>4. CASE m # 0
  <2>1. m - 1 \in Nat /\ m - 1 < m /\ m \in Nat
    BY <1>4
  <2>2. PICK f : Turns(f, m - 1, h, a, stored, force)
    BY <1>2, <2>1
  <2> DEFINE step(r, x) == IF r = 0 THEN h ELSE Attached(x, r, a, stored, force)
             g == [r \in 0..m |-> step(r, f[r - 1])]
  <2>3. f = [r \in 0..(m - 1) |-> step(r, f[r - 1])]
    BY <2>2 DEF Turns
  <2> HIDE DEF step
  <2>4. \A r \in 0..(m - 1) : g[r] = f[r]
    BY <2>1, <2>3
  <2>5. \A r \in 0..m : r = 0 \/ r - 1 \in 0..(m - 1)
    BY <2>1
  <2>6. \A r \in 0..m : step(r, f[r - 1]) = step(r, g[r - 1])
    BY <2>4, <2>5 DEF step
  <2>7. g = [r \in 0..m |-> step(r, g[r - 1])]
    BY <2>6
  <2>8. Turns(g, m, h, a, stored, force)
    BY <2>7 DEF Turns, step
  <2> QED
    BY <1>2, <2>8
<1> QED
  BY <1>3, <1>4

LEMMA AfterEachTurns ==
    ASSUME NEW h, NEW a, NEW stored, NEW force
    PROVE  Turns(AfterEach(h, a, stored, force), RecordCount, h, a, stored, force)
<1>1. \E g : Turns(g, RecordCount, h, a, stored, force)
  BY TurnsExist, Bounds
<1> QED
  BY <1>1 DEF Turns, AfterEach

\* What all records in turn make of the house.
LEMMA AttachedToAll ==
    ASSUME NEW h \in Houses, NEW a \in Assets, NEW stored \in SUBSET Assets,
           NEW force \in BOOLEAN
    PROVE  LET k == AfterEach(h, a, stored, force)[RecordCount]
           IN  /\ k \in Houses
               /\ \A r \in Records \cap final : Settles(h, k, r, a, stored)
               /\ ~force /\ Edited(h) => k.value = h.value /\ k.expected = h.expected
<1> DEFINE g == AfterEach(h, a, stored, force)
           Good(n) ==
               /\ g[n] \in Houses
               /\ \A r \in Records : r > n => SameRecord(h, g[n], r)
               /\ \A r \in Records \cap final : r <= n => Settles(h, g[n], r, a, stored)
               /\ ~force /\ Edited(h) => g[n].value = h.value /\ g[n].expected = h.expected
           B == {n \in 0..RecordCount : ~Good(n)}
<1>1. /\ RecordCount \in Nat
      /\ g = [r \in 0..RecordCount |->
                IF r = 0 THEN h ELSE Attached(g[r - 1], r, a, stored, force)]
  BY AfterEachTurns, Bounds DEF Turns
<1>2. B = {}
  <2> SUFFICES ASSUME B # {} PROVE FALSE
    OBVIOUS
  <2>1. PICK n \in B : \A k \in B : ~(k < n)
    <3>1. B \subseteq Nat
      BY <1>1
    <3> HIDE DEF B
    <3> QED
      BY <3>1, Least
  <2>2. CASE n = 0
    <3>1. g[0] = h
      BY <1>1
    <3>2. \A r \in Records : ~(r <= 0)
      BY DEF Records
    <3>3. Good(0)
      BY <3>1, <3>2 DEF SameRecord
    <3> QED
      BY <2>1, <2>2, <3>3
  <2>3. CASE n # 0
    <3> DEFINE f == g[n - 1]
    <3>1. n \in Records /\ n - 1 \in 0..RecordCount /\ n - 1 < n
      BY <1>1, <2>3 DEF Records
    <3>2. Good(n - 1)
      BY <2>1, <3>1
    <3>3. g[n] = Attached(f, n, a, stored, force)
      BY <1>1, <3>1 DEF Records
    <3> HIDE DEF g
    <3>4. g[n] \in Houses
      BY <3>1, <3>2, <3>3, AttachedTyped
    <3>5. \A r \in Records : r # n => SameRecord(f, g[n], r)
      BY <3>1, <3>2, <3>3, AttachedElsewhere
    <3>6. \A r \in Records : r > n => SameRecord(h, g[n], r)
      <4>1. \A r \in Records : r > n => r # n /\ r > n - 1
        BY <3>1 DEF Records
      <4> QED
        BY <3>2, <3>5, <4>1 DEF SameRecord
    <3>7. ASSUME NEW r \in Records \cap final, r <= n PROVE Settles(h, g[n], r, a, stored)
      <4>1. CASE r = n
        <5>1. Settles(f, g[n], r, a, stored)
          BY <3>2, <3>3, <3>7, <4>1, AttachedHere
        <5>2. SameRecord(h, f, r)
          BY <3>1, <3>2, <4>1
        <5> QED
          BY <5>1, <5>2 DEF Settles, SettledIn, SameRecord
      <4>2. CASE r # n
        <5>1. r <= n - 1
          BY <3>1, <3>7, <4>2 DEF Records
        <5>2. Settles(h, f, r, a, stored) /\ SameRecord(f, g[n], r)
          BY <3>2, <3>5, <3>7, <4>2, <5>1
        <5> QED
          BY <5>2 DEF Settles, SettledIn, SameRecord
      <4> QED
        BY <4>1, <4>2
    <3>8. ASSUME ~force, Edited(h) PROVE g[n].value = h.value /\ g[n].expected = h.expected
      <4>1. Edited(f) /\ f.value = h.value /\ f.expected = h.expected
        BY <3>2, <3>8 DEF Edited
      <4>2. f \in Houses
        BY <3>2
      <4> HIDE DEF f
      <4>3. g[n].value = f.value /\ g[n].expected = f.expected
        BY <3>1, <3>3, <3>8, <4>1, <4>2, AttachedEdited
      <4> QED
        BY <4>1, <4>3
    <3> QED
      <4>1. Good(n)
        <5> HIDE DEF f
        <5> QED
          BY <3>4, <3>6, <3>7, <3>8
      <4> QED
        BY <2>1, <4>1
  <2> QED
    BY <2>2, <2>3
<1>3. Good(RecordCount)
  <2>1. RecordCount \in 0..RecordCount
    BY <1>1
  <2> HIDE DEF Good
  <2> QED
    BY <1>2, <2>1
<1>4. \A r \in Records : r <= RecordCount
  BY <1>1 DEF Records
<1> HIDE DEF g
<1>5. \A r \in Records \cap final : Settles(h, g[RecordCount], r, a, stored)
  BY <1>3, <1>4
<1> QED
  BY <1>3, <1>5 DEF g

-----------------------------------------------------------------------------
(* The steps that attach.                                                   *)

HouseTypeOK ==
    /\ value \subseteq Refs
    /\ originals \in [Records -> SUBSET Refs]
    /\ expected \in [Records -> {None} \cup SUBSET Refs]
    /\ binding \in [Records -> [Assets -> States]]

LEMMA HouseTyped == TypeOK => House \in Houses
BY DEF TypeOK, House, Houses, States

Settled(r, x) == SettledIn(House, r, x)

LEMMA AttachFromDoes ==
    ASSUME NEW h \in Houses, NEW a \in Assets, NEW stored \in SUBSET Assets,
           NEW force \in BOOLEAN, AttachFrom(h, a, stored, force)
    PROVE  /\ HouseTypeOK'
           /\ \A r \in Records \cap final, x \in stored :
                 x = a \/ SettledIn(h, r, x) => Settled(r, x)'
           /\ ~force /\ Edited(h) => value' = h.value /\ expected' = h.expected
<1> DEFINE k == AfterEach(h, a, stored, force)[RecordCount]
<1>1. /\ k \in Houses
      /\ \A r \in Records \cap final : Settles(h, k, r, a, stored)
      /\ ~force /\ Edited(h) => k.value = h.value /\ k.expected = h.expected
  BY AttachedToAll
<1>2. value' = k.value /\ originals' = k.originals /\ expected' = k.expected /\ binding' = k.binding
  BY DEF AttachFrom
<1> HIDE DEF k
<1>3. HouseTypeOK'
  BY <1>1, <1>2 DEF HouseTypeOK, Houses
<1>4. \A r, x : Settled(r, x)' <=> SettledIn(k, r, x)
  BY <1>2 DEF Settled, House, SettledIn
<1> QED
  BY <1>1, <1>2, <1>3, <1>4 DEF Settles

LEMMA AttachAssetDoes ==
    ASSUME TypeOK, NEW a \in Assets, AttachAsset(a)
    PROVE  /\ HouseTypeOK' /\ kept' = kept
           /\ \A r \in Records \cap final, x \in Stored :
                 x = a \/ Settled(r, x) => Settled(r, x)'
           /\ (\A r \in final : expected[r] # value) => value' = value /\ expected' = expected
<1>1. House \in Houses /\ Stored \in SUBSET Assets /\ AttachFrom(House, a, Stored, FALSE)
  BY HouseTyped DEF AttachAsset, Stored
<1>2. /\ HouseTypeOK'
      /\ \A r \in Records \cap final, x \in Stored :
            x = a \/ SettledIn(House, r, x) => Settled(r, x)'
      /\ Edited(House) => value' = House.value /\ expected' = House.expected
  BY <1>1, AttachFromDoes
<1>3. /\ Edited(House) <=> \A r \in final : expected[r] # value
      /\ House.value = value /\ House.expected = expected
  BY DEF Edited, House
<1> QED
  BY <1>2, <1>3 DEF AttachAsset, Settled

LEMMA ForceAttachDoes ==
    ASSUME TypeOK, NEW a \in Assets, ForceAttach(a)
    PROVE  /\ HouseTypeOK'
           /\ \A r \in Records \cap final, x \in Stored \cup {a} :
                 x = a \/ Settled(r, x) => Settled(r, x)'
<1> DEFINE b == Reopened(a)
           h == [House EXCEPT !.binding = b]
<1>1. /\ b \in [Records -> [Assets -> States]]
      /\ \A r \in Records, x \in Assets : x # a => b[r][x] = binding[r][x]
  BY DEF TypeOK, States, Reopened
<1>2. AttachFrom(h, a, Stored \cup {a}, TRUE)
  BY DEF ForceAttach
<1> HIDE DEF b
<1>3. h \in Houses
  BY <1>1, HouseTyped DEF Houses
<1>4. Stored \cup {a} \in SUBSET Assets
  BY DEF Stored
<1>5. \A r \in Records, x \in Assets : x # a /\ Settled(r, x) => SettledIn(h, r, x)
  BY <1>1 DEF Settled, SettledIn, House
<1> HIDE DEF h
<1>6. /\ HouseTypeOK'
      /\ \A r \in Records \cap final, x \in Stored \cup {a} :
            x = a \/ SettledIn(h, r, x) => Settled(r, x)'
  BY <1>2, <1>3, <1>4, AttachFromDoes
<1> QED
  BY <1>4, <1>5, <1>6

-----------------------------------------------------------------------------
(* Type correctness.                                                        *)

CopyTypeOK ==
    /\ asset \in [Assets -> [status : {"pending", "processing", "succeeded", "failed"},
                             token : Workers \cup {None}]]
    /\ worker \in [Workers -> {Idle} \cup [does : {"copy", "attach"}, asset : Assets]]
    /\ messages \subseteq Assets /\ rereading \subseteq Assets
    /\ \A a \in Assets : asset[a].status = "processing" <=> asset[a].token # None

ImportTypeOK ==
    /\ final \subseteq Records /\ cut \subseteq final
    /\ finishing \in [Records -> {{None}} \cup SUBSET Assets]
    /\ \A r \in Records : finishing[r] # {} => r \in final

LEMMA TypeParts ==
    /\ TypeOK <=> /\ HouseTypeOK /\ CopyTypeOK /\ ImportTypeOK
                  /\ kept \in {None} \cup SUBSET Refs /\ events \in 0..MaxEvents
    /\ TypeOK' <=> /\ HouseTypeOK' /\ CopyTypeOK' /\ ImportTypeOK'
                   /\ kept' \in {None} \cup SUBSET Refs /\ events' \in 0..MaxEvents
BY DEF TypeOK, HouseTypeOK, CopyTypeOK, ImportTypeOK, States

\* A new state of one asset.
LEMMA AssetTyped ==
    ASSUME CopyTypeOK, NEW a \in Assets,
           NEW s \in {"pending", "processing", "succeeded", "failed"},
           NEW t \in Workers \cup {None}, s = "processing" <=> t # None, SetAsset(a, s, t),
           worker' \in [Workers -> {Idle} \cup [does : {"copy", "attach"}, asset : Assets]],
           messages' \subseteq Assets, rereading' \subseteq Assets
    PROVE  CopyTypeOK'
BY DEF CopyTypeOK, SetAsset

LEMMA EventsTyped ==
    ASSUME events \in 0..MaxEvents, Happens \/ UNCHANGED events
    PROVE  events' \in 0..MaxEvents
BY Bounds DEF Happens

LEMMA CopyStepTyped ==
    ASSUME CopyTypeOK, NEW w \in Workers, CopyStored(w) \/ CopyFails(w)
    PROVE  CopyTypeOK'
<1> DEFINE a == worker[w].asset
<1>1. worker[w] \in [does : {"copy", "attach"}, asset : Assets] /\ a \in Assets
  BY DEF CopyTypeOK, CopyStored, CopyFails, Idle
<1>2. PICK s \in {"succeeded", "failed", "pending"} : Result(w, s)
  BY DEF CopyStored, CopyFails
<1>3. worker' \in [Workers -> {Idle} \cup [does : {"copy", "attach"}, asset : Assets]]
  BY <1>1 DEF CopyTypeOK, CopyStored, CopyFails
<1>4. messages' \subseteq Assets /\ rereading' \subseteq Assets
  BY DEF CopyTypeOK, CopyStored, CopyFails
<1>5. CASE UNCHANGED asset
  BY <1>3, <1>4, <1>5 DEF CopyTypeOK
<1>6. CASE SetAsset(a, s, None)
  BY <1>1, <1>3, <1>4, <1>6, AssetTyped
<1> QED
  BY <1>2, <1>5, <1>6 DEF Result

LEMMA TakeTyped ==
    ASSUME CopyTypeOK, NEW w \in Workers, NEW a \in Assets, Take(w, a),
           messages' \subseteq messages, rereading' = rereading
    PROVE  CopyTypeOK'
<1>1. worker' \in [Workers -> {Idle} \cup [does : {"copy", "attach"}, asset : Assets]]
  BY DEF Take, CopyTypeOK
<1>2. w # None /\ messages' \subseteq Assets /\ rereading' \subseteq Assets
  BY NoneIsNothing DEF CopyTypeOK
<1> QED
  BY <1>1, <1>2, AssetTyped DEF Take

LEMMA StepTyped == TypeOK /\ [Next]_vars => TypeOK'
<1> SUFFICES ASSUME TypeOK, [Next]_vars PROVE TypeOK'
  OBVIOUS
<1>1. /\ HouseTypeOK /\ CopyTypeOK /\ ImportTypeOK
      /\ kept \in {None} \cup SUBSET Refs /\ events \in 0..MaxEvents
  BY TypeParts
<1>2. ASSUME UNCHANGED house PROVE HouseTypeOK' /\ kept' \in {None} \cup SUBSET Refs
  BY <1>1, <1>2 DEF house, HouseTypeOK
<1>3. ASSUME UNCHANGED copies PROVE CopyTypeOK'
  BY <1>1, <1>3 DEF copies, CopyTypeOK
<1>4. ASSUME UNCHANGED imports PROVE ImportTypeOK'
  BY <1>1, <1>4 DEF imports, ImportTypeOK
<1>5. ASSUME NEW a \in Assets, AttachAsset(a)
      PROVE  HouseTypeOK' /\ kept' \in {None} \cup SUBSET Refs
  BY <1>1, <1>5, AttachAssetDoes
<1>6. ASSUME NEW r \in Records, ImportRecord(r) \/ ListAssets(r) \/ CutShort(r)
      PROVE  TypeOK'
  <2>1. ImportTypeOK'
    <3>1. CASE ImportRecord(r)
      BY <1>1, <3>1 DEF ImportRecord, ImportTypeOK
    <3>2. CASE ListAssets(r)
      BY <1>1, <3>2 DEF ListAssets, Stored, ImportTypeOK
    <3>3. CASE CutShort(r)
      BY <1>1, <3>3 DEF CutShort, ImportTypeOK
    <3> QED
      BY <1>6, <3>1, <3>2, <3>3
  <2>2. events' \in 0..MaxEvents
    BY <1>1, <1>6, EventsTyped DEF ImportRecord, ListAssets, CutShort
  <2>3. HouseTypeOK' /\ kept' \in {None} \cup SUBSET Refs
    BY <1>1, <1>2, <1>6 DEF ImportRecord, ListAssets, CutShort, HouseTypeOK
  <2>4. CopyTypeOK'
    BY <1>3, <1>6 DEF ImportRecord, ListAssets, CutShort
  <2> QED
    BY <2>1, <2>2, <2>3, <2>4, TypeParts
<1>7. ASSUME NEW r \in Records, NEW a \in Assets, AttachListed(r, a) PROVE TypeOK'
  <2>1. ImportTypeOK'
    BY <1>1, <1>7 DEF AttachListed, ImportTypeOK
  <2> QED
    BY <1>1, <1>3, <1>5, <1>7, <2>1, TypeParts DEF AttachListed
<1>8. ASSUME NEW w \in Workers, CopyStored(w) \/ CopyFails(w) PROVE TypeOK'
  BY <1>1, <1>2, <1>4, <1>8, CopyStepTyped, TypeParts DEF CopyStored, CopyFails
<1>9. ASSUME NEW w \in Workers, Attach(w) PROVE TypeOK'
  <2>1. worker[w].asset \in Assets
    BY <1>1, <1>9 DEF Attach, CopyTypeOK, Idle
  <2>2. CopyTypeOK'
    BY <1>1, <1>9 DEF Attach, CopyTypeOK
  <2> QED
    BY <1>1, <1>4, <1>5, <1>9, <2>1, <2>2, TypeParts DEF Attach
<1>10. ASSUME NEW w \in Workers, Crash(w) PROVE TypeOK'
  <2>1. CopyTypeOK'
    BY <1>1, <1>10 DEF Crash, CopyTypeOK
  <2> QED
    BY <1>1, <1>2, <1>4, <1>10, <2>1, EventsTyped, TypeParts DEF Crash
<1>11. ASSUME NEW w \in Workers, NEW a \in Assets, Claim(w, a) PROVE TypeOK'
  <2>1. CopyTypeOK'
    BY <1>1, <1>11, TakeTyped DEF Claim
  <2> QED
    BY <1>1, <1>2, <1>4, <1>11, <2>1, TypeParts DEF Claim
<1>12. ASSUME NEW w \in Workers, NEW a \in Assets, Redelivered(w, a) PROVE TypeOK'
  <2>1. /\ messages' \subseteq messages /\ rereading' = rereading
        /\ UNCHANGED imports /\ UNCHANGED events
        /\ \/ AttachAsset(a) /\ UNCHANGED <<asset, worker>>
           \/ Take(w, a) /\ UNCHANGED house
           \/ UNCHANGED <<house, asset, worker>>
    BY <1>12 DEF Redelivered
  <2>2. CopyTypeOK'
    <3>1. CASE UNCHANGED <<asset, worker>>
      BY <1>1, <2>1, <3>1 DEF CopyTypeOK
    <3> QED
      BY <1>1, <2>1, <3>1, TakeTyped
  <2>3. HouseTypeOK' /\ kept' \in {None} \cup SUBSET Refs
    BY <1>2, <1>5, <2>1
  <2> QED
    BY <1>1, <1>4, <2>1, <2>2, <2>3, TypeParts
<1>13. ASSUME NEW a \in Assets, Recover(a) \/ RetryCopy(a) \/ SaveFailed(a) PROVE TypeOK'
  <2>1. CopyTypeOK'
    <3>1. /\ SetAsset(a, "pending", None) /\ UNCHANGED <<worker, messages>>
          /\ rereading' \subseteq rereading
      BY <1>13 DEF Recover, RetryCopy, SaveFailed
    <3>2. /\ worker' \in [Workers -> {Idle} \cup [does : {"copy", "attach"}, asset : Assets]]
          /\ messages' \subseteq Assets /\ rereading' \subseteq Assets
      BY <1>1, <3>1 DEF CopyTypeOK
    <3> QED
      BY <1>1, <3>1, <3>2, AssetTyped
  <2>2. events' \in 0..MaxEvents
    BY <1>1, <1>13, EventsTyped DEF Recover, RetryCopy, SaveFailed
  <2> QED
    BY <1>2, <1>4, <1>13, <2>1, <2>2, TypeParts DEF Recover, RetryCopy, SaveFailed
<1>14. ASSUME NEW a \in Assets, ForceAttach(a) PROVE TypeOK'
  <2>1. CopyTypeOK'
    <3>1. SetAsset(a, "succeeded", None) /\ UNCHANGED <<worker, messages, rereading>>
      BY <1>14 DEF ForceAttach
    <3>2. /\ worker' \in [Workers -> {Idle} \cup [does : {"copy", "attach"}, asset : Assets]]
          /\ messages' \subseteq Assets /\ rereading' \subseteq Assets
      BY <1>1, <3>1 DEF CopyTypeOK
    <3> QED
      BY <1>1, <3>1, <3>2, AssetTyped
  <2>2. HouseTypeOK'
    BY <1>14, ForceAttachDoes
  <2> QED
    BY <1>1, <1>4, <1>14, <2>1, <2>2, EventsTyped, TypeParts DEF ForceAttach
<1>15. ASSUME NEW v \in SUBSET Refs, EditField(v) PROVE TypeOK'
  <2>1. HouseTypeOK' /\ kept' \in {None} \cup SUBSET Refs
    BY <1>1, <1>15 DEF EditField, HouseTypeOK
  <2> QED
    BY <1>1, <1>3, <1>4, <1>15, <2>1, EventsTyped, TypeParts DEF EditField
<1>16. CASE RetryFailed
  <2>1. CopyTypeOK'
    BY <1>1, <1>16 DEF RetryFailed, CopyTypeOK
  <2> QED
    BY <1>1, <1>2, <1>4, <1>16, <2>1, EventsTyped, TypeParts DEF RetryFailed
<1>17. CASE UNCHANGED vars
  BY <1>1, <1>2, <1>3, <1>4, <1>17, TypeParts DEF vars
<1> QED
  BY <1>6, <1>7, <1>8, <1>9, <1>10, <1>11, <1>12, <1>13, <1>14, <1>15, <1>16, <1>17
  DEF Next, Step

LEMMA InitTyped == Init => TypeOK
BY Bounds DEF Init, TypeOK, Refs, Idle

\* Every column holds a value it can hold, and an asset has a token exactly while it
\* is being copied, however leases run out and messages come again.
THEOREM TypeCorrect == Spec => []TypeOK
BY InitTyped, StepTyped, PTL DEF Spec

-----------------------------------------------------------------------------
(* The user's edits.                                                        *)

\* While an edit is to be kept, the field is not as any import left it, which is what
\* attaching compares.
EditInv == kept # None => value = kept /\ \A r \in final : expected[r] # value

LEMMA AttachKeepsEdit ==
    ASSUME TypeOK, EditInv, NEW a \in Assets, AttachAsset(a), UNCHANGED final
    PROVE  EditInv'
BY AttachAssetDoes DEF EditInv

LEMMA StepEdit ==
    ASSUME TypeOK, EditInv, [Next]_vars
    PROVE  EditInv'
<1>1. ASSUME UNCHANGED <<value, expected, kept, final>> PROVE EditInv'
  BY <1>1 DEF EditInv
<1>2. ASSUME NEW r \in Records, ImportRecord(r) PROVE EditInv'
  BY <1>2 DEF ImportRecord, EditInv
<1>3. ASSUME NEW r \in Records, NEW a \in Assets, AttachListed(r, a) PROVE EditInv'
  BY <1>3, AttachKeepsEdit DEF AttachListed
<1>4. ASSUME NEW w \in Workers, Attach(w) PROVE EditInv'
  <2>1. worker[w].asset \in Assets
    BY <1>4 DEF Attach, TypeOK, Idle
  <2> QED
    BY <1>4, <2>1, AttachKeepsEdit DEF Attach, imports
<1>5. ASSUME NEW w \in Workers, NEW a \in Assets, Redelivered(w, a) PROVE EditInv'
  <2>1. AttachAsset(a) \/ UNCHANGED house
    BY <1>5 DEF Redelivered
  <2>2. UNCHANGED final
    BY <1>5 DEF Redelivered, imports
  <2> QED
    BY <1>1, <2>1, <2>2, AttachKeepsEdit DEF house
<1>6. ASSUME NEW a \in Assets, ForceAttach(a) PROVE EditInv'
  BY <1>6 DEF ForceAttach, EditInv
<1>7. ASSUME NEW v \in SUBSET Refs, EditField(v) PROVE EditInv'
  BY <1>7 DEF EditField, EditInv, imports
<1>8. ASSUME NEW r \in Records, ListAssets(r) \/ CutShort(r) PROVE EditInv'
  BY <1>1, <1>8 DEF ListAssets, CutShort, house
<1>9. ASSUME NEW w \in Workers, CopyStored(w) \/ CopyFails(w) \/ Crash(w) PROVE EditInv'
  BY <1>1, <1>9 DEF CopyStored, CopyFails, Crash, house, imports
<1>10. ASSUME NEW w \in Workers, NEW a \in Assets, Claim(w, a) PROVE EditInv'
  BY <1>1, <1>10 DEF Claim, house, imports
<1>11. ASSUME NEW a \in Assets, Recover(a) \/ RetryCopy(a) \/ SaveFailed(a) PROVE EditInv'
  BY <1>1, <1>11 DEF Recover, RetryCopy, SaveFailed, house, imports
<1>12. CASE RetryFailed \/ UNCHANGED vars
  BY <1>1, <1>12 DEF RetryFailed, vars, house, imports
<1> QED
  BY <1>2, <1>3, <1>4, <1>5, <1>6, <1>7, <1>8, <1>9, <1>10, <1>11, <1>12 DEF Next, Step

\* What the user has made of the field stays as it is, however late a picture arrives,
\* and whichever package it is for, until he asks for it or imports another package.
THEOREM EditsStay == Spec => []UserEditsKept
<1>1. Init => EditInv
  BY DEF Init, EditInv
<1>2. TypeOK /\ EditInv /\ [Next]_vars => EditInv'
  BY StepEdit
<1>3. EditInv => UserEditsKept
  BY DEF EditInv, UserEditsKept
<1> QED
  BY <1>1, <1>2, <1>3, TypeCorrect, PTL DEF Spec

-----------------------------------------------------------------------------
(* No stored picture is forgotten.                                          *)

\* Somebody has still to attach the picture.
Attaching(a) == \E w \in Workers : worker[w] = [does |-> "attach", asset |-> a]
UnderWay(r, a) ==
    \/ Attaching(a)
    \/ a \in messages
    \/ finishing[r] = {None}
    \/ a \in finishing[r]

RestInv == \A r \in final \ cut, a \in Stored : Settled(r, a) \/ UnderWay(r, a)

\* A step that attaches one picture, which then need not be under way any more.
LEMMA AttachSettles ==
    ASSUME TypeOK, RestInv, NEW a \in Assets, AttachAsset(a), UNCHANGED <<final, cut, asset>>,
           \A r \in final, x \in Assets : x # a /\ UnderWay(r, x) => UnderWay(r, x)'
    PROVE  RestInv'
<1>1. Stored' = Stored /\ Stored \subseteq Assets /\ final \subseteq Records
  BY DEF Stored, TypeOK
<1>2. \A r \in Records \cap final, x \in Stored : x = a \/ Settled(r, x) => Settled(r, x)'
  BY AttachAssetDoes
<1> QED
  BY <1>1, <1>2 DEF RestInv

\* A step that leaves what is decided, and what is under way, of what stays stored.
LEMMA NothingForgotten ==
    ASSUME RestInv, UNCHANGED <<expected, binding>>, final' = final, cut \subseteq cut',
           Stored' \subseteq Stored,
           \A r \in final \ cut', x \in Stored : UnderWay(r, x) => UnderWay(r, x)'
    PROVE  RestInv'
<1>1. \A r, x : Settled(r, x) => Settled(r, x)'
  BY DEF Settled, SettledIn, House
<1> QED
  BY <1>1 DEF RestInv

LEMMA StoredAfter ==
    ASSUME TypeOK, NEW a \in Assets, NEW s, NEW t, SetAsset(a, s, t)
    PROVE  Stored' = IF s = "succeeded" THEN Stored \cup {a} ELSE Stored \ {a}
BY DEF TypeOK, SetAsset, Stored

LEMMA ImportRest ==
    ASSUME TypeOK, RestInv, NEW r \in Records,
           ImportRecord(r) \/ ListAssets(r) \/ CutShort(r)
    PROVE  RestInv'
<1>1. Stored' = Stored
  BY DEF ImportRecord, ListAssets, CutShort, Stored, copies
<1>2. \A a : /\ a \in messages' <=> a \in messages
             /\ Attaching(a)' <=> Attaching(a)
  BY DEF ImportRecord, ListAssets, CutShort, Attaching, copies
<1>3. /\ \A q \in Records : q # r => finishing'[q] = finishing[q]
      /\ final \subseteq Records
  BY DEF ImportRecord, ListAssets, CutShort, TypeOK
<1>4. CASE ImportRecord(r)
  <2>1. finishing'[r] = {None} /\ final' = final \cup {r} /\ cut' = cut
    BY <1>4 DEF ImportRecord, TypeOK
  <2>2. \A q \in Records : \A a : q # r => (Settled(q, a)' <=> Settled(q, a))
    BY <1>4 DEF ImportRecord, Settled, SettledIn, House, TypeOK
  <2> QED
    BY <1>1, <1>2, <1>3, <2>1, <2>2 DEF RestInv, UnderWay
<1>5. CASE ListAssets(r)
  <2>1. finishing'[r] = Stored /\ UNCHANGED <<expected, binding, final, cut>>
    BY <1>5 DEF ListAssets, house, TypeOK
  <2>2. \A q \in final \ cut', a \in Stored : UnderWay(q, a) => UnderWay(q, a)'
    BY <1>2, <1>3, <2>1 DEF UnderWay
  <2> QED
    BY <1>1, <2>1, <2>2, NothingForgotten
<1>6. CASE CutShort(r)
  <2>1. cut' = cut \cup {r} /\ UNCHANGED <<expected, binding, final>>
    BY <1>6 DEF CutShort, house
  <2>2. \A q \in final \ cut', a \in Stored : UnderWay(q, a) => UnderWay(q, a)'
    BY <1>2, <1>3, <2>1 DEF UnderWay
  <2> QED
    BY <1>1, <2>1, <2>2, NothingForgotten
<1> QED
  BY <1>4, <1>5, <1>6

\* A copy whose result is stored has its worker go on to attach it.
LEMMA CopyRest ==
    ASSUME TypeOK, RestInv, NEW w \in Workers, CopyStored(w) \/ CopyFails(w)
    PROVE  RestInv'
<1> DEFINE a == worker[w].asset
<1>1. worker[w].does = "copy" /\ a \in Assets
  BY DEF CopyStored, CopyFails, TypeOK, Idle
<1>2. UNCHANGED <<house, imports, messages>> /\ \A v \in Workers : v # w => worker'[v] = worker[v]
  BY DEF CopyStored, CopyFails, TypeOK
<1>3. \A x : Attaching(x) => Attaching(x)'
  BY <1>1, <1>2 DEF Attaching
<1>4. \A r, x : UnderWay(r, x) => UnderWay(r, x)'
  BY <1>2, <1>3 DEF UnderWay, imports
<1>5. \A r, x : Settled(r, x) => Settled(r, x)'
  BY <1>2 DEF Settled, SettledIn, House, house
<1>6. \/ Stored' \subseteq Stored
      \/ Stored' = Stored \cup {a} /\ worker'[w] = [does |-> "attach", asset |-> a]
  <2>1. CASE UNCHANGED asset
    BY <2>1 DEF Stored
  <2>2. CASE asset' # asset /\ CopyFails(w)
    <3>1. PICK s \in {"failed", "pending"} : SetAsset(a, s, None)
      BY <2>2 DEF CopyFails, Result
    <3> QED
      BY <1>1, <3>1, StoredAfter
  <2>3. CASE asset' # asset /\ CopyStored(w)
    <3>1. SetAsset(a, "succeeded", None)
      BY <2>3 DEF CopyStored, Result
    <3>2. worker'[w] = [does |-> "attach", asset |-> a]
      BY <2>3 DEF CopyStored, TypeOK
    <3> QED
      BY <1>1, <3>1, <3>2, StoredAfter
  <2> QED
    BY <2>1, <2>2, <2>3
<1>7. final' = final /\ cut' = cut
  BY <1>2 DEF imports
<1> HIDE DEF a
<1>8. \A x \in Stored' : x \in Stored \/ Attaching(x)'
  BY <1>6 DEF Attaching
<1> QED
  BY <1>4, <1>5, <1>7, <1>8 DEF RestInv, UnderWay

LEMMA StepRest ==
    ASSUME TypeOK, RestInv, [Next]_vars
    PROVE  RestInv'
<1>1. ASSUME UNCHANGED <<house, imports, asset>>, Stored' \subseteq Stored,
             \A x : Attaching(x) \/ x \in messages => Attaching(x)' \/ x \in messages'
      PROVE  RestInv'
  BY <1>1, NothingForgotten DEF UnderWay, house, imports
<1>2. ASSUME UNCHANGED <<house, imports, messages>>, Stored' \subseteq Stored,
             \A x : Attaching(x) => Attaching(x)'
      PROVE  RestInv'
  BY <1>2, NothingForgotten DEF UnderWay, house, imports
<1>3. ASSUME NEW r \in Records, NEW a \in Assets, AttachListed(r, a) PROVE RestInv'
  <2>1. /\ UNCHANGED <<final, cut, asset, worker, messages>> /\ AttachAsset(a)
        /\ \A q \in Records : q # r => finishing'[q] = finishing[q]
        /\ finishing'[r] = finishing[r] \ {a} /\ a # None /\ a \in finishing[r]
    BY <1>3, NoneIsNothing DEF AttachListed, copies, TypeOK
  <2>2. \A q \in final, x \in Assets : x # a /\ UnderWay(q, x) => UnderWay(q, x)'
    BY <2>1 DEF UnderWay, Attaching, TypeOK
  <2> QED
    BY <2>1, <2>2, AttachSettles
<1>4. ASSUME NEW w \in Workers, Attach(w) PROVE RestInv'
  <2> DEFINE a == worker[w].asset
  <2>1. a \in Assets /\ AttachAsset(a) /\ UNCHANGED <<imports, asset, messages>>
        /\ worker' = [worker EXCEPT ![w] = Idle]
    BY <1>4 DEF Attach, TypeOK, Idle
  <2>2. \A x \in Assets : x # a /\ Attaching(x) => Attaching(x)'
    BY <2>1 DEF Attaching, TypeOK
  <2> HIDE DEF a
  <2>3. UNCHANGED <<final, cut, asset>>
        /\ \A q \in final, x \in Assets : x # a /\ UnderWay(q, x) => UnderWay(q, x)'
    BY <2>1, <2>2 DEF UnderWay, imports
  <2>4. PICK b \in Assets : b = a
    BY <2>1
  <2> QED
    BY <2>1, <2>3, <2>4, AttachSettles
<1>5. ASSUME NEW w \in Workers, NEW a \in Assets, Redelivered(w, a) PROVE RestInv'
  <2>1. /\ worker[w] = Idle /\ messages' = messages \ {a} /\ UNCHANGED imports
        /\ \/ AttachAsset(a) /\ UNCHANGED <<asset, worker>>
           \/ Take(w, a) /\ UNCHANGED house
           \/ a \notin Stored /\ UNCHANGED <<house, asset, worker>>
    BY <1>5 DEF Redelivered, Stored
  <2>2. \A x : Attaching(x) => Attaching(x)'
    BY <2>1 DEF Take, Attaching, Idle, TypeOK
  <2>3. \A q \in final, x \in Assets : x # a /\ UnderWay(q, x) => UnderWay(q, x)'
    BY <2>1, <2>2 DEF UnderWay, imports
  <2>4. CASE AttachAsset(a) /\ UNCHANGED <<asset, worker>>
    BY <2>1, <2>3, <2>4, AttachSettles DEF imports
  <2>5. ASSUME a \notin Stored', Stored' \subseteq Stored, UNCHANGED house PROVE RestInv'
    <3>1. \A r, x : Settled(r, x) => Settled(r, x)'
      BY <2>5 DEF Settled, SettledIn, House, house
    <3>2. final' = final /\ cut' = cut /\ Stored \subseteq Assets
      BY <2>1 DEF imports, Stored
    <3> QED
      BY <2>3, <2>5, <3>1, <3>2 DEF RestInv
  <2>6. CASE Take(w, a) /\ UNCHANGED house
    BY <2>5, <2>6, StoredAfter DEF Take
  <2>7. CASE a \notin Stored /\ UNCHANGED <<house, asset, worker>>
    BY <2>5, <2>7 DEF Stored
  <2> QED
    BY <2>1, <2>4, <2>6, <2>7
<1>6. ASSUME NEW a \in Assets, ForceAttach(a) PROVE RestInv'
  <2>1. Stored' = Stored \cup {a}
    BY <1>6, StoredAfter DEF ForceAttach
  <2>2. /\ UNCHANGED <<final, cut>> /\ final \subseteq Records
        /\ \A r, x : UnderWay(r, x) => UnderWay(r, x)'
    BY <1>6 DEF ForceAttach, imports, UnderWay, Attaching, TypeOK
  <2>3. \A r \in Records \cap final, x \in Stored \cup {a} :
           x = a \/ Settled(r, x) => Settled(r, x)'
    BY <1>6, ForceAttachDoes
  <2> QED
    BY <2>1, <2>2, <2>3 DEF RestInv
<1>7. ASSUME NEW w \in Workers, Crash(w) PROVE RestInv'
  <2>1. /\ \A v \in Workers : v # w => worker'[v] = worker[v]
        /\ messages' = messages \cup {worker[w].asset}
        /\ UNCHANGED <<house, imports, asset>>
    BY <1>7 DEF Crash, TypeOK
  <2>2. \A x : Attaching(x) \/ x \in messages => Attaching(x)' \/ x \in messages'
    BY <2>1 DEF Attaching
  <2> QED
    BY <1>1, <2>1, <2>2 DEF Stored
<1>8. ASSUME NEW w \in Workers, NEW a \in Assets, Claim(w, a) PROVE RestInv'
  <2>1. Stored' \subseteq Stored
    BY <1>8, StoredAfter DEF Claim, Take
  <2>2. \A x : Attaching(x) => Attaching(x)'
    BY <1>8 DEF Claim, Take, Attaching, Idle, TypeOK
  <2> QED
    BY <1>2, <1>8, <2>1, <2>2 DEF Claim
<1>9. ASSUME NEW a \in Assets, Recover(a) \/ RetryCopy(a) \/ SaveFailed(a) PROVE RestInv'
  <2>1. Stored' \subseteq Stored
    BY <1>9, StoredAfter DEF Recover, RetryCopy, SaveFailed
  <2> QED
    BY <1>2, <1>9, <2>1 DEF Recover, RetryCopy, SaveFailed, Attaching
<1>10. ASSUME NEW v \in SUBSET Refs, EditField(v) PROVE RestInv'
  <2>1. /\ UNCHANGED <<expected, binding, imports, copies>> /\ Stored' = Stored
        /\ \A r, x : UnderWay(r, x) => UnderWay(r, x)'
    BY <1>10 DEF EditField, imports, copies, Stored, UnderWay, Attaching
  <2> QED
    BY <2>1, NothingForgotten DEF imports
<1>11. CASE RetryFailed \/ UNCHANGED vars
  <2>1. UNCHANGED <<house, imports, asset, worker, messages>>
    BY <1>11 DEF RetryFailed, vars, copies
  <2> QED
    BY <1>2, <2>1 DEF Stored, Attaching
<1> QED
  BY <1>3, <1>4, <1>5, <1>6, <1>7, <1>8, <1>9, <1>10, <1>11, ImportRest, CopyRest
  DEF Next, Step

\* In the end no stored picture of an imported record is forgotten: it is in the field,
\* beyond its limit, or detached, in whatever order the record was imported and its
\* pictures stored, unless the worker of the import died before it had attached them.
THEOREM NothingLeftBehind == Spec => []AttachedAtRest
<1>1. Init => RestInv
  BY DEF Init, RestInv
<1>2. TypeOK /\ RestInv /\ [Next]_vars => RestInv'
  BY StepRest
<1>3. TypeOK /\ RestInv => AttachedAtRest
  <2> SUFFICES ASSUME TypeOK, RestInv, Quiet,
                      NEW r \in final \ cut, NEW a \in Stored
               PROVE  CASE binding[r][a] = "attached" -> a \in expected[r]
                        [] binding[r][a] = "overflow" -> a \notin expected[r]
                        [] OTHER -> binding[r][a] = "detached"
    BY DEF AttachedAtRest
  <2>1. ~UnderWay(r, a)
    <3>1. Idle # [does |-> "attach", asset |-> a]
      BY DEF Idle
    <3>2. messages = {} /\ finishing[r] = {} /\ ~Attaching(a)
      BY <3>1 DEF Quiet, Attaching, TypeOK
    <3> QED
      BY <3>2 DEF UnderWay
  <2>2. Settled(r, a)
    BY <2>1 DEF RestInv
  <2> QED
    BY <2>2 DEF Settled, SettledIn, House
<1> QED
  BY <1>1, <1>2, <1>3, TypeCorrect, PTL DEF Spec
=============================================================================
