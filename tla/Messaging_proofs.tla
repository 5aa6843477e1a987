-------------------------- MODULE Messaging_proofs ---------------------------
(* The safety of Messaging, for any number of messages and any page size.    *)
EXTENDS Messaging, FiniteSetTheorems, WellFoundedInduction, TLAPS

LEMMA LeastElement ==
    ASSUME NEW S \in SUBSET Nat, S # {}
    PROVE  \E s \in S : \A t \in S : s <= t
<1>1. PICK s \in S : \A t \in S : ~(<<t, s>> \in OpToRel(<, Nat))
  BY NatLessThanWellFounded, WFMin
<1>2. \A t \in S : ~(t < s)
  BY <1>1 DEF OpToRel
<1> QED
  BY <1>2

\* The log only grows at its end.
LEMMA LogGrows ==
    ASSUME TypeOK, NEW x \in Ids \cup {Peer}, log' = Append(log, x)
    PROVE  /\ log' \in Seq(Ids \cup {Peer})
           /\ Top \in Nat /\ Top' = Top + 1
           /\ \A s \in 1..Top : log'[s] = log[s]
           /\ log'[Top + 1] = x
  BY DEF TypeOK, Top

\* Publishing changes nothing, or marks as read what is received and as seen what is
\* on the screen.
LEMMA PublishedFacts ==
    ASSUME Published
    PROVE  \/ UNCHANGED <<wantedReadSequence, reading, seen>>
           \/ /\ wantedReadSequence' = Largest(wantedReadSequence, receivedSequence')
              /\ seen' = seen \cup messages' \cup 1..(base' - 1)
              /\ \/ reading' = reading
                 \/ /\ conversation # None /\ wantedReadSequence' > ReadPosition
                    /\ reading' = [seq |-> wantedReadSequence', fresh |-> TRUE]
  BY DEF Published, MarkVisible, Look

-----------------------------------------------------------------------------
(* Types.                                                                   *)

\* A report that is still wanted belongs to a conversation, and history is asked for
\* only from a first page.
Linked ==
    /\ reading # None /\ reading.fresh => conversation # None
    /\ hasMore => messages # {}

Known == TypeOK /\ Linked

LEMMA KnownInit == Init => Known
<1> SUFFICES ASSUME Init PROVE Known
  OBVIOUS
<1>1. log \in Seq(Ids \cup {Peer}) /\ Top = 0
  BY DEF Init, Top
<1>2. {} \subseteq {id \in Ids : outbox[id] \in {"sending", "confirmed"}}
  OBVIOUS
<1>3. outbox \in [Ids -> {"new", "sending", "failed", "confirmed", "cleared"}]
  BY DEF Init
<1>4. 0 \in 0..Top /\ 0 \in 0..(Top + 1)
  BY <1>1
<1>5. TypeOK
  BY <1>1, <1>2, <1>3, <1>4 DEF Init, TypeOK
<1>6. Linked
  BY DEF Init, Linked
<1> QED
  BY <1>5, <1>6 DEF Known

LEMMA MarksFacts ==
    ASSUME Known, Published, UNCHANGED <<log, conversation>>,
           receivedSequence' \in 0..Top, messages' \subseteq 1..Top, base' \in 0..(Top + 1)
    PROVE  /\ wantedReadSequence' \in 0..Top
           /\ seen' \subseteq 1..Top
           /\ reading' = None \/ reading' \in [seq : 1..Top, fresh : BOOLEAN]
           /\ reading' # None /\ reading'.fresh => conversation' # None
<1>1. Top \in Nat
  BY DEF Known, TypeOK, Top
<1>2. CASE UNCHANGED <<wantedReadSequence, reading, seen>>
  BY <1>2 DEF Known, TypeOK, Linked
<1>3. CASE /\ wantedReadSequence' = Largest(wantedReadSequence, receivedSequence')
           /\ seen' = seen \cup messages' \cup 1..(base' - 1)
           /\ \/ reading' = reading
              \/ /\ conversation # None /\ wantedReadSequence' > ReadPosition
                 /\ reading' = [seq |-> wantedReadSequence', fresh |-> TRUE]
  <2>1. wantedReadSequence' \in 0..Top
    BY <1>1, <1>3 DEF Known, TypeOK, Largest
  <2>2. seen' \subseteq 1..Top
    <3>1. \A b \in 0..(Top + 1) : 1..(b - 1) \subseteq 1..Top
      BY <1>1
    <3>2. 1..(base' - 1) \subseteq 1..Top
      BY <3>1
    <3> QED
      BY <1>3, <3>2 DEF Known, TypeOK
  <2>3. CASE reading' = reading
    BY <2>1, <2>2, <2>3 DEF Known, TypeOK, Linked
  <2>4. CASE /\ conversation # None /\ wantedReadSequence' > ReadPosition
             /\ reading' = [seq |-> wantedReadSequence', fresh |-> TRUE]
    <3>1. ReadPosition \in Nat
      BY <1>1 DEF Known, TypeOK, ReadPosition
    <3>2. wantedReadSequence' \in 1..Top
      BY <1>1, <2>1, <2>4, <3>1
    <3> QED
      BY <2>1, <2>2, <2>4, <3>2
  <2> QED
    BY <1>3, <2>3, <2>4
<1> QED
  BY <1>2, <1>3, PublishedFacts

\* Steps of the server and the answers about read positions.
LEMMA KnownServer ==
    ASSUME Known, PeerSends \/ Close \/ (\E id \in Ids : Store(id))
    PROVE  Known'
<1>1. CASE Close
  BY <1>1 DEF Close, client, place, cursor, marks, shown, sends, tasks, Known, TypeOK, Linked, Top
<1>2. CASE PeerSends \/ \E id \in Ids : Store(id)
  <2>1. PICK x \in Ids \cup {Peer} : log' = Append(log, x)
    BY <1>2 DEF PeerSends, Store
  <2>2. UNCHANGED <<lastRead, closed, client>>
    BY <1>2 DEF PeerSends, Store
  <2>3. /\ log' \in Seq(Ids \cup {Peer})
        /\ Top \in Nat /\ Top' = Top + 1
    BY <2>1, LogGrows DEF Known
  <2>4. /\ 0..Top \subseteq 0..Top' /\ 1..Top \subseteq 1..Top'
        /\ 0..(Top + 1) \subseteq 0..(Top' + 1)
    BY <2>3
  <2>5. TypeOK'
    BY <2>2, <2>3, <2>4 DEF client, place, cursor, marks, shown, sends, tasks, Known, TypeOK
  <2>6. Linked'
    BY <2>2 DEF client, cursor, marks, shown, Known, Linked
  <2> QED
    BY <2>5, <2>6 DEF Known
<1> QED
  BY <1>1, <1>2

LEMMA KnownReading ==
    ASSUME Known, ReadAnswered \/ ReadFails
    PROVE  Known'
<1>1. Top \in Nat /\ Top' = Top /\ UNCHANGED log
  BY DEF Known, TypeOK, Top, ReadAnswered, ReadFails
<1>2. reading \in [seq : 1..Top, fresh : BOOLEAN]
  BY DEF Known, TypeOK, ReadAnswered, ReadFails
<1>3. Largest(lastRead, reading.seq) \in 0..Top
  BY <1>1, <1>2 DEF Known, TypeOK, Largest
<1>4. lastRead' \in 0..Top
  BY <1>3 DEF Known, TypeOK, ReadAnswered, ReadFails
<1>5. UNCHANGED <<closed, place, cursor, wantedReadSequence, seen, shown, sends, tasks, atBottom>>
  BY DEF ReadAnswered, ReadFails
<1>6. /\ reading' = None \/ reading' \in [seq : 1..Top, fresh : BOOLEAN]
      /\ conversation' = None \/ conversation' \in [read : 0..Top, can_send : BOOLEAN]
      /\ reading' # None /\ reading'.fresh => conversation' # None
  <2>1. CASE reading' = None /\ conversation' = conversation
    BY <2>1 DEF Known, TypeOK
  <2>2. CASE /\ ReadAnswered /\ reading.fresh
             /\ conversation' = [conversation EXCEPT !.read = Largest(@, lastRead')]
             /\ reading' = IF wantedReadSequence > conversation'.read /\ atBottom
                           THEN [seq |-> wantedReadSequence, fresh |-> TRUE] ELSE None
    <3>1. conversation # None /\ conversation \in [read : 0..Top, can_send : BOOLEAN]
      BY <1>2, <2>2 DEF Known, TypeOK, Linked, ReadAnswered
    <3>2. Largest(conversation.read, lastRead') \in 0..Top
      BY <1>1, <1>4, <3>1 DEF Largest
    <3>3. conversation' \in [read : 0..Top, can_send : BOOLEAN]
      BY <2>2, <3>1, <3>2
    <3>4. conversation' # None
      <4>1. conversation' \in [read : Nat, can_send : BOOLEAN]
        BY <1>1, <3>3
      <4> QED
        BY <4>1, NoneIsNoConversation
    <3>5. wantedReadSequence > conversation'.read => wantedReadSequence \in 1..Top
      BY <1>1, <3>3 DEF Known, TypeOK
    <3> QED
      BY <2>2, <3>3, <3>4, <3>5
  <2> QED
    BY <2>1, <2>2 DEF ReadAnswered, ReadFails
<1> QED
  BY <1>1, <1>4, <1>5, <1>6 DEF Known, TypeOK, Linked, place, cursor, shown, sends, tasks

\* When the page starts again the report under way is no longer wanted.
LEMMA StaleFacts ==
    ASSUME Known, reading' = Stale
    PROVE  /\ reading' = None \/ reading' \in [seq : 1..Top, fresh : BOOLEAN]
           /\ ~(reading' # None /\ reading'.fresh)
           /\ reading' # None => reading # None /\ reading'.seq = reading.seq
<1>1. CASE reading = None
  BY <1>1 DEF Stale
<1>2. CASE reading # None
  <2>1. reading \in [seq : 1..Top, fresh : BOOLEAN]
    BY <1>2 DEF Known, TypeOK
  <2> QED
    BY <1>2, <2>1 DEF Stale
<1> QED
  BY <1>1, <1>2

LEMMA KnownVisits ==
    ASSUME Known, Enter \/ Leave("none") \/ Leave("other") \/ Activate \/ Deactivate
    PROVE  Known'
<1>1. Top \in Nat /\ Top' = Top /\ UNCHANGED log
  BY DEF Known, TypeOK, Top, Enter, Leave, Activate, Deactivate, server
<1>2. ASSUME Reset, UNCHANGED <<server, active>>, context' \in {"mine", "none", "other"},
             UNCHANGED sends \/ (sending' = {} /\
                outbox' \in [Ids -> {"new", "sending", "failed", "confirmed", "cleared"}])
      PROVE  Known'
  <2>1. /\ reading' = None \/ reading' \in [seq : 1..Top, fresh : BOOLEAN]
        /\ ~(reading' # None /\ reading'.fresh)
    BY <1>2, StaleFacts DEF Reset
  <2>2. sending' \subseteq {id \in Ids : outbox'[id] \in {"sending", "confirmed"}}
    BY <1>2 DEF Known, TypeOK, sends
  <2>3. outbox' \in [Ids -> {"new", "sending", "failed", "confirmed", "cleared"}]
    BY <1>2 DEF Known, TypeOK, sends
  <2>4. 0 \in 0..Top /\ 0 \in 0..(Top + 1)
    BY <1>1
  <2>5. TypeOK'
    BY <1>1, <1>2, <2>1, <2>2, <2>3, <2>4 DEF Reset, Known, TypeOK, server
  <2>6. Linked'
    BY <1>2, <2>1 DEF Reset, Linked
  <2> QED
    BY <2>5, <2>6 DEF Known
<1>3. CASE Enter
  BY <1>2, <1>3 DEF Enter, server
<1>4. ASSUME NEW to \in {"none", "other"}, Leave(to) PROVE Known'
  <2>1. UNCHANGED sends \/ (sending' = {} /\
          outbox' \in [Ids -> {"new", "sending", "failed", "confirmed", "cleared"}])
    BY <1>4 DEF Leave, Known, TypeOK
  <2> QED
    BY <1>2, <1>4, <2>1 DEF Leave
<1>5. CASE Activate
  BY <1>1, <1>5 DEF Activate, Known, TypeOK, Linked, server, cursor, marks, shown, sends, tasks
<1>6. CASE Deactivate
  <2>1. /\ reading' = None \/ reading' \in [seq : 1..Top, fresh : BOOLEAN]
        /\ ~(reading' # None /\ reading'.fresh)
    BY <1>6, StaleFacts DEF Deactivate
  <2>2. 0 \in 0..Top
    BY <1>1
  <2>3. TypeOK'
    BY <1>1, <1>6, <2>1, <2>2 DEF Deactivate, Known, TypeOK, server, cursor, shown, sends
  <2>4. Linked'
    BY <1>6, <2>1 DEF Deactivate, Known, Linked, shown
  <2> QED
    BY <2>3, <2>4 DEF Known
<1> QED
  BY <1>3, <1>4, <1>5, <1>6

-----------------------------------------------------------------------------
(* Listings.                                                                *)

LEMMA ConfirmedFacts ==
    ASSUME Known, NEW seqs
    PROVE  /\ ConfirmedBy(seqs) \in [Ids -> {"new", "sending", "failed", "confirmed", "cleared"}]
           /\ \A id \in Ids : ConfirmedBy(seqs)[id] =
                 IF outbox[id] \in {"sending", "failed"} /\ SeqsOf(id) \cap seqs # {}
                 THEN "confirmed" ELSE outbox[id]
           /\ sending \subseteq {id \in Ids : ConfirmedBy(seqs)[id] \in {"sending", "confirmed"}}
  BY DEF Known, TypeOK, ConfirmedBy

\* The first page leaves out nothing up to its end.
LEMMA FirstPageFacts ==
    ASSUME Known, NEW top \in 0..Top, FirstPage(top)
    PROVE  /\ loaded' = TRUE /\ receivedSequence' = top
           /\ base' \in 1..(Top + 1)
           /\ messages' = messages \cup base'..top
           /\ messages' \subseteq 1..Top
           /\ hasMore' \in BOOLEAN /\ (hasMore' => messages' # {})
           /\ outbox' = ConfirmedBy(base'..top)
           /\ listing' = None
<1>1. Top \in Nat /\ top \in Nat /\ top <= Top /\ PageSize \in Nat /\ PageSize > 0
  BY PageSizeIsPositive DEF Known, TypeOK, Top
<1>2. base' = IF top > PageSize THEN top - PageSize + 1 ELSE 1
  BY DEF FirstPage
<1>3. base' \in 1..(Top + 1)
  BY <1>1, <1>2
<1>4. {s \in 1..top : s + PageSize > top} = base'..top
  BY <1>1, <1>2
<1>5. base'..top \subseteq 1..Top
  BY <1>1, <1>3
<1>6. hasMore' => top \in base'..top
  <2>1. hasMore' => top > PageSize
    BY DEF FirstPage
  <2>2. top > PageSize => top \in base'..top
    BY <1>1, <1>2
  <2> QED
    BY <2>1, <2>2
<1>7. /\ loaded' = TRUE /\ receivedSequence' = top
      /\ messages' = messages \cup base'..top
      /\ outbox' = ConfirmedBy(base'..top)
      /\ listing' = None
  <2>1. /\ loaded' = TRUE /\ receivedSequence' = top
        /\ messages' = messages \cup {s \in 1..top : s + PageSize > top}
        /\ outbox' = ConfirmedBy({s \in 1..top : s + PageSize > top})
        /\ listing' = None
    BY DEF FirstPage
  <2> QED
    BY <1>4, <2>1
<1>8. messages' \subseteq 1..Top
  BY <1>5, <1>7 DEF Known, TypeOK
<1>9. hasMore' \in BOOLEAN
  <2>1. hasMore' = (top > PageSize)
    BY DEF FirstPage
  <2> QED
    BY <2>1
<1> QED
  BY <1>3, <1>6, <1>7, <1>8, <1>9

\* A next page leaves out nothing between the old cursor and the new one.
LEMMA NextPageFacts ==
    ASSUME Known, NEW top \in 0..Top, NextPage(top)
    PROVE  /\ receivedSequence' \in receivedSequence..Top
           /\ messages' = messages \cup (receivedSequence + 1)..receivedSequence'
           /\ outbox' = ConfirmedBy((receivedSequence + 1)..receivedSequence')
           /\ messages' \subseteq 1..Top
           /\ listing' \in {None, Top}
           /\ loaded /\ UNCHANGED <<loaded, base, hasMore>>
<1> DEFINE page == {s \in 1..top : receivedSequence < s /\ s <= receivedSequence + PageSize}
           end == IF receivedSequence + PageSize <= top THEN receivedSequence + PageSize ELSE top
<1>1. /\ Top \in Nat /\ top \in Nat /\ top <= Top /\ PageSize \in Nat
      /\ receivedSequence \in Nat /\ receivedSequence <= Top
  BY PageSizeIsPositive DEF Known, TypeOK, Top
<1>2. page = (receivedSequence + 1)..end /\ end \in Nat /\ end <= Top
  BY <1>1
<1>3. Cardinality(page) = IF receivedSequence + 1 > end THEN 0 ELSE end - receivedSequence
  <2>1. Cardinality((receivedSequence + 1)..end)
          = IF receivedSequence + 1 > end THEN 0 ELSE end - (receivedSequence + 1) + 1
    BY <1>1, <1>2, FS_Interval
  <2>2. end - (receivedSequence + 1) + 1 = end - receivedSequence
    BY <1>1, <1>2
  <2> HIDE DEF end, page
  <2> QED
    BY <1>2, <2>1, <2>2
<1>4. /\ receivedSequence' = receivedSequence + Cardinality(page)
      /\ messages' = messages \cup page
      /\ outbox' = ConfirmedBy(page)
      /\ listing' = (IF Cardinality(page) < PageSize THEN None ELSE Top)
      /\ loaded /\ UNCHANGED <<loaded, base, hasMore>>
  BY DEF NextPage
<1> HIDE DEF end, page
<1>5. receivedSequence' \in receivedSequence..Top
  BY <1>1, <1>2, <1>3, <1>4
<1>6. page = (receivedSequence + 1)..receivedSequence'
  <2>1. CASE receivedSequence + 1 > end
    BY <1>1, <1>2, <1>3, <1>4, <2>1
  <2>2. CASE ~(receivedSequence + 1 > end)
    BY <1>1, <1>2, <1>3, <1>4, <2>2
  <2> QED
    BY <2>1, <2>2
<1>7. page \subseteq 1..Top
  BY <1>1, <1>2
<1> QED
  BY <1>4, <1>5, <1>6, <1>7 DEF Known, TypeOK

LEMMA KnownPage ==
    ASSUME Known, RefreshPage
    PROVE  Known'
<1>1. /\ UNCHANGED <<server, place, sending, history, atBottom, conversation>>
      /\ Published
  BY DEF RefreshPage
<1>2. Top \in Nat /\ Top' = Top
  BY <1>1 DEF Known, TypeOK, Top, server
<1>3. /\ loaded' \in BOOLEAN /\ receivedSequence' \in 0..Top /\ base' \in 0..(Top + 1)
      /\ messages' \subseteq 1..Top /\ hasMore' \in BOOLEAN /\ (hasMore' => messages' # {})
      /\ listing' \in {None} \cup 0..Top
      /\ \E seqs \in SUBSET (1..Top) : outbox' = ConfirmedBy(seqs)
  <2>1. PICK top \in listing..Top : FirstPage(top) \/ NextPage(top)
    BY DEF RefreshPage
  <2>2. top \in 0..Top
    BY <1>2, <2>1 DEF Known, TypeOK, RefreshPage
  <2>3. CASE FirstPage(top)
    <3>1. base'..top \in SUBSET (1..Top) /\ base' \in 0..(Top + 1)
      <4>1. base' \in 1..(Top + 1)
        BY <2>2, <2>3, FirstPageFacts
      <4>2. \A b \in 1..(Top + 1) : b..top \in SUBSET (1..Top) /\ b \in 0..(Top + 1)
        BY <1>2, <2>2
      <4> QED
        BY <4>1, <4>2
    <3> QED
      BY <2>2, <2>3, <3>1, FirstPageFacts
  <2>4. CASE NextPage(top)
    <3>1. receivedSequence' \in receivedSequence..Top
      BY <2>2, <2>4, NextPageFacts
    <3>2. /\ receivedSequence' \in 0..Top
          /\ (receivedSequence + 1)..receivedSequence' \in SUBSET (1..Top)
          /\ Top \in 0..Top
      BY <1>2, <3>1 DEF Known, TypeOK
    <3>3. /\ messages' = messages \cup (receivedSequence + 1)..receivedSequence'
          /\ outbox' = ConfirmedBy((receivedSequence + 1)..receivedSequence')
          /\ messages' \subseteq 1..Top
          /\ listing' \in {None, Top}
          /\ loaded /\ UNCHANGED <<loaded, base, hasMore>>
      BY <2>2, <2>4, NextPageFacts
    <3>4. hasMore' => messages' # {}
      BY <3>3 DEF Known, Linked
    <3> QED
      BY <3>2, <3>3, <3>4 DEF Known, TypeOK
  <2> QED
    BY <2>1, <2>3, <2>4
<1>4. /\ wantedReadSequence' \in 0..Top
      /\ seen' \subseteq 1..Top
      /\ reading' = None \/ reading' \in [seq : 1..Top, fresh : BOOLEAN]
      /\ reading' # None /\ reading'.fresh => conversation' # None
  BY <1>1, <1>3, MarksFacts DEF server
<1>5. /\ outbox' \in [Ids -> {"new", "sending", "failed", "confirmed", "cleared"}]
      /\ sending' \subseteq {id \in Ids : outbox'[id] \in {"sending", "confirmed"}}
  BY <1>1, <1>3, ConfirmedFacts
<1> QED
  BY <1>1, <1>2, <1>3, <1>4, <1>5 DEF Known, TypeOK, Linked, server, place

\* The other steps of the page: scrolling, asking for a listing, history.
LEMMA KnownPaging ==
    ASSUME Known, Scroll \/ Refresh \/ RefreshFails \/ LoadHistory \/ HistoryPage \/ HistoryFails
    PROVE  Known'
<1>1. Top \in Nat /\ Top' = Top /\ UNCHANGED log
  BY DEF Known, TypeOK, Top, Scroll, Refresh, RefreshFails, LoadHistory, HistoryPage,
     HistoryFails, server
<1>2. CASE Scroll
  <2>1. /\ UNCHANGED <<server, place, cursor, shown, sends, tasks, conversation>> /\ Published
        /\ atBottom' \in BOOLEAN
    BY <1>2 DEF Scroll
  <2>2. /\ wantedReadSequence' \in 0..Top
        /\ seen' \subseteq 1..Top
        /\ reading' = None \/ reading' \in [seq : 1..Top, fresh : BOOLEAN]
        /\ reading' # None /\ reading'.fresh => conversation' # None
    BY <2>1, MarksFacts DEF Known, TypeOK, server, cursor, shown
  <2> QED
    BY <1>1, <2>1, <2>2 DEF Known, TypeOK, Linked, server, place, cursor, shown, sends, tasks
<1>3. CASE Refresh
  <2>1. /\ conversation' = [read |-> Largest(lastRead, ReadPosition), can_send |-> ~closed]
        /\ listing' = Top
        /\ UNCHANGED <<server, place, cursor, marks, shown, sends, history, atBottom>>
    BY <1>3 DEF Refresh
  <2>2. Largest(lastRead, ReadPosition) \in 0..Top
    BY <1>1 DEF Known, TypeOK, ReadPosition, Largest
  <2>3. conversation' \in [read : 0..Top, can_send : BOOLEAN]
    BY <2>1, <2>2
  <2>4. conversation' # None
    BY <1>1, <2>3, NoneIsNoConversation
  <2>5. listing' \in 0..Top
    BY <1>1, <2>1
  <2> QED
    BY <1>1, <2>1, <2>3, <2>4, <2>5 DEF Known, TypeOK, Linked, server, place, cursor, marks, shown, sends
<1>4. CASE RefreshFails
  BY <1>1, <1>4 DEF RefreshFails, Known, TypeOK, Linked, server, place, cursor, marks, shown, sends
<1>5. CASE LoadHistory
  <2>1. messages # {} /\ messages \subseteq 1..Top
    BY <1>5 DEF LoadHistory, Known, TypeOK, Linked
  <2>2. \E s \in messages : \A t \in messages : s <= t
    BY <1>1, <2>1, LeastElement
  <2>3. Oldest \in messages
    BY <2>2 DEF Oldest
  <2>4. history' \in 0..Top
    BY <1>1, <1>5, <2>1, <2>3 DEF LoadHistory
  <2> QED
    BY <1>1, <1>5, <2>4 DEF LoadHistory, Known, TypeOK, Linked, server, place, cursor, marks, shown, sends
<1>6. CASE HistoryPage
  <2>1. /\ UNCHANGED <<server, place, cursor, sends, listing, atBottom, conversation>> /\ Published
        /\ messages' = messages \cup {s \in 1..(history - 1) : s + PageSize >= history}
        /\ history' = 0
        /\ hasMore' = (history > PageSize + 1)
    BY <1>6 DEF HistoryPage
  <2>2. {s \in 1..(history - 1) : s + PageSize >= history} \subseteq 1..Top
    BY <1>1 DEF Known, TypeOK
  <2>3. messages' \subseteq 1..Top
    BY <2>1, <2>2 DEF Known, TypeOK
  <2>4. hasMore' => messages' # {}
    <3>1. hasMore' => history > PageSize + 1
      BY <2>1
    <3>2. history > PageSize + 1 => history - 1 \in {s \in 1..(history - 1) : s + PageSize >= history}
      BY <1>1, PageSizeIsPositive DEF Known, TypeOK
    <3> QED
      BY <2>1, <3>1, <3>2
  <2>5. /\ wantedReadSequence' \in 0..Top
        /\ seen' \subseteq 1..Top
        /\ reading' = None \/ reading' \in [seq : 1..Top, fresh : BOOLEAN]
        /\ reading' # None /\ reading'.fresh => conversation' # None
    BY <2>1, <2>3, MarksFacts DEF Known, TypeOK, server, cursor
  <2>6. hasMore' \in BOOLEAN /\ history' \in 0..Top
    BY <1>1, <2>1
  <2> QED
    BY <1>1, <2>1, <2>3, <2>4, <2>5, <2>6 DEF Known, TypeOK, Linked, server, place, cursor, sends
<1>7. CASE HistoryFails
  <2>1. 0 \in 0..Top
    BY <1>1
  <2> QED
    BY <1>1, <1>7, <2>1 DEF HistoryFails, Known, TypeOK, Linked, server, place, cursor, marks, shown, sends
<1> QED
  BY <1>2, <1>3, <1>4, <1>5, <1>6, <1>7

\* The steps of one message's call: what they do to the outbox.
CallStep(id) ==
    /\ UNCHANGED <<server, place, cursor, hasMore, tasks, conversation>>
    /\ Published
    /\ atBottom' \in BOOLEAN
    /\ \/ /\ outbox[id] \in {"new", "failed"}
          /\ outbox' = [outbox EXCEPT ![id] = "sending"]
          /\ sending' = sending \cup {id}
          /\ messages' = messages
       \/ /\ id \in sending /\ SeqsOf(id) # {}
          /\ outbox' = [outbox EXCEPT ![id] = "confirmed"]
          /\ sending' = sending \ {id}
          /\ messages' = messages \cup SeqsOf(id) \/ messages' = messages
       \/ /\ id \in sending
          /\ outbox' = [outbox EXCEPT ![id] = IF @ = "sending" THEN "failed" ELSE @]
          /\ sending' = sending \ {id}
          /\ messages' = messages

LEMMA CallFacts ==
    ASSUME Known, NEW id \in Ids, Send(id) \/ Retry(id) \/ Receipt(id) \/ SendFails(id)
    PROVE  CallStep(id)
<1> USE DEF Known, TypeOK, CallStep, cursor, shown
<1>1. CASE Send(id)
  BY <1>1 DEF Send, Post
<1>2. CASE Retry(id)
  BY <1>2 DEF Retry, Post
<1>3. CASE Receipt(id)
  BY <1>3 DEF Receipt
<1>4. CASE SendFails(id)
  BY <1>4 DEF SendFails
<1> QED
  BY <1>1, <1>2, <1>3, <1>4

LEMMA KnownCalls ==
    ASSUME Known, NEW id \in Ids, CallStep(id)
    PROVE  Known'
<1>1. UNCHANGED <<server, place, cursor, hasMore, tasks, conversation>> /\ Published /\ atBottom' \in BOOLEAN
  BY DEF CallStep
<1>2. Top \in Nat /\ Top' = Top /\ UNCHANGED log
  BY <1>1 DEF Known, TypeOK, Top, server
<1>3. messages' \subseteq 1..Top /\ messages \subseteq messages'
  BY DEF CallStep, SeqsOf, Known, TypeOK
<1>4. /\ wantedReadSequence' \in 0..Top
      /\ seen' \subseteq 1..Top
      /\ reading' = None \/ reading' \in [seq : 1..Top, fresh : BOOLEAN]
      /\ reading' # None /\ reading'.fresh => conversation' # None
  BY <1>1, <1>3, MarksFacts DEF Known, TypeOK, server, cursor
<1>5. /\ outbox' \in [Ids -> {"new", "sending", "failed", "confirmed", "cleared"}]
      /\ sending' \subseteq {i \in Ids : outbox'[i] \in {"sending", "confirmed"}}
  BY DEF CallStep, Known, TypeOK
<1> QED
  BY <1>1, <1>2, <1>3, <1>4, <1>5 DEF Known, TypeOK, Linked, server, place, cursor, tasks

LEMMA KnownSteps == Known /\ [Next]_vars => Known'
<1> SUFFICES ASSUME Known, [Next]_vars PROVE Known'
  OBVIOUS
<1>1. CASE UNCHANGED vars
  BY <1>1 DEF vars, server, client, place, cursor, marks, shown, sends, tasks, Known, TypeOK,
     Linked, Top
<1>2. CASE Next
  BY <1>2, KnownServer, KnownReading, KnownVisits, KnownPage, KnownPaging, CallFacts, KnownCalls
     DEF Next
<1> QED
  BY <1>1, <1>2

LEMMA AlwaysKnown == Spec => []Known
<1> QED
  BY KnownInit, KnownSteps, PTL DEF Spec

\* Every variable holds a value it can hold (TypeOK).
THEOREM TypeCorrect == Spec => []TypeOK
<1>1. Known => TypeOK
  BY DEF Known
<1> QED
  BY <1>1, AlwaysKnown, PTL

-----------------------------------------------------------------------------
(* What is shown.                                                           *)

\* The messages shown begin with the first page, or before it where history was
\* loaded; nothing is left out between the first page and the cursor; and a gap only
\* opens above a message of the user's own.
Shaped ==
    /\ ~loaded => base = 0 /\ history = 0 /\ ~hasMore /\ receivedSequence = 0
    /\ ~loaded => \A s \in messages : log[s] \in Ids
    /\ loaded => base >= 1 /\ base..receivedSequence \subseteq messages
    /\ hasMore => base \in messages
    /\ history <= base
    /\ history # 0 => history \in messages /\ base \in messages
    /\ loaded => \A s \in messages :
                    s < receivedSequence /\ s + 1 \notin messages => log[s] \in Ids

\* The steps that write the log, and what they leave alone.
LEMMA ServerFacts ==
    ASSUME Known, PeerSends \/ Close \/ (\E id \in Ids : Store(id))
    PROVE  /\ UNCHANGED <<client, lastRead>>
           /\ Top \in Nat /\ Top' \in Nat /\ Top <= Top'
           /\ \A s \in 1..Top : log'[s] = log[s]
<1>1. CASE Close
  BY <1>1 DEF Close, Known, TypeOK, Top
<1>2. CASE PeerSends \/ \E id \in Ids : Store(id)
  <2>1. PICK x \in Ids \cup {Peer} : log' = Append(log, x)
    BY <1>2 DEF PeerSends, Store
  <2>2. /\ Top \in Nat /\ Top' = Top + 1
        /\ \A s \in 1..Top : log'[s] = log[s]
    BY <2>1, LogGrows DEF Known
  <2> QED
    BY <1>2, <2>2 DEF PeerSends, Store
<1> QED
  BY <1>1, <1>2

LEMMA ShapedServer ==
    ASSUME Known, Shaped, PeerSends \/ Close \/ (\E id \in Ids : Store(id))
    PROVE  Shaped'
<1>1. /\ UNCHANGED <<client, lastRead>>
      /\ \A s \in 1..Top : log'[s] = log[s]
  BY ServerFacts
<1>2. messages \subseteq 1..Top
  BY DEF Known, TypeOK
<1> QED
  BY <1>1, <1>2 DEF Shaped, client, cursor, shown, tasks

LEMMA ShapedPage ==
    ASSUME Known, Shaped, RefreshPage
    PROVE  Shaped'
<1>1. UNCHANGED <<log, history>>
  BY DEF RefreshPage, server
<1>2. PICK top \in listing..Top : FirstPage(top) \/ NextPage(top)
  BY DEF RefreshPage
<1>3. Top \in Nat /\ top \in 0..Top /\ top \in Nat
  BY <1>2 DEF Known, TypeOK, RefreshPage, Top
<1>4. CASE FirstPage(top)
  <2>1. /\ loaded' = TRUE /\ receivedSequence' = top
        /\ base' \in 1..(Top + 1)
        /\ messages' = messages \cup base'..top
    BY <1>3, <1>4, FirstPageFacts
  <2>2. ~loaded /\ history = 0
    BY <1>4 DEF FirstPage, Shaped
  <2>3. hasMore' => base' \in messages'
    <3>1. hasMore' => top > PageSize
      BY <1>4 DEF FirstPage
    <3>2. top > PageSize => base' = top - PageSize + 1
      BY <1>4 DEF FirstPage
    <3>3. top > PageSize => base' \in base'..top
      BY <1>3, <2>1, <3>2, PageSizeIsPositive
    <3> QED
      BY <2>1, <3>1, <3>3
  <2>4. \A s \in messages' : s < receivedSequence' /\ s + 1 \notin messages' => log'[s] \in Ids
    <3> SUFFICES ASSUME NEW s \in messages', s < top, s + 1 \notin messages'
                 PROVE  log'[s] \in Ids
      BY <2>1
    <3>1. CASE s \in messages
      BY <1>1, <2>2, <3>1 DEF Shaped
    <3>2. CASE s \in base'..top
      <4>1. s + 1 \in base'..top
        BY <1>3, <2>1, <3>2
      <4> QED
        BY <2>1, <4>1
    <3> QED
      BY <2>1, <3>1, <3>2
  <2>5. base' >= 1 /\ base'..receivedSequence' \subseteq messages'
    BY <1>3, <2>1
  <2>6. history' <= base' /\ history' = 0
    BY <1>1, <1>3, <2>1, <2>2
  <2> QED
    BY <2>1, <2>3, <2>4, <2>5, <2>6 DEF Shaped
<1>5. CASE NextPage(top)
  <2>1. /\ receivedSequence' \in receivedSequence..Top
        /\ messages' = messages \cup (receivedSequence + 1)..receivedSequence'
        /\ loaded /\ UNCHANGED <<loaded, base, hasMore>>
    BY <1>3, <1>5, NextPageFacts
  <2>2. receivedSequence \in Nat /\ receivedSequence' \in Nat /\ base \in Nat
    BY <1>3, <2>1 DEF Known, TypeOK
  <2>3. base..receivedSequence' \subseteq messages'
    <3>1. base..receivedSequence' \subseteq
            base..receivedSequence \cup (receivedSequence + 1)..receivedSequence'
      BY <2>1, <2>2
    <3> QED
      BY <2>1, <3>1 DEF Shaped
  <2>4. \A s \in messages' : s < receivedSequence' /\ s + 1 \notin messages' => log'[s] \in Ids
    <3> SUFFICES ASSUME NEW s \in messages', s < receivedSequence', s + 1 \notin messages'
                 PROVE  log'[s] \in Ids
      OBVIOUS
    <3>0. s \in Nat
      BY <2>1, <2>2 DEF Known, TypeOK
    <3>1. s < receivedSequence
      <4>1. s >= receivedSequence => s + 1 \in (receivedSequence + 1)..receivedSequence'
        BY <2>2, <3>0
      <4> QED
        BY <2>1, <2>2, <3>0, <4>1
    <3>2. s \in messages
      BY <2>1, <2>2, <3>0, <3>1
    <3> QED
      BY <1>1, <2>1, <3>1, <3>2 DEF Shaped
  <2> QED
    BY <1>1, <2>1, <2>3, <2>4 DEF Shaped
<1> QED
  BY <1>2, <1>4, <1>5

LEMMA ShapedHistory ==
    ASSUME Known, Shaped, LoadHistory \/ HistoryPage \/ HistoryFails
    PROVE  Shaped'
<1>0. Top \in Nat /\ messages \subseteq Nat /\ base \in Nat /\ history \in Nat /\ receivedSequence \in Nat
  BY DEF Known, TypeOK, Top
<1>1. CASE LoadHistory
  <2>1. base \in messages /\ loaded
    BY <1>1 DEF LoadHistory, Shaped
  <2>2. \E s \in messages : \A t \in messages : s <= t
    BY <1>0, <2>1, LeastElement
  <2>3. Oldest \in messages /\ Oldest <= base
    BY <2>1, <2>2 DEF Oldest
  <2> QED
    BY <1>1, <2>1, <2>3 DEF LoadHistory, Shaped, server, cursor, shown
<1>2. CASE HistoryPage
  <2> DEFINE page == {s \in 1..(history - 1) : s + PageSize >= history}
  <2>1. /\ UNCHANGED <<log, cursor>>
        /\ history # 0 /\ history' = 0
        /\ messages' = messages \cup page
    BY <1>2 DEF HistoryPage, server
  <2>2. loaded /\ history \in messages
    BY <2>1 DEF Shaped
  <2>3. \A s \in messages' : s < receivedSequence' /\ s + 1 \notin messages' => log'[s] \in Ids
    <3> SUFFICES ASSUME NEW s \in messages', s < receivedSequence', s + 1 \notin messages'
                 PROVE  log'[s] \in Ids
      OBVIOUS
    <3>1. CASE s \in messages
      BY <2>1, <2>2, <3>1 DEF Shaped, cursor
    <3>2. CASE s \in page
      <4>1. s + 1 \in page \/ s + 1 = history
        BY <1>0, <3>2, PageSizeIsPositive
      <4> QED
        BY <2>1, <2>2, <4>1
    <3> QED
      BY <2>1, <3>1, <3>2
  <2> HIDE DEF page
  <2>4. base' \in messages' /\ history' <= base'
    BY <1>0, <2>1 DEF Shaped, cursor
  <2> QED
    BY <2>1, <2>2, <2>3, <2>4 DEF Shaped, cursor
<1>3. CASE HistoryFails
  BY <1>0, <1>3 DEF HistoryFails, Shaped, server, cursor, shown
<1> QED
  BY <1>1, <1>2, <1>3

\* A receipt adds a message of the user's own.
LEMMA ShapedCalls ==
    ASSUME Known, Shaped, NEW id \in Ids, CallStep(id)
    PROVE  Shaped'
<1>1. /\ UNCHANGED <<log, cursor, hasMore, history>>
      /\ messages' = messages \cup SeqsOf(id) \/ messages' = messages
  BY DEF CallStep, server, tasks
<1>2. \A s \in SeqsOf(id) : log[s] \in Ids
  BY DEF SeqsOf
<1> QED
  BY <1>1, <1>2 DEF Shaped, cursor

LEMMA ShapedSteps == Known /\ Shaped /\ [Next]_vars => Shaped'
<1> SUFFICES ASSUME Known, Shaped, [Next]_vars PROVE Shaped'
  OBVIOUS
<1>1. CASE ReadAnswered \/ ReadFails \/ Activate \/ Scroll \/ Refresh \/ RefreshFails \/ UNCHANGED vars
  <2>1. UNCHANGED <<log, loaded, receivedSequence, base, messages, hasMore, history>>
    BY <1>1 DEF ReadAnswered, ReadFails, Activate, Scroll, Refresh, RefreshFails, vars, client,
       server, cursor, shown, tasks
  <2> QED
    BY <2>1 DEF Shaped
<1>2. CASE Enter \/ Leave("none") \/ Leave("other")
  BY <1>2 DEF Enter, Leave, Reset, Shaped
<1>3. CASE Deactivate
  <2>1. base >= 0
    BY DEF Known, TypeOK, Top
  <2> QED
    BY <1>3, <2>1 DEF Deactivate, Shaped, server, cursor, shown
<1> QED
  BY <1>1, <1>2, <1>3, ShapedServer, ShapedPage, ShapedHistory, CallFacts, ShapedCalls DEF Next

LEMMA AlwaysShaped == Spec => []Shaped
<1>1. Init => Shaped
  BY DEF Init, Shaped
<1> QED
  BY <1>1, AlwaysKnown, ShapedSteps, PTL DEF Spec

\* Nothing between the first page and the cursor is left out (CursorComplete).
THEOREM NothingSkipped == Spec => []CursorComplete
<1>1. Shaped => CursorComplete
  BY DEF Shaped, CursorComplete
<1> QED
  BY <1>1, AlwaysShaped, PTL

-----------------------------------------------------------------------------
(* What was read.                                                           *)

\* Whatever position is stored, known, wanted or under way, all up to it was seen.
Covered ==
    /\ 1..lastRead \subseteq seen
    /\ 1..wantedReadSequence \subseteq seen
    /\ conversation # None => 1..conversation.read \subseteq seen
    /\ reading # None => 1..reading.seq \subseteq seen

LEMMA LargestCovered ==
    ASSUME NEW a, NEW b, NEW S, 1..a \subseteq S, 1..b \subseteq S
    PROVE  1..Largest(a, b) \subseteq S
  BY DEF Largest

\* What is published as read is on the screen or was seen before.
LEMMA CoveredPublished ==
    ASSUME Known, Known', Covered, Shaped', Published, UNCHANGED <<lastRead, conversation>>
    PROVE  Covered'
<1>1. CASE UNCHANGED <<wantedReadSequence, reading, seen>>
  BY <1>1 DEF Covered
<1>2. CASE /\ wantedReadSequence' = Largest(wantedReadSequence, receivedSequence')
           /\ seen' = seen \cup messages' \cup 1..(base' - 1)
           /\ \/ reading' = reading
              \/ /\ conversation # None /\ wantedReadSequence' > ReadPosition
                 /\ reading' = [seq |-> wantedReadSequence', fresh |-> TRUE]
  <2>1. 1..receivedSequence' \subseteq seen'
    <3>1. CASE ~loaded'
      BY <3>1 DEF Shaped
    <3>2. CASE loaded'
      <4>1. base'..receivedSequence' \subseteq seen' /\ 1..(base' - 1) \subseteq seen'
        BY <1>2, <3>2 DEF Shaped
      <4>2. base' \in Nat /\ receivedSequence' \in Nat
        BY DEF Known, TypeOK, Top
      <4>3. \A b, r \in Nat : 1..r \subseteq 1..(b - 1) \cup b..r
        OBVIOUS
      <4> QED
        BY <4>1, <4>2, <4>3
    <3> QED
      BY <3>1, <3>2
  <2>2. seen \subseteq seen'
    BY <1>2
  <2>3. 1..wantedReadSequence \subseteq seen'
    BY <2>2 DEF Covered
  <2>4. 1..wantedReadSequence' \subseteq seen'
    BY <1>2, <2>1, <2>3, LargestCovered
  <2>5. reading' # None => 1..reading'.seq \subseteq seen'
    BY <1>2, <2>2, <2>4 DEF Covered
  <2> QED
    BY <2>2, <2>4, <2>5 DEF Covered
<1> QED
  BY <1>1, <1>2, PublishedFacts

\* A report and its answer move positions within what was seen.
LEMMA CoveredAnswers ==
    ASSUME Known, Covered, ReadAnswered \/ ReadFails
    PROVE  Covered'
<1>1. UNCHANGED <<wantedReadSequence, seen>> /\ reading # None
  BY DEF ReadAnswered, ReadFails
<1>2. 1..Largest(lastRead, reading.seq) \subseteq seen
  BY <1>1, LargestCovered DEF Covered
<1>3. 1..lastRead' \subseteq seen
  BY <1>2 DEF ReadAnswered, ReadFails, Covered
<1>4. CASE reading' = None /\ conversation' = conversation
  BY <1>1, <1>3, <1>4 DEF Covered
<1>5. CASE /\ ReadAnswered /\ reading.fresh
           /\ conversation' = [conversation EXCEPT !.read = Largest(@, lastRead')]
           /\ reading' = IF wantedReadSequence > conversation'.read /\ atBottom
                         THEN [seq |-> wantedReadSequence, fresh |-> TRUE] ELSE None
  <2>1. conversation # None /\ conversation \in [read : 0..Top, can_send : BOOLEAN]
    BY <1>1, <1>5 DEF Known, TypeOK, Linked
  <2>2. conversation'.read = Largest(conversation.read, lastRead')
    BY <1>5, <2>1
  <2>3. 1..conversation'.read \subseteq seen
    BY <1>3, <2>1, <2>2, LargestCovered DEF Covered
  <2>4. reading' # None => 1..reading'.seq \subseteq seen
    BY <1>5 DEF Covered
  <2> QED
    BY <1>1, <1>3, <2>3, <2>4 DEF Covered
<1> QED
  BY <1>4, <1>5 DEF ReadAnswered, ReadFails

LEMMA CoveredRefresh ==
    ASSUME Known, Covered, Refresh
    PROVE  Covered'
<1>1. /\ conversation' = [read |-> Largest(lastRead, ReadPosition), can_send |-> ~closed]
      /\ UNCHANGED <<lastRead, wantedReadSequence, reading, seen>>
  BY DEF Refresh, server, marks
<1>2. 1..ReadPosition \subseteq seen
  BY DEF ReadPosition, Covered
<1>3. 1..Largest(lastRead, ReadPosition) \subseteq seen
  BY <1>2, LargestCovered DEF Covered
<1>4. conversation'.read = Largest(lastRead, ReadPosition)
  BY <1>1
<1> QED
  BY <1>1, <1>3, <1>4 DEF Covered

LEMMA CoveredSteps ==
    Known /\ Known' /\ Shaped' /\ Covered /\ [Next]_vars => Covered'
<1> SUFFICES ASSUME Known, Known', Shaped', Covered, [Next]_vars PROVE Covered'
  OBVIOUS
<1>1. CASE PeerSends \/ Close \/ \E id \in Ids : Store(id)
  BY <1>1, ServerFacts DEF Covered, client, marks
<1>2. CASE \/ Activate \/ RefreshFails \/ LoadHistory \/ HistoryFails \/ UNCHANGED vars
  BY <1>2 DEF Activate, RefreshFails, LoadHistory, HistoryFails, vars, client, server, marks, Covered
<1>3. CASE Scroll \/ RefreshPage \/ HistoryPage
  BY <1>3, CoveredPublished DEF Scroll, RefreshPage, HistoryPage, server
<1>4. ASSUME NEW id \in Ids, CallStep(id) PROVE Covered'
  BY <1>4, CoveredPublished DEF CallStep, server
<1>5. CASE Enter \/ Leave("none") \/ Leave("other")
  <2>1. Reset /\ UNCHANGED lastRead
    BY <1>5 DEF Enter, Leave, server
  <2> QED
    BY <2>1, StaleFacts DEF Reset, Covered
<1>6. CASE Deactivate
  BY <1>6, StaleFacts DEF Deactivate, Covered, server
<1> QED
  BY <1>1, <1>2, <1>3, <1>4, <1>5, <1>6, CoveredAnswers, CoveredRefresh, CallFacts DEF Next

\* The position reported as read passes over nothing (ReadCovered).
THEOREM ReadsNothingUnseen == Spec => []ReadCovered
<1>1. Init => Covered
  BY DEF Init, Covered
<1>2. Covered => ReadCovered
  BY DEF Covered, ReadCovered
<1> QED
  BY <1>1, <1>2, AlwaysKnown, AlwaysShaped, CoveredSteps, PTL DEF Spec

-----------------------------------------------------------------------------
(* Delivery.                                                                *)

\* A message is stored at most once and only when it was sent; what is confirmed is
\* stored; what is shown from the first page on is not pending.
Delivered ==
    \A id \in Ids :
        /\ \A s, t \in SeqsOf(id) : s = t
        /\ outbox[id] = "new" => SeqsOf(id) = {}
        /\ outbox[id] = "confirmed" => SeqsOf(id) # {}
        /\ \A s \in SeqsOf(id) \cap messages :
              s >= base => outbox[id] \notin {"sending", "failed"}

LEMMA DeliveredImplies == Known /\ Delivered => Delivery
<1> SUFFICES ASSUME Known, Delivered, NEW id \in Ids PROVE Cardinality(SeqsOf(id)) <= 1
  BY DEF Delivered, Delivery
<1>1. CASE SeqsOf(id) = {}
  BY <1>1, FS_EmptySet
<1>2. CASE SeqsOf(id) # {}
  <2>1. PICK s : SeqsOf(id) = {s}
    BY <1>2 DEF Delivered
  <2>2. Cardinality({s}) = 1
    BY FS_Singleton
  <2> QED
    BY <2>1, <2>2
<1> QED
  BY <1>1, <1>2

LEMMA DeliveredServer ==
    ASSUME Known, Delivered, PeerSends \/ Close \/ (\E id \in Ids : Store(id))
    PROVE  Delivered'
<1>1. UNCHANGED <<messages, base, outbox>> /\ messages \subseteq 1..Top
  BY ServerFacts DEF client, cursor, shown, sends, Known, TypeOK
<1>2. CASE Close
  <2>1. \A id \in Ids : SeqsOf(id)' = SeqsOf(id)
    BY <1>2 DEF Close, SeqsOf, Top
  <2> QED
    BY <1>1, <2>1 DEF Delivered
<1>3. ASSUME NEW x \in Ids \cup {Peer}, log' = Append(log, x)
      PROVE  \A id \in Ids : SeqsOf(id)' = IF id = x THEN SeqsOf(id) \cup {Top + 1} ELSE SeqsOf(id)
  <2>1. /\ Top \in Nat /\ Top' = Top + 1
        /\ \A s \in 1..Top : log'[s] = log[s]
        /\ log'[Top + 1] = x
    BY <1>3, LogGrows DEF Known
  <2>2. 1..(Top + 1) = 1..Top \cup {Top + 1}
    BY <2>1
  <2>3. \A id \in Ids : SeqsOf(id)' = {s \in 1..Top \cup {Top + 1} : log'[s] = id}
    BY <2>1, <2>2 DEF SeqsOf
  <2> QED
    BY <2>1, <2>3 DEF SeqsOf
<1>4. CASE PeerSends
  <2>1. \A id \in Ids : SeqsOf(id)' = SeqsOf(id)
    BY <1>3, <1>4, PeerIsNoId DEF PeerSends
  <2> QED
    BY <1>1, <2>1 DEF Delivered
<1>5. ASSUME NEW x \in Ids, Store(x) PROVE Delivered'
  <2>1. \A id \in Ids : SeqsOf(id)' = IF id = x THEN {Top + 1} ELSE SeqsOf(id)
    BY <1>3, <1>5 DEF Store
  <2>2. Top + 1 \notin messages /\ outbox[x] # "new"
    BY <1>1, <1>5 DEF Store, Known, TypeOK, Top
  <2> QED
    BY <1>1, <2>1, <2>2 DEF Delivered
<1> QED
  BY <1>2, <1>4, <1>5

LEMMA DeliveredPage ==
    ASSUME Known, Known', Shaped, Shaped', Delivered, RefreshPage
    PROVE  Delivered'
<1>1. \A id \in Ids : SeqsOf(id)' = SeqsOf(id)
  BY DEF RefreshPage, server, SeqsOf, Top
<1>2. PICK top \in listing..Top : FirstPage(top) \/ NextPage(top)
  BY DEF RefreshPage
<1>3. top \in 0..Top
  <2>1. listing # None
    BY DEF RefreshPage
  <2>2. Top \in Nat /\ listing \in 0..Top
    BY <2>1 DEF Known, TypeOK, Top
  <2> QED
    BY <1>2, <2>2
<1>4. \E seqs : messages' = messages \cup seqs /\ outbox' = ConfirmedBy(seqs)
  <2>1. CASE FirstPage(top)
    BY <1>3, <2>1, FirstPageFacts
  <2>2. CASE NextPage(top)
    BY <1>3, <2>2, NextPageFacts
  <2> QED
    BY <1>2, <2>1, <2>2
<1>5. base <= base'
  <2>1. base \in Nat /\ base' \in Nat
    BY DEF Known, TypeOK, Top
  <2>2. CASE FirstPage(top)
    BY <2>1, <2>2 DEF FirstPage, Shaped
  <2>3. CASE NextPage(top)
    BY <2>1, <2>3 DEF NextPage
  <2> QED
    BY <1>2, <2>2, <2>3
<1>6. PICK seqs : messages' = messages \cup seqs /\ outbox' = ConfirmedBy(seqs)
  BY <1>4
<1>7. ASSUME NEW id \in Ids, NEW s \in SeqsOf(id) \cap messages', s >= base'
      PROVE  outbox'[id] \notin {"sending", "failed"}
  <2>1. s \in Nat /\ base \in Nat /\ base' \in Nat
    BY DEF Known, TypeOK, SeqsOf, Top
  <2>2. s >= base
    BY <1>5, <1>7, <2>1
  <2>3. CASE s \in messages
    BY <1>6, <2>2, <2>3, ConfirmedFacts DEF Delivered
  <2>4. CASE s \in seqs
    BY <1>6, <2>4, ConfirmedFacts
  <2> QED
    BY <1>6, <2>3, <2>4
<1>8. \A id \in Ids : outbox'[id] = outbox[id] \/ (outbox'[id] = "confirmed" /\ SeqsOf(id) # {})
  BY <1>6, ConfirmedFacts
<1>9. \A id \in Ids :
          /\ outbox'[id] = "new" => SeqsOf(id) = {}
          /\ outbox'[id] = "confirmed" => SeqsOf(id) # {}
  BY <1>8 DEF Delivered
<1> QED
  BY <1>1, <1>7, <1>9 DEF Delivered

LEMMA DeliveredCalls ==
    ASSUME Known, Delivered, NEW x \in Ids, CallStep(x)
    PROVE  Delivered'
<1>1. (\A id \in Ids : SeqsOf(id)' = SeqsOf(id)) /\ UNCHANGED base
  BY DEF CallStep, server, cursor, SeqsOf, Top
<1>2. outbox \in [Ids -> {"new", "sending", "failed", "confirmed", "cleared"}]
  BY DEF Known, TypeOK
<1>3. \A id \in Ids \ {x} : SeqsOf(id) \cap SeqsOf(x) = {} /\ outbox'[id] = outbox[id]
  BY <1>2 DEF SeqsOf, CallStep
<1>4. CASE /\ outbox[x] \in {"new", "failed"}
           /\ outbox' = [outbox EXCEPT ![x] = "sending"]
           /\ messages' = messages
  <2>1. outbox'[x] = "sending"
    BY <1>2, <1>4
  <2>2. \A s \in SeqsOf(x) \cap messages : ~(s >= base)
    BY <1>4 DEF Delivered
  <2> QED
    BY <1>1, <1>3, <1>4, <2>1, <2>2 DEF Delivered
<1>5. CASE /\ SeqsOf(x) # {}
           /\ outbox' = [outbox EXCEPT ![x] = "confirmed"]
           /\ messages' = messages \cup SeqsOf(x) \/ messages' = messages
  <2>1. outbox'[x] = "confirmed"
    BY <1>2, <1>5
  <2> QED
    BY <1>1, <1>3, <1>5, <2>1 DEF Delivered
<1>6. CASE /\ outbox' = [outbox EXCEPT ![x] = IF @ = "sending" THEN "failed" ELSE @]
           /\ messages' = messages
  <2>1. outbox'[x] = IF outbox[x] = "sending" THEN "failed" ELSE outbox[x]
    BY <1>2, <1>6
  <2> QED
    BY <1>1, <1>3, <1>6, <2>1 DEF Delivered
<1> QED
  BY <1>4, <1>5, <1>6 DEF CallStep

LEMMA DeliveredSteps ==
    Known /\ Known' /\ Shaped /\ Shaped' /\ Delivered /\ [Next]_vars => Delivered'
<1> SUFFICES ASSUME Known, Known', Shaped, Shaped', Delivered, [Next]_vars PROVE Delivered'
  OBVIOUS
<1>1. ASSUME UNCHANGED <<log, outbox, messages, base>> PROVE Delivered'
  BY <1>1 DEF Delivered, SeqsOf, Top
<1>2. CASE \/ ReadAnswered \/ ReadFails \/ Activate \/ Deactivate \/ Scroll \/ Refresh
           \/ RefreshFails \/ LoadHistory \/ HistoryFails \/ UNCHANGED vars
  BY <1>1, <1>2 DEF ReadAnswered, ReadFails, Activate, Deactivate, Scroll, Refresh, RefreshFails,
     LoadHistory, HistoryFails, vars, client, server, cursor, shown, sends
<1>3. CASE Enter \/ Leave("none") \/ Leave("other")
  <2>1. \A id \in Ids : SeqsOf(id)' = SeqsOf(id)
    BY <1>3 DEF Enter, Leave, server, SeqsOf, Top
  <2>2. messages' = {}
    BY <1>3 DEF Enter, Leave, Reset
  <2>3. \A id \in Ids : outbox'[id] = outbox[id] \/ outbox'[id] = "cleared"
    BY <1>3 DEF Enter, Leave, sends
  <2> QED
    BY <2>1, <2>2, <2>3 DEF Delivered
<1>4. CASE HistoryPage
  <2>1. /\ \A id \in Ids : SeqsOf(id)' = SeqsOf(id)
        /\ UNCHANGED <<outbox, base>>
    BY <1>4 DEF HistoryPage, server, cursor, sends, SeqsOf, Top
  <2>2. \A s \in messages' : s \in messages \/ ~(s >= base)
    <3>1. history \in Nat /\ base \in Nat /\ history <= base
      BY DEF Known, TypeOK, Shaped, Top
    <3>2. messages' = messages \cup {s \in 1..(history - 1) : s + PageSize >= history}
      BY <1>4 DEF HistoryPage
    <3>3. \A s \in 1..(history - 1) : ~(s >= base)
      BY <3>1
    <3> QED
      BY <3>2, <3>3
  <2> QED
    BY <2>1, <2>2 DEF Delivered
<1> QED
  BY <1>2, <1>3, <1>4, DeliveredServer, DeliveredPage, CallFacts, DeliveredCalls DEF Next

\* A message is stored once, is taken from the outbox only when the server has it,
\* and is not shown both as sent and as pending (Delivery).
THEOREM DeliveredOnce == Spec => []Delivery
<1>1. Init => Delivered
  BY DEF Init, Delivered, SeqsOf, Top
<1> QED
  BY <1>1, AlwaysKnown, AlwaysShaped, DeliveredSteps, DeliveredImplies, PTL DEF Spec
=============================================================================
