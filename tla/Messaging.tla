------------------------------ MODULE Messaging ------------------------------
(* One conversation between the user of the mini program and a peer: the     *)
(* server's log of messages, and the controller of the conversation page     *)
(* that polls it, sends and retries, loads history and reports what was read *)
(* while the page is hidden and shown and the account changes under it.      *)
(* (src/frontend_miniprogram/src/features/messaging/conversation-controller  *)
(* .ts, polling.ts, context.ts, useConversation.ts; src/apps/messaging/      *)
(* services.py.)                                                             *)
(*                                                                           *)
(* A call of the API is a task: one action asks, a later one handles the     *)
(* answer or the failure. Requests to send stay on their way for ever, so    *)
(* that they may arrive late, twice, or after the client has given them up.  *)
(* generation and requestEpoch only tell whether an answer is still wanted:  *)
(* a task that has become stale is dropped when they are increased, save the *)
(* report of a read position, which keeps the next one waiting. The page's   *)
(* watchers run before any other event, so that they are part of the action. *)
EXTENDS Naturals, Sequences, FiniteSets

CONSTANTS
    Ids,       \* client_message_id of the messages the user may write
    Peer,      \* who wrote a message of the other side
    PageSize,  \* page_size of a listing
    MaxPeer,   \* bound: messages of the peer
    None       \* no conversation, no report under way

ASSUME PageSizeIsPositive == PageSize \in Nat \ {0}
ASSUME MaxPeerIsNatural == MaxPeer \in Nat
ASSUME PeerIsNoId == Peer \notin Ids
ASSUME NoneIsNoConversation == None \notin [read : Nat, can_send : BOOLEAN]

VARIABLES
    log,           \* Message rows by seq: the id of an own message, or Peer
    lastRead,      \* ConversationMember.last_read_seq of the user
    closed,        \* Conversation.status = CLOSED
    context,       \* "mine", "none" (identity withdrawn, or another page), "other" account
    active,        \* the page is visible and the application in the foreground
    loaded,        \* the first page has arrived
    receivedSequence, wantedReadSequence,
    atBottom,      \* the page's flag, of which it tells the controller
    conversation,  \* state.conversation: read position and can_send
    messages,      \* seqs in state.messages
    hasMore,
    outbox,        \* of each own message: what pendingByContext holds of it
    sending,       \* own messages whose call of sendMessage will still be heeded
    listing,       \* the poll under way: length of the log when it was asked for, or None
    history,       \* before_seq of the history call under way, or 0
    reading,       \* the report under way: position, and whether it is still wanted
    base,          \* ghost: first seq of the first page of this visit
    seen           \* ghost: seqs on the screen, or before its first page, at its bottom

server == <<log, lastRead, closed>>
place == <<context, active>>
cursor == <<loaded, receivedSequence, base>>
marks == <<wantedReadSequence, reading, seen>>
shown == <<messages, hasMore>>
sends == <<outbox, sending>>
tasks == <<listing, history>>
client == <<place, cursor, marks, shown, sends, tasks, atBottom, conversation>>
vars == <<server, client>>

MaxSeq == MaxPeer + Cardinality(Ids)
Top == Len(log)
Largest(a, b) == IF a >= b THEN a ELSE b
SeqsOf(id) == {s \in 1..Top : log[s] = id}
Open == context = "mine" /\ active

Init ==
    /\ log = <<>> /\ lastRead = 0 /\ closed = FALSE
    /\ context = "none" /\ active = FALSE
    /\ loaded = FALSE /\ receivedSequence = 0 /\ base = 0
    /\ wantedReadSequence = 0 /\ reading = None /\ seen = {}
    /\ messages = {} /\ hasMore = FALSE
    /\ outbox = [id \in Ids |-> "new"] /\ sending = {}
    /\ listing = None /\ history = 0
    /\ atBottom = TRUE /\ conversation = None

-----------------------------------------------------------------------------
(* The server. Every write locks the conversation.                          *)

\* The other participant's message is stored, sent from the web or the mini program.
PeerSends ==
    /\ ~closed /\ Cardinality(SeqsOf(Peer)) < MaxPeer
    /\ log' = Append(log, Peer)
    /\ UNCHANGED <<lastRead, closed, client>>

\* Mutation: a request that arrives again is stored again.
StoreAgain(id) ==
    /\ outbox[id] # "new"
    /\ ~closed /\ Top < MaxSeq
    /\ log' = Append(log, id)
    /\ UNCHANGED <<lastRead, closed, client>>

\* send_message: a request that was sent at any time arrives.
Store(id) ==
    /\ outbox[id] # "new"
    /\ ~closed /\ SeqsOf(id) = {}
    /\ log' = Append(log, id)
    /\ UNCHANGED <<lastRead, closed, client>>

\* close_context_conversations
Close ==
    /\ ~closed
    /\ closed' = TRUE
    /\ UNCHANGED <<log, lastRead, client>>

-----------------------------------------------------------------------------
(* Read positions.                                                          *)

ReadPosition == IF conversation = None THEN 0 ELSE conversation.read

\* markVisible and flushRead
MarkVisible ==
    /\ wantedReadSequence' = Largest(wantedReadSequence, receivedSequence')
    /\ reading' = IF reading = None /\ context = "mine" /\ conversation # None
                      /\ wantedReadSequence' > ReadPosition
                   THEN [seq |-> wantedReadSequence', fresh |-> TRUE]
                   ELSE reading

\* Ghost: what the user has before his eyes at the bottom, and what lies above it.
Look == seen' = IF active /\ atBottom' THEN seen \cup messages' \cup 1..(base' - 1) ELSE seen

\* Mutation: the page reports what arrives wherever the user is.
PublishedAnywhere ==
    /\ IF active THEN MarkVisible ELSE UNCHANGED <<wantedReadSequence, reading>>
    /\ Look

\* After each change of what is on the screen: the page's watchers of messages and
\* pending, scrollToBottom and setAtBottom. A user who is reading further up stays
\* there.
Published ==
    /\ IF active /\ atBottom' THEN MarkVisible ELSE UNCHANGED <<wantedReadSequence, reading>>
    /\ Look

\* onScroll: the user leaves the bottom, or comes back to it.
Scroll ==
    /\ Open
    /\ atBottom' = ~atBottom
    /\ UNCHANGED <<server, place, cursor, shown, sends, tasks, conversation>>
    /\ Published

\* Mutation: the answer leaves the report under way, so that what is seen since then is
\* never reported.
ReadAnsweredOnce ==
    /\ reading # None
    /\ lastRead' = Largest(lastRead, reading.seq)
    /\ IF reading.fresh
       THEN conversation' = [conversation EXCEPT !.read = Largest(@, lastRead')]
       ELSE UNCHANGED conversation
    /\ UNCHANGED <<reading, log, closed, place, cursor, wantedReadSequence, seen, shown,
                   sends, tasks, atBottom>>

\* mark_read and its answer, which flushRead heeds while the page is as it was; it
\* goes on when more is wanted by then.
ReadAnswered ==
    /\ reading # None
    /\ lastRead' = Largest(lastRead, reading.seq)
    /\ IF reading.fresh
       THEN /\ conversation' = [conversation EXCEPT !.read = Largest(@, lastRead')]
            /\ reading' = IF wantedReadSequence > conversation'.read /\ atBottom
                          THEN [seq |-> wantedReadSequence, fresh |-> TRUE]
                          ELSE None
       ELSE reading' = None /\ UNCHANGED conversation
    /\ UNCHANGED <<log, closed, place, cursor, wantedReadSequence, seen, shown, sends,
                   tasks, atBottom>>

\* The call fails, before or after the server has stored the position.
ReadFails ==
    /\ reading # None
    /\ lastRead' \in {lastRead, Largest(lastRead, reading.seq)}
    /\ reading' = None
    /\ UNCHANGED <<log, closed, place, cursor, wantedReadSequence, seen, shown, sends,
                   tasks, atBottom, conversation>>

-----------------------------------------------------------------------------
(* The page comes and goes.                                                 *)

Stale == IF reading = None THEN None ELSE [reading EXCEPT !.fresh = FALSE]

\* setContext and the page's watcher of it: everything starts again.
Reset ==
    /\ loaded' = FALSE /\ receivedSequence' = 0 /\ base' = 0
    /\ wantedReadSequence' = 0 /\ reading' = Stale /\ UNCHANGED seen
    /\ messages' = {} /\ hasMore' = FALSE
    /\ listing' = None /\ history' = 0
    /\ atBottom' = TRUE /\ conversation' = None

\* The identity is confirmed; after another account setAccount empties the outbox.
Enter ==
    /\ context # "mine"
    /\ context' = "mine"
    /\ Reset
    /\ UNCHANGED <<server, active, sends>>

\* Mutation: the calls of the former account are still heeded.
LeaveHeeding(to) ==
    /\ context # to /\ to # "mine"
    /\ context' = to
    /\ Reset
    /\ outbox' = IF to = "other"
                 THEN [id \in Ids |-> IF outbox[id] \in {"sending", "failed"} THEN "cleared"
                                      ELSE outbox[id]]
                 ELSE outbox
    /\ UNCHANGED <<server, active, sending>>

\* The identity is withdrawn for a while, or the account changes: setAccount then
\* empties the outbox and raises outboxEpoch.
Leave(to) ==
    /\ context # to /\ to # "mine"
    /\ context' = to
    /\ Reset
    /\ IF to = "other"
       THEN /\ outbox' = [id \in Ids |-> IF outbox[id] \in {"sending", "failed"}
                                         THEN "cleared" ELSE outbox[id]]
            /\ sending' = {}
       ELSE UNCHANGED sends
    /\ UNCHANGED <<server, active>>

Activate ==
    /\ ~active
    /\ active' = TRUE
    /\ UNCHANGED <<server, context, cursor, marks, shown, sends, tasks, atBottom,
                   conversation>>

Deactivate ==
    /\ active
    /\ active' = FALSE
    /\ reading' = Stale
    /\ listing' = None /\ history' = 0
    /\ UNCHANGED <<server, context, cursor, wantedReadSequence, seen, shown, sends,
                   atBottom, conversation>>

-----------------------------------------------------------------------------
(* Polling.                                                                 *)

\* The serial poller calls refresh, never twice at once: getConversation answers, and
\* the listing is asked for.
Refresh ==
    /\ Open /\ listing = None
    /\ conversation' = [read |-> Largest(lastRead, ReadPosition), can_send |-> ~closed]
    /\ listing' = Top
    /\ UNCHANGED <<server, place, cursor, marks, shown, sends, history, atBottom>>

\* What a listing confirms leaves the outbox.
ConfirmedBy(seqs) ==
    [id \in Ids |-> IF outbox[id] \in {"sending", "failed"} /\ SeqsOf(id) \cap seqs # {}
                    THEN "confirmed" ELSE outbox[id]]

\* The most recent messages, of the first top ones.
FirstPage(top) ==
    LET page == {s \in 1..top : s + PageSize > top}
    IN  /\ ~loaded /\ loaded' = TRUE
        /\ receivedSequence' = top
        /\ base' = IF top > PageSize THEN top - PageSize + 1 ELSE 1
        /\ messages' = messages \cup page
        /\ hasMore' = (top > PageSize)
        /\ outbox' = ConfirmedBy(page)
        /\ listing' = None

\* The next messages after the cursor; a full page asks for another.
NextPage(top) ==
    LET page == {s \in 1..top : receivedSequence < s /\ s <= receivedSequence + PageSize}
    IN  /\ loaded
        /\ receivedSequence' = receivedSequence + Cardinality(page)
        /\ messages' = messages \cup page
        /\ outbox' = ConfirmedBy(page)
        /\ listing' = IF Cardinality(page) < PageSize THEN None ELSE Top
        /\ UNCHANGED <<loaded, base, hasMore>>

\* listMessages answers with the log as it was at some time since it was asked.
RefreshPage ==
    /\ listing # None
    /\ \E top \in listing..Top : FirstPage(top) \/ NextPage(top)
    /\ UNCHANGED <<server, place, sending, history, atBottom, conversation>>
    /\ Published

RefreshFails ==
    /\ listing # None
    /\ listing' = None
    /\ UNCHANGED <<server, place, cursor, marks, shown, sends, history, atBottom, conversation>>

-----------------------------------------------------------------------------
(* History.                                                                 *)

Oldest == CHOOSE s \in messages : \A t \in messages : s <= t

\* loadHistory of the page and of the controller
LoadHistory ==
    /\ Open /\ hasMore /\ history = 0
    /\ atBottom' = FALSE
    /\ history' = Oldest
    /\ UNCHANGED <<server, place, cursor, marks, shown, sends, listing, conversation>>

\* The page before the oldest message: nothing is ever added there.
HistoryPage ==
    /\ history # 0
    /\ messages' = messages \cup {s \in 1..(history - 1) : s + PageSize >= history}
    /\ hasMore' = (history > PageSize + 1)
    /\ history' = 0
    /\ UNCHANGED <<server, place, cursor, sends, listing, atBottom, conversation>>
    /\ Published

HistoryFails ==
    /\ history # 0
    /\ history' = 0
    /\ UNCHANGED <<server, place, cursor, marks, shown, sends, listing, atBottom, conversation>>

-----------------------------------------------------------------------------
(* Sending.                                                                 *)

Loading == ~loaded /\ listing # None
CanSend == Open /\ conversation # None /\ conversation.can_send

\* sendPending
Post(id) ==
    /\ outbox' = [outbox EXCEPT ![id] = "sending"]
    /\ sending' = sending \cup {id}
    /\ UNCHANGED <<server, place, cursor, shown, tasks, conversation>>
    /\ Published

\* send, sendHouse; the page scrolls to the bottom.
Send(id) == CanSend /\ ~Loading /\ outbox[id] = "new" /\ atBottom' = TRUE /\ Post(id)

\* retry, by the same client_message_id
Retry(id) == CanSend /\ outbox[id] = "failed" /\ UNCHANGED atBottom /\ Post(id)

\* Mutation: the receipt moves the cursor.
ReceiptMovesCursor(id) ==
    /\ id \in sending /\ SeqsOf(id) # {}
    /\ sending' = sending \ {id}
    /\ outbox' = [outbox EXCEPT ![id] = "confirmed"]
    /\ IF context = "mine"
       THEN /\ messages' = messages \cup SeqsOf(id)
            /\ receivedSequence' = CHOOSE s \in SeqsOf(id) : TRUE
       ELSE UNCHANGED <<messages, receivedSequence>>
    /\ UNCHANGED <<server, place, loaded, base, hasMore, tasks, atBottom, conversation>>
    /\ Published

\* sendMessage answers with the message, also in another visit of the conversation.
Receipt(id) ==
    /\ id \in sending /\ SeqsOf(id) # {}
    /\ sending' = sending \ {id}
    /\ outbox' = [outbox EXCEPT ![id] = "confirmed"]
    /\ messages' = IF context = "mine" THEN messages \cup SeqsOf(id) ELSE messages
    /\ UNCHANGED <<server, place, cursor, hasMore, tasks, atBottom, conversation>>
    /\ Published

\* The call fails, whatever became of the request; what a listing has confirmed
\* meanwhile stays confirmed.
SendFails(id) ==
    /\ id \in sending
    /\ sending' = sending \ {id}
    /\ outbox' = [outbox EXCEPT ![id] = IF @ = "sending" THEN "failed" ELSE @]
    /\ UNCHANGED <<server, place, cursor, shown, tasks, atBottom, conversation>>
    /\ Published

-----------------------------------------------------------------------------

Next ==
    \/ PeerSends \/ Close
    \/ Scroll \/ ReadAnswered \/ ReadFails
    \/ Enter \/ Leave("none") \/ Leave("other") \/ Activate \/ Deactivate
    \/ Refresh \/ RefreshPage \/ RefreshFails
    \/ LoadHistory \/ HistoryPage \/ HistoryFails
    \/ \E id \in Ids : Store(id) \/ Send(id) \/ Retry(id) \/ Receipt(id) \/ SendFails(id)

Spec == Init /\ [][Next]_vars

\* The poller's timer runs, and a call that is made again and again is answered in
\* the end.
FairSpec ==
    /\ Spec
    /\ WF_vars(Refresh) /\ SF_vars(RefreshPage) /\ SF_vars(ReadAnswered)

-----------------------------------------------------------------------------
(* Properties.                                                              *)

\* Every variable holds a value it can hold, and only calls of the present account
\* are still heeded.
TypeOK ==
    /\ log \in Seq(Ids \cup {Peer}) /\ lastRead \in 0..Top /\ closed \in BOOLEAN
    /\ context \in {"mine", "none", "other"} /\ active \in BOOLEAN
    /\ atBottom \in BOOLEAN
    /\ loaded \in BOOLEAN /\ receivedSequence \in 0..Top /\ base \in 0..(Top + 1)
    /\ wantedReadSequence \in 0..Top /\ seen \subseteq 1..Top
    /\ reading = None \/ reading \in [seq : 1..Top, fresh : BOOLEAN]
    /\ conversation = None \/ conversation \in [read : 0..Top, can_send : BOOLEAN]
    /\ messages \subseteq 1..Top /\ hasMore \in BOOLEAN
    /\ outbox \in [Ids -> {"new", "sending", "failed", "confirmed", "cleared"}]
    /\ sending \subseteq {id \in Ids : outbox[id] \in {"sending", "confirmed"}}
    /\ listing \in {None} \cup 0..Top /\ history \in 0..Top

\* A message is stored once however often its request arrives and is retried; it is
\* taken from the outbox only when the server has it (or another account has come),
\* and from the first page on it is never shown both as sent and as pending. (A page
\* of history does not confirm what it brings: there it may be.)
Delivery ==
    \A id \in Ids :
        /\ Cardinality(SeqsOf(id)) <= 1
        /\ outbox[id] = "confirmed" => SeqsOf(id) # {}
        /\ \A s \in SeqsOf(id) \cap messages :
              s >= base => outbox[id] \notin {"sending", "failed"}

\* The position reported as read passes over nothing: each message up to it was on
\* the screen while the user was at its bottom, or lies before the first page the
\* user was shown. Sending a message, in particular, reads nothing.
ReadCovered == 1..lastRead \subseteq seen

\* Nothing between the first page and the cursor is left out, whatever receipts were
\* merged in between; below, a gap only opens above a message of the user's own.
CursorComplete ==
    loaded =>
        /\ base..receivedSequence \subseteq messages
        /\ \A s \in messages :
              s < receivedSequence /\ s + 1 \notin messages => log[s] \in Ids

\* While the user stays at the bottom of the open conversation, everything written is
\* marked as read in the end, once nobody writes any more: the unread count goes to
\* zero although reports were lost or belong to an earlier visit.
ReadCatchesUp == Open /\ atBottom ~> lastRead = Top \/ ~Open \/ ~atBottom
=============================================================================
