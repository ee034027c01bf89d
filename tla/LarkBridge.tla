----------------------------- MODULE LarkBridge -----------------------------
(***************************************************************************)
(* The bridge between the chat of a quote and Lark: web messages that the  *)
(* reader does not have on screen are announced to him by a card, messages *)
(* soon after a card are only counted and announced with the next one, and *)
(* what he answers in Lark goes into the chat.  One reader, whose rows of  *)
(* quote_chat_reads the calls of onWebMessage share without a lock.        *)
(*                                                                         *)
(* A message is its number in the chat of its quote.  larkPendingCount is  *)
(* modelled by the set of messages it counts.                              *)
(***************************************************************************)
EXTENDS Naturals, Sequences, Functions

CONSTANTS
  Quotes,       \* quotes whose chat the reader takes part in
  Sockets,      \* the reader's sockets
  Calls,        \* slots for handleSendMessage and the onWebMessage it starts
  Replies,      \* slots for handleInboundLarkMessage
  NoQuote,      \* no quote
  MaxMessages,  \* bound: messages of all chats
  MaxCards      \* bound: cards

ASSUME BridgeAssumption == NoQuote \notin Quotes /\ {MaxMessages, MaxCards} \subseteq Nat

VARIABLES
  cancelled,    \* quotes with status CANCELLED
  active,       \* activeChatRequest
  saved,        \* number of messages written for the reader, by quote
  row,          \* larkAnchorMsgId and larkLastDmAt; 0 is null
  counted,      \* larkPendingCount
  cooling,      \* less than DM_DIGEST_COOLDOWN_MS since larkLastDmAt
  cards,        \* the cards the reader got, in this order
  call, reply,  \* locals of the handlers in flight
  engaged,      \* quotes whose count is to be reset: the reader opened or answered
  clock,        \* Date.now(), advanced when a row is updated after a card
  settled,      \* history: messages no card has to announce any more
  apart         \* history: quotes whose cards never overlapped so far

chat == <<cancelled, active, saved>>
lark == <<row, counted, cooling, cards, clock>>
history == <<settled, apart>>
vars == <<chat, lark, call, reply, engaged, history>>

NoCall == [at |-> "idle", quote |-> NoQuote, msg |-> 0, first |-> FALSE, tells |-> {}, card |-> 0]
NoReply == [at |-> "idle", quote |-> NoQuote]
NoRow == [anchor |-> 0, lastDm |-> 0]

Card(q, msgs) == [quote |-> q, tells |-> msgs, sentAt |-> clock]

CallStates == [at : {"idle", "decide", "count", "send", "record"},
               quote : Quotes \cup {NoQuote}, msg : Nat, first : BOOLEAN,
               tells : SUBSET Nat, card : Nat]

TypeOK ==
  /\ cancelled \subseteq Quotes
  /\ active \in [Sockets -> Quotes \cup {NoQuote}]
  /\ saved \in [Quotes -> Nat]
  /\ row \in [Quotes -> [anchor : Nat, lastDm : Nat]]
  /\ counted \in [Quotes -> SUBSET Nat]
  /\ cooling \subseteq Quotes
  /\ cards \in Seq([quote : Quotes, tells : SUBSET Nat, sentAt : Nat])
  /\ call \in [Calls -> CallStates]
  /\ reply \in [Replies -> [at : {"idle", "save"}, quote : Quotes \cup {NoQuote}]]
  /\ engaged \subseteq Quotes
  /\ clock \in Nat
  /\ settled \in [Quotes -> SUBSET Nat]
  /\ apart \subseteq Quotes

Init ==
  /\ cancelled = {}
  /\ active = [s \in Sockets |-> NoQuote]
  /\ saved = [q \in Quotes |-> 0]
  /\ row = [q \in Quotes |-> NoRow]
  /\ counted = [q \in Quotes |-> {}]
  /\ cooling = {} /\ cards = <<>> /\ engaged = {} /\ clock = 0
  /\ call = [c \in Calls |-> NoCall]
  /\ reply = [p \in Replies |-> NoReply]
  /\ settled = [q \in Quotes |-> {}]
  /\ apart = Quotes

-----------------------------------------------------------------------------
\* handleSendMessage

\* saveMessage: the quote is not cancelled, the message is stored and sent to the
\* room.  (Check and insert are one step: what follows does not depend on a
\* cancellation between them.)
SaveMessage(c, q) ==
  /\ call[c].at = "idle" /\ q \notin cancelled
  /\ SumFunction(saved) < MaxMessages
  /\ saved' = [saved EXCEPT ![q] = @ + 1]
  /\ call' = [call EXCEPT ![c] = [@ EXCEPT !.at = "decide", !.quote = q, !.msg = saved[q] + 1]]
  /\ UNCHANGED <<cancelled, active, lark, reply, engaged, history>>

\* recipientInRoom
InRoom(q) == \E s \in Sockets : active[s] = q

Settle(q, msgs) == settled' = [settled EXCEPT ![q] = @ \cup msgs]

\* maybeBridgeToLark: the reader has not opened this chat.  (The sender is checked
\* again; a cancelled quote stops him unless he is ADMIN.)
Bridge(c) ==
  /\ call[c].at = "decide" /\ ~ InRoom(call[c].quote)
  /\ call' = [call EXCEPT ![c].at = "count"]
  /\ UNCHANGED <<chat, lark, reply, engaged, history>>

NoBridge(c) ==
  /\ call[c].at = "decide" /\ (InRoom(call[c].quote) \/ call[c].quote \in cancelled)
  /\ Settle(call[c].quote, {call[c].msg})
  /\ call' = [call EXCEPT ![c] = NoCall]
  /\ UNCHANGED <<chat, lark, reply, engaged, apart>>

\* onWebMessage: isBridgeEnabled is false, which an ADMIN may change at any moment,
\* the reader has no Lark account, or the quote is gone
BridgeOff(c) ==
  /\ call[c].at = "count"
  /\ Settle(call[c].quote, {call[c].msg})
  /\ call' = [call EXCEPT ![c] = NoCall]
  /\ UNCHANGED <<chat, lark, reply, engaged, apart>>

\* another call has a card of this quote under way
UnderWay(q) == \E d \in Calls : call[d].at \in {"send", "record"} /\ call[d].quote = q

\* mutant: the digest is sent whatever the time of the last card
NeverCooling(q) == FALSE

Cooling(q) == q \in cooling

\* mutant: the digest announces the messages counted before this one
TellsOthers(q, n) == IF row[q].anchor = 0 THEN {n} ELSE counted[q]

\* what the card announces: the first one its message, a digest all that is counted
Tells(q, n) == IF row[q].anchor = 0 THEN {n} ELSE counted[q] \cup {n}

\* onWebMessage: the upsert counts the message and reads the row; what it read
\* decides whether a card is sent
Count(c) ==
  LET q == call[c].quote
      n == call[c].msg
      quiet == row[q].anchor # 0 /\ Cooling(q)
  IN
  /\ call[c].at = "count"
  /\ counted' = [counted EXCEPT ![q] = @ \cup {n}]
  /\ apart' = IF UnderWay(q) THEN apart \ {q} ELSE apart
  /\ call' = [call EXCEPT ![c] =
       IF quiet THEN NoCall
       ELSE [@ EXCEPT !.at = "send", !.first = row[q].anchor = 0, !.tells = Tells(q, n)]]
  /\ UNCHANGED <<chat, row, cooling, cards, clock, reply, engaged, settled>>

\* sendDirectCard: Lark delivers the card
SendDirectCard(c) ==
  /\ call[c].at = "send" /\ Len(cards) < MaxCards
  /\ cards' = Append(cards, Card(call[c].quote, call[c].tells))
  /\ call' = [call EXCEPT ![c] = [@ EXCEPT !.at = "record", !.card = Len(cards) + 1]]
  /\ UNCHANGED <<chat, row, counted, cooling, clock, reply, engaged, history>>

\* mutant: the newest card of all becomes the anchor
NewestCard(c) == Len(cards)

\* sent.messageId
SentCard(c) == call[c].card

\* mutant: the count goes on after a card
CountKept(q) == counted[q]

\* larkPendingCount: 0
CountCleared(q) == {}

\* the update after the card
Record(c) ==
  LET q == call[c].quote IN
  /\ call[c].at = "record"
  /\ row' = [row EXCEPT ![q] = [anchor |-> SentCard(c), lastDm |-> clock + 1]]
  /\ counted' = [counted EXCEPT ![q] = CountCleared(q)]
  /\ cooling' = cooling \cup {q}
  /\ clock' = clock + 1
  /\ call' = [call EXCEPT ![c] = NoCall]
  /\ UNCHANGED <<chat, cards, reply, engaged, history>>

\* Any await may fail, and the process may restart.  A message that is not counted
\* yet is then forgotten, and so is one whose first card failed.
GiveUp(c) ==
  /\ call[c].at # "idle"
  /\ IF call[c].at \in {"decide", "count"} \/ (call[c].at = "send" /\ call[c].first)
     THEN Settle(call[c].quote, {call[c].msg})
     ELSE UNCHANGED settled
  /\ call' = [call EXCEPT ![c] = NoCall]
  /\ UNCHANGED <<chat, lark, reply, engaged, apart>>

-----------------------------------------------------------------------------
\* handleJoin without passive, or handleMarkRead, which have passed assertParticipant an
\* await earlier: the quote may be cancelled now, and an ADMIN passes in any case
Open(s, q) ==
  /\ active' = [active EXCEPT ![s] = q]
  /\ engaged' = engaged \cup {q}
  /\ UNCHANGED <<cancelled, saved, lark, call, reply, history>>

\* handleDisconnect
Disconnect(s) ==
  /\ active[s] # NoQuote
  /\ active' = [active EXCEPT ![s] = NoQuote]
  /\ UNCHANGED <<cancelled, saved, lark, call, reply, engaged, history>>

\* onRecipientEngaged, or the end of handleInboundLarkMessage: larkPendingCount: 0
ResetCount(q) ==
  /\ q \in engaged
  /\ counted' = [counted EXCEPT ![q] = {}]
  /\ Settle(q, 1 .. saved[q])
  /\ engaged' = engaged \ {q}
  /\ UNCHANGED <<chat, row, cooling, cards, clock, call, reply, apart>>

\* the statement fails and the error is logged
ResetFails(q) ==
  /\ q \in engaged
  /\ engaged' = engaged \ {q}
  /\ UNCHANGED <<chat, lark, call, reply, history>>

-----------------------------------------------------------------------------
\* handleInboundLarkMessage

\* the rows the text may be an answer to
Live == { q \in Quotes : row[q].anchor # 0 /\ q \notin cancelled }

\* the text is an answer in the thread of a card: root_id
ReplyInThread(p, k) ==
  /\ reply[p].at = "idle"
  /\ \E q \in Live :
       /\ row[q].anchor = k
       /\ reply' = [reply EXCEPT ![p] = [at |-> "save", quote |-> q]]
  /\ UNCHANGED <<chat, lark, call, engaged, history>>

\* mutant: the row without an order
AnyLive == Live

\* mutant: the answer of findFirst is used unseen
Unseen == IF Live = {} THEN {NoQuote} ELSE Live

\* orderBy larkLastDmAt desc
Latest == { q \in Live : \A r \in Live : row[r].lastDm <= row[q].lastDm }

\* the text was typed without a thread
ReplyBare(p) ==
  /\ reply[p].at = "idle"
  /\ \E q \in Latest : reply' = [reply EXCEPT ![p] = [at |-> "save", quote |-> q]]
  /\ UNCHANGED <<chat, lark, call, engaged, history>>

\* saveMessage: refused when the quote was cancelled, otherwise the message of the
\* reader is stored and sent to the room, and the count is to be reset
SaveReply(p) ==
  /\ reply[p].at = "save"
  /\ engaged' = IF reply[p].quote \in cancelled THEN engaged ELSE engaged \cup {reply[p].quote}
  /\ reply' = [reply EXCEPT ![p] = NoReply]
  /\ UNCHANGED <<chat, lark, call, history>>

ReplyFails(p) ==
  /\ reply[p].at # "idle"
  /\ reply' = [reply EXCEPT ![p] = NoReply]
  /\ UNCHANGED <<chat, lark, call, engaged, history>>

-----------------------------------------------------------------------------
\* CANCEL and RESTORE of the workflow
SetCancelled(q) ==
  /\ cancelled' = (cancelled \ {q}) \cup ({q} \ cancelled)
  /\ UNCHANGED <<active, saved, lark, call, reply, engaged, history>>

\* the cooldown of a row ends
CooldownEnds(q) ==
  /\ q \in cooling
  /\ cooling' = cooling \ {q}
  /\ UNCHANGED <<chat, row, counted, cards, clock, call, reply, engaged, history>>

\* the process restarts, after its handlers gave up: sockets are gone
Restart ==
  /\ \A c \in Calls : call[c].at = "idle"
  /\ \A p \in Replies : reply[p].at = "idle"
  /\ active' = [s \in Sockets |-> NoQuote]
  /\ engaged' = {}
  /\ UNCHANGED <<cancelled, saved, lark, call, reply, history>>

HandleSendMessage(c) ==
  \/ \E q \in Quotes : SaveMessage(c, q)
  \/ Bridge(c) \/ NoBridge(c) \/ BridgeOff(c)
  \/ Count(c) \/ SendDirectCard(c) \/ Record(c) \/ GiveUp(c)

HandleInbound(p) ==
  \/ \E k \in 1 .. Len(cards) : ReplyInThread(p, k)
  \/ ReplyBare(p) \/ SaveReply(p) \/ ReplyFails(p)

Read(q) == (\E s \in Sockets : Open(s, q)) \/ ResetCount(q) \/ ResetFails(q)

Next ==
  \/ \E c \in Calls : HandleSendMessage(c)
  \/ \E p \in Replies : HandleInbound(p)
  \/ \E q \in Quotes : Read(q) \/ SetCancelled(q) \/ CooldownEnds(q)
  \/ \E s \in Sockets : Disconnect(s)
  \/ Restart

Spec == Init /\ [][Next]_vars

-----------------------------------------------------------------------------
\* what the cards have announced of a quote
Told(q) == UNION { cards[k].tells : k \in { i \in 1 .. Len(cards) : cards[i].quote = q } }

\* messages whose fate is not decided yet
Deciding(q) ==
  { call[c].msg : c \in { d \in Calls : call[d].quote = q /\ call[d].at \in {"decide", "count"} } }

\* No message falls through: it was announced by a card, is counted for the next
\* one, or the reader opened the chat or answered after it, whatever fails or is
\* cancelled, opened, answered and switched meanwhile.  Two exceptions: messages
\* the code gave up before they were counted or with a first card that failed, and
\* chats in which a message was counted while the card of another one was under way
\* (the reset after that card forgets it).
AllTold ==
  \A q \in apart :
    1 .. saved[q] \subseteq Told(q) \cup counted[q] \cup settled[q] \cup Deciding(q)

\* What the anchor of a row and the cards before it have announced is not counted, so
\* the next digest announces new messages only, however the cards of the quote overlap.
NothingTwice ==
  \A q \in Quotes : row[q].anchor # 0 =>
    \A k \in 1 .. row[q].anchor : cards[k].quote = q => cards[k].tells \cap counted[q] = {}

\* The anchor of a row is a card the reader got about the quote of that row, so an
\* answer in the thread of a card cannot reach the chat of another quote, however
\* the calls of several quotes overlap.
AnchorOfQuote ==
  \A q \in Quotes : row[q].anchor # 0 =>
    row[q].anchor <= Len(cards) /\ cards[row[q].anchor].quote = q

\* A text without a thread answers the latest card: no other open quote has an
\* anchor that was sent after the anchor of the quote chosen was recorded.
BareTakesLatest ==
  [][\A p \in Replies : ReplyBare(p) =>
       \A q \in Live : q # reply'[p].quote =>
         cards[row[q].anchor].sentAt < row[reply'[p].quote].lastDm]_vars

\* Lark is not flooded: during the cooldown no further card of a quote is sent, except
\* by a call that was under way when the card before it was recorded.
Spaced ==
  [][\A c \in Calls : SendDirectCard(c) /\ call[c].quote \in apart =>
       call[c].quote \notin cooling]_vars
=============================================================================
