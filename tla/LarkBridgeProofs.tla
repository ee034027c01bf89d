-------------------------- MODULE LarkBridgeProofs --------------------------
(***************************************************************************)
(* What LarkBridge promises, for any quotes, calls, replies and bounds.    *)
(***************************************************************************)
EXTENDS LarkBridge, SequenceTheorems, TLAPS

Sending(c) == call[c].at \in {"send", "record"}
Undecided(c) == call[c].at \in {"decide", "count"}

\* A handler in flight works on a quote; one that records has its card.
CallOK ==
  \A c \in Calls :
    /\ call[c].at # "idle" => call[c].quote \in Quotes
    /\ call[c].at = "record" =>
         /\ call[c].card \in 1 .. Len(cards)
         /\ cards[call[c].card].quote = call[c].quote
         /\ cards[call[c].card].tells = call[c].tells

ReplyOK == \A p \in Replies : reply[p].at # "idle" => reply[p].quote \in Quotes

\* Cards are sent at some time past, the anchor of a row before the row was updated.
CardTimes == \A k \in 1 .. Len(cards) : cards[k].sentAt <= clock

AnchorTimes ==
  \A q \in Quotes : row[q].anchor # 0 => cards[row[q].anchor].sentAt < row[q].lastDm

\* Nothing is counted or announced that was not written.
Written ==
  /\ \A q \in Quotes : counted[q] \subseteq 1 .. saved[q]
  /\ \A k \in 1 .. Len(cards) : cards[k].tells \subseteq 1 .. saved[cards[k].quote]
  /\ \A c \in Calls : call[c].at # "idle" => call[c].msg \in 1 .. saved[call[c].quote]
  /\ \A c \in Calls : Sending(c) => call[c].tells \subseteq 1 .. saved[call[c].quote]

\* A message that is not decided yet is nowhere else.
Fresh ==
  \A c \in Calls : Undecided(c) =>
    /\ call[c].msg \notin counted[call[c].quote]
    /\ \A k \in 1 .. Len(cards) : cards[k].quote = call[c].quote => call[c].msg \notin cards[k].tells
    /\ \A d \in Calls : Sending(d) /\ call[d].quote = call[c].quote => call[c].msg \notin call[d].tells
    /\ \A d \in Calls : Undecided(d) /\ call[d].quote = call[c].quote /\ call[d].msg = call[c].msg => c = d

\* Cards that do not overlap: one at a time is under way.
OneUnderWay ==
  \A c, d \in Calls :
    Sending(c) /\ Sending(d) /\ call[c].quote = call[d].quote /\ call[c].quote \in apart => c = d

\* What the update after a card will no longer count needs no card any more.
Covered ==
  \A c \in Calls : Sending(c) =>
    /\ call[c].msg \in call[c].tells
    /\ call[c].quote \in apart =>
         counted[call[c].quote] \subseteq
           call[c].tells \cup settled[call[c].quote] \cup Told(call[c].quote)

\* Before the first card of a quote is recorded, a counted message is announced, given
\* up, or on its way.
BeforeFirst ==
  \A q \in apart : row[q].anchor = 0 =>
    \A n \in counted[q] :
      n \in settled[q] \cup Told(q) \/ \E c \in Calls : Sending(c) /\ call[c].quote = q /\ call[c].msg = n

FirstKnown == \A c \in Calls : call[c].at = "send" /\ row[call[c].quote].anchor = 0 => call[c].first

\* The cooldown begins with a recorded card, and stops calls that have not begun.
CoolingOK ==
  \A q \in cooling :
    /\ row[q].anchor # 0
    /\ q \in apart => \A c \in Calls : Sending(c) => call[c].quote # q

Types == TypeOK /\ CallOK /\ ReplyOK
Anchors == AnchorOfQuote /\ CardTimes /\ AnchorTimes
News == Written /\ Fresh /\ NothingTwice
Cover == OneUnderWay /\ Covered /\ BeforeFirst /\ FirstKnown /\ CoolingOK /\ AllTold
IInv == Types /\ Anchors /\ News /\ Cover

-----------------------------------------------------------------------------
CardType == [quote : Quotes, tells : SUBSET Nat, sentAt : Nat]

\* The fields of a card have their types.
LEMMA CardFields ==
  ASSUME TypeOK, NEW k \in 1 .. Len(cards)
  PROVE  cards[k].quote \in Quotes /\ cards[k].tells \in SUBSET Nat /\ cards[k].sentAt \in Nat
<1>1. cards \in Seq(CardType) /\ Len(cards) \in Nat
  BY DEF TypeOK, CardType
<1>2. cards[k] \in CardType
  BY <1>1, ElementOfSeq
<1> QED  BY <1>2 DEF CardType

\* What a card appended to the others leaves as it was.
LEMMA AppendCard ==
  ASSUME TypeOK, NEW c \in Calls, SendDirectCard(c), call[c].quote \in Quotes
  PROVE  /\ cards' \in Seq([quote : Quotes, tells : SUBSET Nat, sentAt : Nat])
         /\ Len(cards) \in Nat /\ Len(cards') = Len(cards) + 1
         /\ \A k \in 1 .. Len(cards) : cards'[k] = cards[k]
         /\ cards'[Len(cards) + 1].quote = call[c].quote
         /\ cards'[Len(cards) + 1].tells = call[c].tells
         /\ cards'[Len(cards) + 1].sentAt = clock
<1> DEFINE new == Card(call[c].quote, call[c].tells)
<1>1. call[c].tells \in SUBSET Nat /\ clock \in Nat
  BY DEF TypeOK, CallStates
<1>2. /\ new \in CardType
      /\ new.quote = call[c].quote /\ new.tells = call[c].tells /\ new.sentAt = clock
  BY <1>1 DEF Card, CardType
<1>3. cards \in Seq(CardType) /\ cards' = Append(cards, new)
  BY DEF TypeOK, SendDirectCard, CardType
<1> HIDE DEF new
<1>4. /\ cards' \in Seq(CardType)
      /\ Len(cards) \in Nat /\ Len(cards') = Len(cards) + 1
      /\ \A k \in 1 .. Len(cards) : cards'[k] = cards[k]
      /\ cards'[Len(cards) + 1] = new
  BY <1>2, <1>3
<1> QED  BY <1>2, <1>4 DEF CardType

\* A message is told when a card of its quote tells it.
LEMMA ToldMember ==
  ASSUME NEW q, NEW n
  PROVE  n \in Told(q) <=>
           \E k \in 1 .. Len(cards) : cards[k].quote = q /\ n \in cards[k].tells
BY DEF Told

\* The steps of the handlers.
LEMMA Steps ==
  ASSUME Next
  PROVE  \/ \E c \in Calls : \/ \E q \in Quotes : SaveMessage(c, q)
                            \/ Bridge(c) \/ NoBridge(c) \/ BridgeOff(c) \/ Count(c)
                            \/ SendDirectCard(c) \/ Record(c) \/ GiveUp(c)
         \/ \E p \in Replies : \/ \E k \in 1 .. Len(cards) : ReplyInThread(p, k)
                              \/ ReplyBare(p) \/ SaveReply(p) \/ ReplyFails(p)
         \/ \E q \in Quotes : ResetCount(q)
         \/ \E q \in Quotes : ResetFails(q) \/ SetCancelled(q) \/ CooldownEnds(q)
         \/ \E s \in Sockets : \/ \E q \in Quotes : Open(s, q)
                              \/ Disconnect(s)
         \/ Restart
BY DEF Next, HandleSendMessage, HandleInbound, Read

\* What a call in flight works on.
LEMMA CallFacts ==
  ASSUME TypeOK, CallOK, NEW c \in Calls, call[c].at # "idle"
  PROVE  /\ call[c].quote \in Quotes /\ call[c].msg \in Nat
         /\ call[c].card \in Nat /\ call[c].tells \in SUBSET Nat
BY DEF TypeOK, CallOK, CallStates

\* The locals of a call keep their type.
LEMMA CallTypes ==
  ASSUME TypeOK, CallOK, [Next]_vars
  PROVE  call' \in [Calls -> CallStates]
<1>1. /\ call \in [Calls -> CallStates] /\ saved \in [Quotes -> Nat] /\ NoCall \in CallStates
      /\ counted \in [Quotes -> SUBSET Nat] /\ Len(cards) \in Nat
  BY DEF TypeOK, NoCall, CallStates
<1>2. ASSUME NEW c \in Calls, NEW q \in Quotes, SaveMessage(c, q)
      PROVE  call' \in [Calls -> CallStates]
  <2>1. call[c] \in CallStates /\ saved[q] + 1 \in Nat
    BY <1>1
  <2>2. [call[c] EXCEPT !.at = "decide", !.quote = q, !.msg = saved[q] + 1] \in CallStates
    BY <2>1 DEF CallStates
  <2> QED  BY <1>1, <1>2, <2>2 DEF SaveMessage
<1>3. ASSUME NEW c \in Calls, Bridge(c)  PROVE call' \in [Calls -> CallStates]
  BY <1>1, <1>3 DEF Bridge, CallStates
<1>4. ASSUME NEW c \in Calls, NoBridge(c) \/ BridgeOff(c) \/ Record(c) \/ GiveUp(c)
      PROVE  call' \in [Calls -> CallStates]
  BY <1>1, <1>4 DEF NoBridge, BridgeOff, Record, GiveUp
<1>5. ASSUME NEW c \in Calls, Count(c)  PROVE call' \in [Calls -> CallStates]
  <2> DEFINE q == call[c].quote
  <2>1. call[c] \in CallStates /\ q \in Quotes /\ call[c].msg \in Nat
    BY <1>1, <1>5 DEF Count, CallOK, CallStates
  <2>2. Tells(q, call[c].msg) \in SUBSET Nat
    BY <1>1, <2>1 DEF Tells
  <2> DEFINE first == row[q].anchor = 0
             tells == Tells(q, call[c].msg)
  <2>3. [call[c] EXCEPT !.at = "send", !.first = first, !.tells = tells] \in CallStates
    <3>1. first \in BOOLEAN /\ tells \in SUBSET Nat
      BY <2>2
    <3> HIDE DEF first, tells
    <3> QED  BY <2>1, <3>1 DEF CallStates
  <2> QED  BY <1>1, <1>5, <2>3 DEF Count
<1>6. ASSUME NEW c \in Calls, SendDirectCard(c)  PROVE call' \in [Calls -> CallStates]
  <2>0. call[c] \in CallStates /\ Len(cards) + 1 \in Nat
    BY <1>1
  <2>1. [call[c] EXCEPT !.at = "record", !.card = Len(cards) + 1] \in CallStates
    BY <2>0 DEF CallStates
  <2> QED  BY <1>1, <1>6, <2>1 DEF SendDirectCard
<1>7. ASSUME UNCHANGED call  PROVE call' \in [Calls -> CallStates]
  BY <1>1, <1>7
<1> QED
  BY <1>2, <1>3, <1>4, <1>5, <1>6, <1>7, Steps
  DEF vars, ReplyInThread, ReplyBare, SaveReply, ReplyFails, ResetCount, ResetFails,
      SetCancelled, CooldownEnds, Open, Disconnect, Restart

\* Every step keeps the types.
LEMMA TypeStep ==
  ASSUME Types, [Next]_vars
  PROVE  TypeOK'
<1> USE DEF Types, TypeOK, ReplyOK, history, chat, lark
<1>0. call' \in [Calls -> CallStates]
  BY CallTypes
<1>1. ASSUME NEW c \in Calls, NEW q \in Quotes, SaveMessage(c, q)  PROVE TypeOK'
  BY <1>0, <1>1 DEF SaveMessage
<1>2. ASSUME NEW c \in Calls, Bridge(c)  PROVE TypeOK'
  BY <1>0, <1>2 DEF Bridge
<1>3. ASSUME NEW c \in Calls, NoBridge(c) \/ BridgeOff(c)  PROVE TypeOK'
  <2>1. call[c].quote \in Quotes /\ call[c].msg \in Nat
    BY <1>3, CallFacts DEF NoBridge, BridgeOff
  <2>2. settled' = [settled EXCEPT ![call[c].quote] = @ \cup {call[c].msg}]
    BY <1>3 DEF NoBridge, BridgeOff, Settle
  <2>3. settled' \in [Quotes -> SUBSET Nat]
    BY <2>1, <2>2
  <2> QED  BY <1>0, <1>3, <2>3 DEF NoBridge, BridgeOff
<1>4. ASSUME NEW c \in Calls, Count(c)  PROVE TypeOK'
  BY CallFacts, <1>0, <1>4 DEF Count, Tells
<1>5. ASSUME NEW c \in Calls, SendDirectCard(c)  PROVE TypeOK'
  BY CallFacts, <1>0, <1>5, AppendCard DEF SendDirectCard
<1>6. ASSUME NEW c \in Calls, Record(c)  PROVE TypeOK'
  <2>1. call[c].quote \in Quotes /\ call[c].card \in Nat
    BY <1>6, CallFacts DEF Record
  <2>2. /\ row' \in [Quotes -> [anchor : Nat, lastDm : Nat]]
        /\ counted' \in [Quotes -> SUBSET Nat] /\ cooling' \subseteq Quotes
    BY <1>6, <2>1 DEF Record, SentCard, CountCleared
  <2> QED  BY <1>0, <1>6, <2>2 DEF Record
<1>7. ASSUME NEW c \in Calls, GiveUp(c)  PROVE TypeOK'
  <2>1. call[c].quote \in Quotes /\ call[c].msg \in Nat
    BY <1>7, CallFacts DEF GiveUp
  <2>2. settled' \in [Quotes -> SUBSET Nat]
    BY <1>7, <2>1 DEF GiveUp, Settle
  <2> QED  BY <1>0, <1>7, <2>2 DEF GiveUp
<1>8. ASSUME NEW p \in Replies, NEW k \in 1 .. Len(cards), ReplyInThread(p, k)  PROVE TypeOK'
  <2>1. PICK q \in Quotes : reply' = [reply EXCEPT ![p] = [at |-> "save", quote |-> q]]
    BY <1>8 DEF ReplyInThread, Live
  <2>2. reply' \in [Replies -> [at : {"idle", "save"}, quote : Quotes \cup {NoQuote}]]
    BY <2>1
  <2> QED  BY <1>0, <1>8, <2>2 DEF ReplyInThread
<1>9. ASSUME NEW p \in Replies, ReplyBare(p)  PROVE TypeOK'
  <2>1. PICK q \in Quotes : reply' = [reply EXCEPT ![p] = [at |-> "save", quote |-> q]]
    BY <1>9 DEF ReplyBare, Latest, Live
  <2>2. reply' \in [Replies -> [at : {"idle", "save"}, quote : Quotes \cup {NoQuote}]]
    BY <2>1
  <2> QED  BY <1>0, <1>9, <2>2 DEF ReplyBare
<1>10. ASSUME NEW p \in Replies, SaveReply(p) \/ ReplyFails(p)  PROVE TypeOK'
  <2>1. NoReply \in [at : {"idle", "save"}, quote : Quotes \cup {NoQuote}]
    BY DEF NoReply
  <2>2. engaged' \subseteq Quotes
    BY <1>10 DEF SaveReply, ReplyFails
  <2> QED  BY <1>0, <1>10, <2>1, <2>2 DEF SaveReply, ReplyFails
<1>11. ASSUME NEW q \in Quotes, ResetCount(q)  PROVE TypeOK'
  BY <1>0, <1>11 DEF ResetCount, Settle
<1>12. ASSUME NEW q \in Quotes, ResetFails(q) \/ SetCancelled(q) \/ CooldownEnds(q)  PROVE TypeOK'
  BY <1>0, <1>12 DEF ResetFails, SetCancelled, CooldownEnds
<1>13. ASSUME NEW s \in Sockets, NEW q \in Quotes, Open(s, q)  PROVE TypeOK'
  BY <1>0, <1>13 DEF Open
<1>14. ASSUME NEW s \in Sockets, Disconnect(s)  PROVE TypeOK'
  BY <1>0, <1>14 DEF Disconnect
<1>15. CASE Restart
  BY <1>0, <1>15 DEF Restart
<1>16. CASE UNCHANGED vars
  BY <1>0, <1>16 DEF vars
<1> QED
  BY <1>1, <1>2, <1>3, <1>4, <1>5, <1>6, <1>7, <1>8, <1>9, <1>10, <1>11, <1>12, <1>13, <1>14, <1>15, <1>16, Steps

\* A handler keeps its quote, and its card once it is sent.
LEMMA CallStep ==
  ASSUME TypeOK, CallOK, [Next]_vars
  PROVE  CallOK'
<1> USE DEF CallOK
<1>1. call \in [Calls -> CallStates]
  BY DEF TypeOK
<1>2. ASSUME NEW c \in Calls, NEW q \in Quotes, SaveMessage(c, q)  PROVE CallOK'
  BY <1>1, <1>2 DEF SaveMessage, lark, CallStates
<1>3. ASSUME NEW c \in Calls, Bridge(c) \/ Count(c)  PROVE CallOK'
  <2>1. call[c] \in CallStates /\ call[c].quote \in Quotes /\ cards' = cards
    BY <1>1, <1>3 DEF Bridge, Count, lark
  <2>2. \A d \in Calls \ {c} : call'[d] = call[d]
    BY <1>1, <1>3 DEF Bridge, Count
  <2>3. call'[c] = NoCall \/ (call'[c].quote = call[c].quote /\ call'[c].at \in {"count", "send"})
    <3>1. CASE Bridge(c)
      BY <1>1, <2>1, <3>1 DEF Bridge, CallStates
    <3>2. CASE Count(c)
      BY <1>1, <2>1, <3>2 DEF Count, CallStates
    <3> QED  BY <1>3, <3>1, <3>2
  <2> QED  BY <2>1, <2>2, <2>3 DEF NoCall
<1>4. ASSUME NEW c \in Calls, call' = [call EXCEPT ![c] = NoCall], UNCHANGED cards  PROVE CallOK'
  BY <1>1, <1>4 DEF NoCall
<1>5. ASSUME NEW c \in Calls, SendDirectCard(c)  PROVE CallOK'
  <2>1. call[c].quote \in Quotes
    BY <1>5 DEF SendDirectCard
  <2>2. \A d \in Calls \ {c} : call'[d] = call[d]
    BY <1>1, <1>5 DEF SendDirectCard
  <2>3. /\ call'[c].quote = call[c].quote /\ call'[c].tells = call[c].tells
        /\ call'[c].card = Len(cards) + 1 /\ call'[c].at = "record"
    BY <1>1, <1>5 DEF SendDirectCard, CallStates
  <2>4. /\ Len(cards) \in Nat /\ Len(cards') = Len(cards) + 1
        /\ \A k \in 1 .. Len(cards) : cards'[k] = cards[k]
        /\ cards'[Len(cards) + 1].quote = call[c].quote
        /\ cards'[Len(cards) + 1].tells = call[c].tells
    BY <1>5, <2>1, AppendCard
  <2> QED  BY <2>1, <2>2, <2>3, <2>4
<1>6. CASE UNCHANGED <<call, cards>>
  BY <1>6
<1> QED
  BY <1>2, <1>3, <1>4, <1>5, <1>6, Steps
  DEF vars, chat, lark, history, SaveMessage, Bridge, NoBridge, BridgeOff, Count, SendDirectCard,
      Record, GiveUp, ReplyInThread, ReplyBare, SaveReply, ReplyFails, ResetCount, ResetFails,
      SetCancelled, CooldownEnds, Open, Disconnect, Restart

\* An answer under way keeps the quote it was matched with.
LEMMA ReplyStep ==
  ASSUME TypeOK, ReplyOK, [Next]_vars
  PROVE  ReplyOK'
<1> USE DEF ReplyOK
<1>1. reply \in [Replies -> [at : {"idle", "save"}, quote : Quotes \cup {NoQuote}]]
  BY DEF TypeOK
<1>2. ASSUME NEW p \in Replies, NEW q \in Quotes, reply' = [reply EXCEPT ![p] = [at |-> "save", quote |-> q]]
      PROVE  ReplyOK'
  BY <1>1, <1>2
<1>3. ASSUME NEW p \in Replies, reply' = [reply EXCEPT ![p] = NoReply]  PROVE ReplyOK'
  BY <1>1, <1>3 DEF NoReply
<1>4. CASE UNCHANGED reply
  BY <1>4
<1> QED
  BY <1>2, <1>3, <1>4, Steps
  DEF vars, chat, lark, history, SaveMessage, Bridge, NoBridge, BridgeOff, Count, SendDirectCard,
      Record, GiveUp, ReplyInThread, ReplyBare, SaveReply, ReplyFails, ResetCount, ResetFails,
      SetCancelled, CooldownEnds, Open, Disconnect, Restart, Latest, Live

\* Only a new card and the update after it touch what the anchors are about.
LEMMA AnchorsStep ==
  ASSUME Types, Anchors, [Next]_vars
  PROVE  Anchors'
<1> USE DEF Anchors, AnchorOfQuote, CardTimes, AnchorTimes
<1>1. ASSUME NEW c \in Calls, SendDirectCard(c)  PROVE Anchors'
  <2>1. call[c].quote \in Quotes /\ UNCHANGED <<row, clock>>
    BY <1>1 DEF Types, CallOK, SendDirectCard
  <2>2. row \in [Quotes -> [anchor : Nat, lastDm : Nat]] /\ clock \in Nat
    BY DEF Types, TypeOK
  <2>3. /\ Len(cards) \in Nat /\ Len(cards') = Len(cards) + 1
        /\ \A k \in 1 .. Len(cards) : cards'[k] = cards[k]
        /\ cards'[Len(cards) + 1].sentAt = clock
    BY <1>1, <2>1, AppendCard DEF Types
  <2>4. CardTimes'
    BY <2>1, <2>2, <2>3
  <2>5. ASSUME NEW q \in Quotes, row'[q].anchor # 0
        PROVE  /\ row'[q].anchor <= Len(cards') /\ cards'[row'[q].anchor].quote = q
               /\ cards'[row'[q].anchor].sentAt < row'[q].lastDm
    <3>1. row[q].anchor \in 1 .. Len(cards)
      BY <2>1, <2>2, <2>3, <2>5
    <3> QED  BY <2>1, <2>3, <2>5, <3>1
  <2> QED  BY <2>4, <2>5
<1>2. ASSUME NEW c \in Calls, Record(c)  PROVE Anchors'
  <2> DEFINE q == call[c].quote
             k == call[c].card
  <2>1. q \in Quotes /\ k \in 1 .. Len(cards) /\ cards[k].quote = q
    BY <1>2 DEF Types, CallOK, Record
  <2>2. /\ row \in [Quotes -> [anchor : Nat, lastDm : Nat]] /\ clock \in Nat
        /\ Len(cards) \in Nat
    BY DEF Types, TypeOK
  <2>3. /\ row' = [row EXCEPT ![q] = [anchor |-> k, lastDm |-> clock + 1]]
        /\ clock' = clock + 1 /\ cards' = cards
    BY <1>2 DEF Record, SentCard
  <2>4. \A j \in 1 .. Len(cards) : cards[j].sentAt \in Nat
    BY CardFields DEF Types
  <2>5. CardTimes'
    BY <2>2, <2>3, <2>4
  <2>6. /\ row'[q].anchor = k /\ row'[q].lastDm = clock + 1
        /\ \A r \in Quotes \ {q} : row'[r] = row[r]
    BY <2>1, <2>2, <2>3
  <2>7. cards[k].sentAt < clock + 1 /\ k <= Len(cards)
    <3>1. cards[k].sentAt <= clock
      BY <2>1
    <3> QED  BY <2>1, <2>2, <2>4, <3>1
  <2> QED  BY <2>1, <2>3, <2>5, <2>6, <2>7
<1>3. CASE UNCHANGED <<row, cards, clock>>
  BY <1>3
<1> QED
  BY <1>1, <1>2, <1>3, Steps
  DEF vars, chat, lark, history, SaveMessage, Bridge, NoBridge, BridgeOff, Count, SendDirectCard,
      Record, GiveUp, ReplyInThread, ReplyBare, SaveReply, ReplyFails, ResetCount, ResetFails,
      SetCancelled, CooldownEnds, Open, Disconnect, Restart

\* What a step makes of the locals of the call that takes it.
LEMMA NewCall ==
  ASSUME TypeOK, NEW c \in Calls
  PROVE  /\ \A q \in Quotes : SaveMessage(c, q) =>
              call'[c].at = "decide" /\ call'[c].quote = q /\ call'[c].msg = saved[q] + 1
         /\ Bridge(c) =>
              call'[c].at = "count" /\ call'[c].quote = call[c].quote /\ call'[c].msg = call[c].msg
         /\ Count(c) =>
              \/ row[call[c].quote].anchor # 0 /\ Cooling(call[c].quote) /\ call'[c] = NoCall
              \/ /\ ~ (row[call[c].quote].anchor # 0 /\ Cooling(call[c].quote))
                 /\ call'[c].at = "send" /\ call'[c].quote = call[c].quote
                 /\ call'[c].msg = call[c].msg
                 /\ call'[c].tells = Tells(call[c].quote, call[c].msg)
                 /\ call'[c].first = (row[call[c].quote].anchor = 0)
         /\ SendDirectCard(c) =>
              /\ call'[c].at = "record" /\ call'[c].quote = call[c].quote
              /\ call'[c].msg = call[c].msg /\ call'[c].tells = call[c].tells
         /\ NoBridge(c) \/ BridgeOff(c) \/ Record(c) \/ GiveUp(c) => call'[c] = NoCall
<1>1. call \in [Calls -> CallStates] /\ call[c] \in CallStates
  BY DEF TypeOK
<1>2. ASSUME NEW q \in Quotes, SaveMessage(c, q)
      PROVE  call'[c].at = "decide" /\ call'[c].quote = q /\ call'[c].msg = saved[q] + 1
  BY <1>1, <1>2 DEF SaveMessage, CallStates
<1>3. ASSUME Bridge(c)
      PROVE  call'[c].at = "count" /\ call'[c].quote = call[c].quote /\ call'[c].msg = call[c].msg
  BY <1>1, <1>3 DEF Bridge, CallStates
<1>4. ASSUME Count(c), row[call[c].quote].anchor # 0 /\ Cooling(call[c].quote)
      PROVE  call'[c] = NoCall
  BY <1>1, <1>4 DEF Count
<1>5. ASSUME Count(c), ~ (row[call[c].quote].anchor # 0 /\ Cooling(call[c].quote))
      PROVE  /\ call'[c].at = "send" /\ call'[c].quote = call[c].quote
             /\ call'[c].msg = call[c].msg
             /\ call'[c].tells = Tells(call[c].quote, call[c].msg)
             /\ call'[c].first = (row[call[c].quote].anchor = 0)
  BY <1>1, <1>5 DEF Count, CallStates
<1>6. ASSUME SendDirectCard(c)
      PROVE  /\ call'[c].at = "record" /\ call'[c].quote = call[c].quote
             /\ call'[c].msg = call[c].msg /\ call'[c].tells = call[c].tells
  BY <1>1, <1>6 DEF SendDirectCard, CallStates
<1>7. ASSUME NoBridge(c) \/ BridgeOff(c) \/ Record(c) \/ GiveUp(c)  PROVE call'[c] = NoCall
  BY <1>1, <1>7 DEF NoBridge, BridgeOff, Record, GiveUp
<1> QED  BY <1>2, <1>3, <1>4, <1>5, <1>6, <1>7

\* The other calls stay where they are.
LEMMA OtherCalls ==
  ASSUME TypeOK, NEW c \in Calls, NEW d \in Calls, d # c,
         \/ \E q \in Quotes : SaveMessage(c, q)
         \/ Bridge(c) \/ NoBridge(c) \/ BridgeOff(c) \/ Count(c)
         \/ SendDirectCard(c) \/ Record(c) \/ GiveUp(c)
  PROVE  call'[d] = call[d]
<1>1. call \in [Calls -> CallStates]
  BY DEF TypeOK
<1> QED
  BY <1>1 DEF SaveMessage, Bridge, NoBridge, BridgeOff, Count, SendDirectCard, Record, GiveUp

\* Messages are only added to a chat.
LEMMA SavedGrows ==
  ASSUME TypeOK, [Next]_vars
  PROVE  /\ saved \in [Quotes -> Nat] /\ saved' \in [Quotes -> Nat]
         /\ \A q \in Quotes : 1 .. saved[q] \subseteq 1 .. saved'[q]
<1>1. saved \in [Quotes -> Nat]
  BY DEF TypeOK
<1>2. ASSUME NEW c \in Calls, NEW q \in Quotes, SaveMessage(c, q)
      PROVE  saved' \in [Quotes -> Nat] /\ \A r \in Quotes : saved[r] <= saved'[r]
  BY <1>1, <1>2 DEF SaveMessage
<1>3. CASE UNCHANGED saved
  BY <1>1, <1>3
<1>4. (\E c \in Calls, q \in Quotes : SaveMessage(c, q)) \/ UNCHANGED saved
  BY Steps
  DEF vars, chat, Bridge, NoBridge, BridgeOff, Count, SendDirectCard,
      Record, GiveUp, ReplyInThread, ReplyBare, SaveReply, ReplyFails, ResetCount, ResetFails,
      SetCancelled, CooldownEnds, Open, Disconnect, Restart
<1>5. saved' \in [Quotes -> Nat] /\ \A r \in Quotes : saved[r] <= saved'[r]
  BY <1>2, <1>3, <1>4
<1> QED  BY <1>1, <1>5

\* What is counted, announced or under way was written before.
LEMMA WrittenStep ==
  ASSUME Types, Written, [Next]_vars
  PROVE  Written'
<1> USE DEF Written, Sending
<1>0. /\ saved \in [Quotes -> Nat] /\ saved' \in [Quotes -> Nat]
      /\ \A q \in Quotes : 1 .. saved[q] \subseteq 1 .. saved'[q]
  BY SavedGrows DEF Types
<1>1. /\ counted \in [Quotes -> SUBSET Nat]
      /\ \A k \in 1 .. Len(cards) : cards[k].quote \in Quotes
      /\ \A d \in Calls : call[d].at # "idle" => call[d].quote \in Quotes
  BY CardFields DEF Types, TypeOK, CallOK
<1>2. ASSUME NEW c \in Calls, NEW q \in Quotes, SaveMessage(c, q)  PROVE Written'
  <2>1. UNCHANGED <<counted, cards>> /\ saved'[q] = saved[q] + 1
    BY <1>0, <1>2 DEF SaveMessage, lark
  <2>2. call'[c].at = "decide" /\ call'[c].quote = q /\ call'[c].msg = saved[q] + 1
    BY <1>2, NewCall DEF Types
  <2>3. \A d \in Calls \ {c} : call'[d] = call[d]
    BY <1>2, OtherCalls DEF Types
  <2>4. call'[c].msg \in 1 .. saved'[q]
    BY <1>0, <2>1, <2>2
  <2> QED  BY <1>0, <1>1, <2>1, <2>2, <2>3, <2>4
<1>3. ASSUME NEW c \in Calls, Bridge(c)  PROVE Written'
  <2>1. UNCHANGED <<counted, cards, saved>> /\ call[c].at = "decide"
    BY <1>3 DEF Bridge, lark, chat
  <2>2. call'[c].at = "count" /\ call'[c].quote = call[c].quote /\ call'[c].msg = call[c].msg
    BY <1>3, NewCall DEF Types
  <2>3. \A d \in Calls \ {c} : call'[d] = call[d]
    BY <1>3, OtherCalls DEF Types
  <2> QED  BY <2>1, <2>2, <2>3
<1>4. ASSUME NEW c \in Calls, Count(c)  PROVE Written'
  <2> DEFINE q == call[c].quote
             n == call[c].msg
  <2>1. q \in Quotes /\ n \in 1 .. saved[q] /\ UNCHANGED <<saved, cards>>
    BY <1>1, <1>4 DEF Count, chat
  <2>2. counted' = [counted EXCEPT ![q] = @ \cup {n}]
    BY <1>4 DEF Count
  <2>3. \A r \in Quotes : counted'[r] \subseteq 1 .. saved'[r]
    BY <1>1, <2>1, <2>2
  <2>4. \A d \in Calls \ {c} : call'[d] = call[d]
    BY <1>4, OtherCalls DEF Types
  <2>5. Tells(q, n) \subseteq 1 .. saved[q]
    BY <1>1, <2>1 DEF Tells
  <2>6. \/ call'[c] = NoCall
        \/ call'[c].quote = q /\ call'[c].msg = n /\ call'[c].tells = Tells(q, n)
    BY <1>4, NewCall DEF Types
  <2> QED  BY <2>1, <2>3, <2>4, <2>5, <2>6 DEF NoCall
<1>5. ASSUME NEW c \in Calls, SendDirectCard(c)  PROVE Written'
  <2>1. UNCHANGED <<saved, counted>> /\ call[c].at = "send" /\ call[c].quote \in Quotes
    BY <1>1, <1>5 DEF SendDirectCard, chat
  <2>2. /\ call'[c].quote = call[c].quote
        /\ call'[c].msg = call[c].msg /\ call'[c].tells = call[c].tells
    BY <1>5, NewCall DEF Types
  <2>3. \A d \in Calls \ {c} : call'[d] = call[d]
    BY <1>5, OtherCalls DEF Types
  <2>4. /\ Len(cards) \in Nat /\ Len(cards') = Len(cards) + 1
        /\ \A k \in 1 .. Len(cards) : cards'[k] = cards[k]
        /\ cards'[Len(cards) + 1].quote = call[c].quote
        /\ cards'[Len(cards) + 1].tells = call[c].tells
    BY <1>5, <2>1, AppendCard DEF Types
  <2>5. \A k \in 1 .. Len(cards') : cards'[k].tells \subseteq 1 .. saved'[cards'[k].quote]
    BY <2>1, <2>4
  <2> QED  BY <2>1, <2>2, <2>3, <2>5
<1>6. ASSUME NEW c \in Calls, Record(c)  PROVE Written'
  <2>1. call[c].quote \in Quotes /\ UNCHANGED <<saved, cards>>
        /\ counted' = [counted EXCEPT ![call[c].quote] = {}]
    BY <1>1, <1>6 DEF Record, CountCleared, chat
  <2>2. call'[c] = NoCall /\ \A d \in Calls \ {c} : call'[d] = call[d]
    BY <1>6, NewCall, OtherCalls DEF Types
  <2>3. \A r \in Quotes : counted'[r] \subseteq 1 .. saved'[r]
    BY <1>1, <2>1
  <2> QED  BY <2>1, <2>2, <2>3 DEF NoCall
<1>7. ASSUME NEW c \in Calls, NoBridge(c) \/ BridgeOff(c) \/ GiveUp(c)  PROVE Written'
  <2>1. call'[c] = NoCall /\ \A d \in Calls \ {c} : call'[d] = call[d]
    BY <1>7, NewCall, OtherCalls DEF Types
  <2>2. UNCHANGED <<saved, cards, counted>>
    BY <1>7 DEF NoBridge, BridgeOff, GiveUp, chat, lark
  <2> QED  BY <2>1, <2>2 DEF NoCall
<1>8. ASSUME NEW q \in Quotes, ResetCount(q)  PROVE Written'
  <2>1. UNCHANGED <<saved, cards, call>> /\ counted' = [counted EXCEPT ![q] = {}]
    BY <1>8 DEF ResetCount, chat
  <2> QED  BY <1>1, <2>1
<1>9. CASE UNCHANGED <<saved, cards, counted, call>>
  BY <1>9
<1> QED
  BY <1>2, <1>3, <1>4, <1>5, <1>6, <1>7, <1>8, <1>9, Steps
  DEF vars, chat, lark, history, ReplyInThread, ReplyBare, SaveReply, ReplyFails, ResetFails,
      SetCancelled, CooldownEnds, Open, Disconnect, Restart

\* A new message has a new number, one that is counted is decided.
LEMMA FreshStep ==
  ASSUME Types, Written, Fresh, [Next]_vars
  PROVE  Fresh'
<1> USE DEF Fresh, Sending, Undecided
<1>0. /\ saved \in [Quotes -> Nat] /\ counted \in [Quotes -> SUBSET Nat]
      /\ \A k \in 1 .. Len(cards) : cards[k].quote \in Quotes
      /\ \A d \in Calls : call[d].at # "idle" => call[d].quote \in Quotes
  BY CardFields DEF Types, TypeOK, CallOK
<1>1. ASSUME NEW c \in Calls, NEW q \in Quotes, SaveMessage(c, q)  PROVE Fresh'
  <2> DEFINE n == saved[q] + 1
  <2>1. UNCHANGED <<counted, cards>>
    BY <1>1 DEF SaveMessage, lark
  <2>2. call'[c].at = "decide" /\ call'[c].quote = q /\ call'[c].msg = n
    BY <1>1, NewCall DEF Types
  <2>3. \A d \in Calls \ {c} : call'[d] = call[d]
    BY <1>1, OtherCalls DEF Types
  <2>4. n \notin 1 .. saved[q]
    BY <1>0
  <2> HIDE DEF n
  <2>5. /\ n \notin counted[q]
        /\ \A k \in 1 .. Len(cards) : cards[k].quote = q => n \notin cards[k].tells
        /\ \A d \in Calls : Sending(d) /\ call[d].quote = q => n \notin call[d].tells
        /\ \A d \in Calls : Undecided(d) /\ call[d].quote = q => call[d].msg # n
    BY <2>4 DEF Written
  <2> QED  BY <2>1, <2>2, <2>3, <2>5
<1>2. ASSUME NEW c \in Calls, Bridge(c)  PROVE Fresh'
  <2>1. UNCHANGED <<counted, cards>> /\ Undecided(c)
    BY <1>2 DEF Bridge, lark
  <2>2. call'[c].at = "count" /\ call'[c].quote = call[c].quote /\ call'[c].msg = call[c].msg
    BY <1>2, NewCall DEF Types
  <2>3. \A d \in Calls \ {c} : call'[d] = call[d]
    BY <1>2, OtherCalls DEF Types
  <2> QED  BY <2>1, <2>2, <2>3
<1>3. ASSUME NEW c \in Calls, Count(c)  PROVE Fresh'
  <2> DEFINE q == call[c].quote
             n == call[c].msg
  <2>1. q \in Quotes /\ Undecided(c) /\ UNCHANGED cards
    BY <1>0, <1>3 DEF Count
  <2>2. /\ counted'[q] = counted[q] \cup {n}
        /\ \A r \in Quotes \ {q} : counted'[r] = counted[r]
    BY <1>0, <1>3, <2>1 DEF Count
  <2>3. \A d \in Calls \ {c} : call'[d] = call[d]
    BY <1>3, OtherCalls DEF Types
  <2>4. Tells(q, n) \subseteq counted[q] \cup {n}
    BY DEF Tells
  <2>5. \/ call'[c].at = "idle"
        \/ call'[c].at = "send" /\ call'[c].quote = q /\ call'[c].tells = Tells(q, n)
    BY <1>3, NewCall DEF Types, NoCall
  <2>6. ASSUME NEW d \in Calls, Undecided(d)'
        PROVE  /\ d # c /\ call'[d] = call[d] /\ Undecided(d)
               /\ call[d].quote = q => call[d].msg \notin counted[q] \cup {n}
    BY <2>1, <2>3, <2>5, <2>6
  <2> HIDE DEF q, n
  <2>7. ASSUME NEW d \in Calls, Undecided(d)'
        PROVE  /\ call'[d].msg \notin counted'[call'[d].quote]
               /\ \A k \in 1 .. Len(cards') :
                    cards'[k].quote = call'[d].quote => call'[d].msg \notin cards'[k].tells
    <3>1. call[d].quote \in Quotes
      BY <1>0, <2>6, <2>7
    <3> QED  BY <2>1, <2>2, <2>6, <2>7, <3>1
  <2>8. ASSUME NEW d \in Calls, Undecided(d)', NEW e \in Calls, Sending(e)',
               call'[e].quote = call'[d].quote
        PROVE  call'[d].msg \notin call'[e].tells
    <3>1. CASE e = c
      BY <2>4, <2>5, <2>6, <2>8, <3>1
    <3>2. CASE e # c
      BY <2>3, <2>6, <2>8, <3>2
    <3> QED  BY <3>1, <3>2
  <2>9. ASSUME NEW d \in Calls, Undecided(d)', NEW e \in Calls, Undecided(e)',
               call'[e].quote = call'[d].quote, call'[e].msg = call'[d].msg
        PROVE  d = e
    BY <2>6, <2>9
  <2> QED  BY <2>7, <2>8, <2>9
<1>4. ASSUME NEW c \in Calls, SendDirectCard(c)  PROVE Fresh'
  <2>1. UNCHANGED counted /\ Sending(c) /\ call[c].quote \in Quotes
    BY <1>0, <1>4 DEF SendDirectCard
  <2>2. /\ call'[c].at = "record" /\ call'[c].quote = call[c].quote
        /\ call'[c].msg = call[c].msg /\ call'[c].tells = call[c].tells
    BY <1>4, NewCall DEF Types
  <2>3. \A d \in Calls \ {c} : call'[d] = call[d]
    BY <1>4, OtherCalls DEF Types
  <2>4. /\ Len(cards) \in Nat /\ Len(cards') = Len(cards) + 1
        /\ \A k \in 1 .. Len(cards) : cards'[k] = cards[k]
        /\ cards'[Len(cards) + 1].quote = call[c].quote
        /\ cards'[Len(cards) + 1].tells = call[c].tells
    BY <1>4, <2>1, AppendCard DEF Types
  <2>5. \A k \in 1 .. Len(cards') : k \in 1 .. Len(cards) \/ k = Len(cards) + 1
    BY <2>4
  <2>6. ASSUME NEW d \in Calls, Undecided(d)'
        PROVE  /\ d # c /\ call'[d] = call[d] /\ Undecided(d)
               /\ call[d].quote = call[c].quote => call[d].msg \notin call[c].tells
    BY <2>1, <2>2, <2>3, <2>6
  <2>7. ASSUME NEW d \in Calls, Undecided(d)', NEW k \in 1 .. Len(cards'),
               cards'[k].quote = call'[d].quote
        PROVE  call'[d].msg \notin cards'[k].tells
    BY <2>4, <2>5, <2>6, <2>7
  <2>8. ASSUME NEW d \in Calls, Undecided(d)', NEW e \in Calls, Sending(e)',
               call'[e].quote = call'[d].quote
        PROVE  call'[d].msg \notin call'[e].tells
    BY <2>2, <2>3, <2>6, <2>8
  <2> QED  BY <2>1, <2>6, <2>7, <2>8
<1>5. ASSUME NEW c \in Calls, Record(c)  PROVE Fresh'
  <2>1. call[c].quote \in Quotes /\ UNCHANGED cards
        /\ counted' = [counted EXCEPT ![call[c].quote] = {}]
    BY <1>0, <1>5 DEF Record, CountCleared
  <2>2. call'[c] = NoCall /\ \A d \in Calls \ {c} : call'[d] = call[d]
    BY <1>5, NewCall, OtherCalls DEF Types
  <2>3. \A r \in Quotes : counted'[r] \subseteq counted[r]
    BY <1>0, <2>1
  <2> QED  BY <1>0, <2>1, <2>2, <2>3 DEF NoCall
<1>6. ASSUME NEW c \in Calls, NoBridge(c) \/ BridgeOff(c) \/ GiveUp(c)  PROVE Fresh'
  <2>1. call'[c] = NoCall /\ \A d \in Calls \ {c} : call'[d] = call[d]
    BY <1>6, NewCall, OtherCalls DEF Types
  <2>2. UNCHANGED <<cards, counted>>
    BY <1>6 DEF NoBridge, BridgeOff, GiveUp, lark
  <2> QED  BY <2>1, <2>2 DEF NoCall
<1>7. ASSUME NEW q \in Quotes, ResetCount(q)  PROVE Fresh'
  <2>1. UNCHANGED <<cards, call>> /\ counted' = [counted EXCEPT ![q] = {}]
    BY <1>7 DEF ResetCount
  <2>2. \A r \in Quotes : counted'[r] \subseteq counted[r]
    BY <1>0, <2>1
  <2> QED  BY <1>0, <2>1, <2>2
<1>8. CASE UNCHANGED <<cards, counted, call>>
  BY <1>8
<1> QED
  BY <1>1, <1>2, <1>3, <1>4, <1>5, <1>6, <1>7, <1>8, Steps
  DEF vars, chat, lark, history, ReplyInThread, ReplyBare, SaveReply, ReplyFails, ResetFails,
      SetCancelled, CooldownEnds, Open, Disconnect, Restart

\* A message is counted once, and what a card announces leaves the count with it.
LEMMA TwiceStep ==
  ASSUME Types, AnchorOfQuote, Fresh, NothingTwice, [Next]_vars
  PROVE  NothingTwice'
<1> USE DEF NothingTwice
<1>0. /\ counted \in [Quotes -> SUBSET Nat] /\ Len(cards) \in Nat
      /\ row \in [Quotes -> [anchor : Nat, lastDm : Nat]]
      /\ \A d \in Calls : call[d].at # "idle" => call[d].quote \in Quotes
  BY DEF Types, TypeOK, CallOK
<1>1. ASSUME NEW c \in Calls, Count(c)  PROVE NothingTwice'
  <2> DEFINE q == call[c].quote
             n == call[c].msg
  <2>1. q \in Quotes /\ UNCHANGED <<cards, row>>
    BY <1>0, <1>1 DEF Count
  <2>2. /\ counted'[q] = counted[q] \cup {n}
        /\ \A r \in Quotes \ {q} : counted'[r] = counted[r]
    BY <1>0, <1>1, <2>1 DEF Count
  <2>3. \A k \in 1 .. Len(cards) : cards[k].quote = q => n \notin cards[k].tells
    BY <1>1 DEF Count, Fresh, Undecided
  <2>4. row[q].anchor # 0 => 1 .. row[q].anchor \subseteq 1 .. Len(cards)
    BY <1>0, <2>1 DEF AnchorOfQuote
  <2> HIDE DEF q, n
  <2> QED  BY <2>1, <2>2, <2>3, <2>4
<1>2. ASSUME NEW c \in Calls, SendDirectCard(c)  PROVE NothingTwice'
  <2>1. call[c].quote \in Quotes /\ UNCHANGED <<row, counted>>
    BY <1>0, <1>2 DEF SendDirectCard
  <2>2. \A k \in 1 .. Len(cards) : cards'[k] = cards[k]
    BY <1>2, <2>1, AppendCard DEF Types
  <2>3. \A q \in Quotes : row[q].anchor # 0 => 1 .. row[q].anchor \subseteq 1 .. Len(cards)
    BY <1>0 DEF AnchorOfQuote
  <2> QED  BY <2>1, <2>2, <2>3
<1>3. ASSUME NEW c \in Calls, Record(c)  PROVE NothingTwice'
  <2> DEFINE q == call[c].quote
  <2>1. q \in Quotes /\ UNCHANGED cards
    BY <1>0, <1>3 DEF Record
  <2>2. counted'[q] = {}
    BY <1>0, <1>3, <2>1 DEF Record, CountCleared
  <2>3. \A r \in Quotes \ {q} : counted'[r] = counted[r] /\ row'[r] = row[r]
    BY <1>0, <1>3, <2>1 DEF Record
  <2> HIDE DEF q
  <2> QED  BY <2>1, <2>2, <2>3
<1>4. ASSUME NEW q \in Quotes, ResetCount(q)  PROVE NothingTwice'
  BY <1>0, <1>4 DEF ResetCount
<1>5. CASE UNCHANGED <<cards, counted, row>>
  BY <1>5
<1> QED
  BY <1>1, <1>2, <1>3, <1>4, <1>5, Steps
  DEF vars, chat, lark, history, SaveMessage, Bridge, NoBridge, BridgeOff, GiveUp, ReplyInThread,
      ReplyBare, SaveReply, ReplyFails, ResetFails, SetCancelled, CooldownEnds, Open, Disconnect,
      Restart

\* What is announced or needs no card stays so; cards that overlapped have overlapped.
LEMMA Monotone ==
  ASSUME Types, [Next]_vars
  PROVE  /\ apart' \subseteq apart
         /\ \A q \in Quotes : settled[q] \subseteq settled'[q] /\ Told(q) \subseteq Told(q)'
<1>1. /\ settled \in [Quotes -> SUBSET Nat]
      /\ \A d \in Calls : call[d].at # "idle" => call[d].quote \in Quotes
  BY DEF Types, TypeOK, CallOK
<1>2. apart' \subseteq apart
  BY Steps
  DEF vars, chat, lark, history, SaveMessage, Bridge, NoBridge, BridgeOff, Count, SendDirectCard,
      Record, GiveUp, ReplyInThread, ReplyBare, SaveReply, ReplyFails, ResetCount, ResetFails,
      SetCancelled, CooldownEnds, Open, Disconnect, Restart
<1>3. \A q \in Quotes : settled[q] \subseteq settled'[q]
  <2>1. ASSUME NEW q \in Quotes, NEW msgs, Settle(q, msgs)
        PROVE  \A r \in Quotes : settled[r] \subseteq settled'[r]
    BY <1>1, <2>1 DEF Settle
  <2>2. (\E q \in Quotes : \E msgs : Settle(q, msgs)) \/ settled' = settled
    <3>1. ASSUME NEW c \in Calls, NoBridge(c) \/ BridgeOff(c) \/ GiveUp(c)
          PROVE  (\E q \in Quotes : \E msgs : Settle(q, msgs)) \/ settled' = settled
      BY <1>1, <3>1 DEF NoBridge, BridgeOff, GiveUp
    <3>2. ASSUME NEW q \in Quotes, ResetCount(q)
          PROVE  (\E r \in Quotes : \E msgs : Settle(r, msgs)) \/ settled' = settled
      BY <3>2 DEF ResetCount
    <3> QED
      BY <3>1, <3>2, Steps
      DEF vars, chat, lark, history, SaveMessage, Bridge, Count, SendDirectCard, Record,
          ReplyInThread, ReplyBare, SaveReply, ReplyFails, ResetFails, SetCancelled, CooldownEnds,
          Open, Disconnect, Restart
  <2> QED  BY <2>1, <2>2
<1>4. \A q \in Quotes : Told(q) \subseteq Told(q)'
  <2>1. ASSUME NEW c \in Calls, SendDirectCard(c)
        PROVE  Len(cards) \in Nat /\ Len(cards') = Len(cards) + 1
               /\ \A k \in 1 .. Len(cards) : cards'[k] = cards[k]
    BY <1>1, <2>1, AppendCard DEF Types, SendDirectCard
  <2>2. (\E c \in Calls : SendDirectCard(c)) \/ UNCHANGED cards
    BY Steps
    DEF vars, chat, lark, history, SaveMessage, Bridge, NoBridge, BridgeOff, Count,
        Record, GiveUp, ReplyInThread, ReplyBare, SaveReply, ReplyFails, ResetCount, ResetFails,
        SetCancelled, CooldownEnds, Open, Disconnect, Restart
  <2>3. ASSUME NEW q \in Quotes, NEW n \in Told(q)  PROVE n \in Told(q)'
    <3>1. PICK k \in 1 .. Len(cards) : cards[k].quote = q /\ n \in cards[k].tells
      BY <2>3, ToldMember
    <3>2. k \in 1 .. Len(cards') /\ cards'[k] = cards[k]
      BY <2>1, <2>2
    <3> QED  BY <3>1, <3>2 DEF Told
  <2> QED  BY <2>3
<1> QED  BY <1>2, <1>3, <1>4

\* A call that counts while another one has a card under way ends the separation.
LEMMA ApartStep ==
  ASSUME NEW c \in Calls, Count(c), call[c].quote \in apart'
  PROVE  \A d \in Calls : Sending(d) => call[d].quote # call[c].quote
BY DEF Count, UnderWay, Sending

\* A call sends a card because it counted, or goes on with its card.
LEMMA Senders ==
  ASSUME TypeOK, [Next]_vars, NEW d \in Calls, Sending(d)'
  PROVE  \/ Count(d)
         \/ /\ Sending(d) /\ call'[d].quote = call[d].quote
            /\ call'[d].msg = call[d].msg /\ call'[d].tells = call[d].tells
            /\ call'[d].at = "send" => call[d].at = "send" /\ call'[d].first = call[d].first
<1> USE DEF Sending
<1>1. ASSUME NEW c \in Calls,
             \/ \E q \in Quotes : SaveMessage(c, q)
             \/ Bridge(c) \/ NoBridge(c) \/ BridgeOff(c) \/ Count(c)
             \/ SendDirectCard(c) \/ Record(c) \/ GiveUp(c)
      PROVE  \/ Count(d)
             \/ /\ Sending(d) /\ call'[d].quote = call[d].quote
                /\ call'[d].msg = call[d].msg /\ call'[d].tells = call[d].tells
                /\ call'[d].at = "send" => call[d].at = "send" /\ call'[d].first = call[d].first
  <2>1. CASE c # d
    BY <1>1, <2>1, OtherCalls
  <2>2. CASE c = d
    <3>1. SendDirectCard(d) => call[d].at = "send"
      BY DEF SendDirectCard
    <3> QED  BY <1>1, <2>2, <3>1, NewCall DEF NoCall
  <2> QED  BY <2>1, <2>2
<1>2. CASE UNCHANGED call
  BY <1>2
<1> QED
  BY <1>1, <1>2, Steps
  DEF vars, ReplyInThread, ReplyBare, SaveReply, ReplyFails, ResetCount, ResetFails,
      SetCancelled, CooldownEnds, Open, Disconnect, Restart

\* A call that has a card to send goes on, ends with the update, or gives up.
LEMMA SendersStay ==
  ASSUME TypeOK, [Next]_vars, NEW d \in Calls, Sending(d)
  PROVE  \/ Record(d) \/ GiveUp(d)
         \/ Sending(d)' /\ call'[d].quote = call[d].quote /\ call'[d].msg = call[d].msg
<1> USE DEF Sending
<1>1. ASSUME NEW c \in Calls,
             \/ \E q \in Quotes : SaveMessage(c, q)
             \/ Bridge(c) \/ NoBridge(c) \/ BridgeOff(c) \/ Count(c)
             \/ SendDirectCard(c) \/ Record(c) \/ GiveUp(c)
      PROVE  \/ Record(d) \/ GiveUp(d)
             \/ Sending(d)' /\ call'[d].quote = call[d].quote /\ call'[d].msg = call[d].msg
  <2>1. CASE c # d
    BY <1>1, <2>1, OtherCalls
  <2>2. CASE c = d
    <3>1. /\ \A q \in Quotes : ~ SaveMessage(d, q)
          /\ ~ Bridge(d) /\ ~ NoBridge(d) /\ ~ BridgeOff(d) /\ ~ Count(d)
      BY DEF SaveMessage, Bridge, NoBridge, BridgeOff, Count
    <3> QED  BY <1>1, <2>2, <3>1, NewCall
  <2> QED  BY <2>1, <2>2
<1>2. CASE UNCHANGED call
  BY <1>2
<1> QED
  BY <1>1, <1>2, Steps
  DEF vars, ReplyInThread, ReplyBare, SaveReply, ReplyFails, ResetCount, ResetFails,
      SetCancelled, CooldownEnds, Open, Disconnect, Restart

\* An anchor is never given back.
LEMMA RowStep ==
  ASSUME Types, [Next]_vars
  PROVE  /\ \A q \in Quotes : row'[q].anchor = 0 => row[q].anchor = 0
         /\ \A c \in Calls : Record(c) => row'[call[c].quote].anchor # 0
<1>1. ASSUME NEW c \in Calls, Record(c)
      PROVE  /\ row'[call[c].quote].anchor # 0
             /\ \A q \in Quotes \ {call[c].quote} : row'[q] = row[q]
  <2>1. /\ call[c].quote \in Quotes /\ call[c].card \in 1 .. Len(cards)
        /\ row \in [Quotes -> [anchor : Nat, lastDm : Nat]]
    BY <1>1 DEF Types, TypeOK, CallOK, Record
  <2>2. row' = [row EXCEPT ![call[c].quote] = [anchor |-> call[c].card, lastDm |-> clock + 1]]
    BY <1>1 DEF Record, SentCard
  <2> QED  BY <2>1, <2>2
<1>2. (\E c \in Calls : Record(c)) \/ UNCHANGED row
  BY Steps
  DEF vars, chat, lark, history, SaveMessage, Bridge, NoBridge, BridgeOff, Count, SendDirectCard,
      GiveUp, ReplyInThread, ReplyBare, SaveReply, ReplyFails, ResetCount, ResetFails,
      SetCancelled, CooldownEnds, Open, Disconnect, Restart
<1> QED  BY <1>1, <1>2

\* Only a call that counts adds to the count.
LEMMA CountedStep ==
  ASSUME Types, [Next]_vars, NEW q \in Quotes, NEW n \in counted'[q]
  PROVE  n \in counted[q] \/ \E c \in Calls : Count(c) /\ call[c].quote = q /\ call[c].msg = n
<1>1. /\ counted \in [Quotes -> SUBSET Nat]
      /\ \A d \in Calls : call[d].at # "idle" => call[d].quote \in Quotes
  BY DEF Types, TypeOK, CallOK
<1>2. ASSUME NEW c \in Calls, Count(c)
      PROVE  n \in counted[q] \/ (call[c].quote = q /\ call[c].msg = n)
  BY <1>1, <1>2 DEF Count
<1>3. ASSUME NEW c \in Calls, Record(c)  PROVE n \in counted[q]
  BY <1>1, <1>3 DEF Record, CountCleared
<1>4. ASSUME NEW r \in Quotes, ResetCount(r)  PROVE n \in counted[q]
  BY <1>1, <1>4 DEF ResetCount
<1>5. \/ \E c \in Calls : Count(c) \/ Record(c)
      \/ \E r \in Quotes : ResetCount(r)
      \/ UNCHANGED counted
  BY Steps
  DEF vars, chat, lark, history, SaveMessage, Bridge, NoBridge, BridgeOff, SendDirectCard,
      GiveUp, ReplyInThread, ReplyBare, SaveReply, ReplyFails, ResetFails,
      SetCancelled, CooldownEnds, Open, Disconnect, Restart
<1> QED  BY <1>2, <1>3, <1>4, <1>5

\* As long as the cards of a quote never overlapped, one is under way at a time.
LEMMA OneStep ==
  ASSUME Types, OneUnderWay, [Next]_vars
  PROVE  OneUnderWay'
<1> SUFFICES ASSUME NEW c \in Calls, NEW d \in Calls, Sending(c)', Sending(d)',
                    call'[c].quote = call'[d].quote, call'[c].quote \in apart', c # d
             PROVE  FALSE
  BY DEF OneUnderWay
<1>1. ASSUME NEW e \in Calls, Count(e), NEW f \in Calls, f # e, Sending(f)'
      PROVE  Sending(f) /\ call'[f].quote = call[f].quote
  BY <1>1, OtherCalls DEF Types, Sending
<1>2. ASSUME NEW e \in Calls, Count(e), Sending(e)'  PROVE call'[e].quote = call[e].quote
  BY <1>2, NewCall DEF Types, Sending, NoCall
<1>3. ~ Count(c)
  BY <1>1, <1>2, ApartStep
<1>4. ~ Count(d)
  BY <1>1, <1>2, ApartStep
<1> QED  BY <1>3, <1>4, Senders, Monotone DEF Types, OneUnderWay

\* What the update after a card will forget is on that card, on an earlier one, or settled.
LEMMA CoveredStep ==
  ASSUME Types, Covered, BeforeFirst, [Next]_vars
  PROVE  Covered'
<1> SUFFICES ASSUME NEW d \in Calls, Sending(d)', NEW q, q = call'[d].quote
             PROVE  /\ call'[d].msg \in call'[d].tells
                    /\ q \in apart' =>
                         counted'[q] \subseteq call'[d].tells \cup settled'[q] \cup Told(q)'
  BY DEF Covered
<1>1. CASE Count(d)
  <2>1. /\ call[d].quote = q /\ call'[d].msg = call[d].msg
        /\ call'[d].tells = Tells(q, call[d].msg)
    BY <1>1, NewCall DEF Types, Sending, NoCall
  <2>2. call[d].msg \in Tells(q, call[d].msg)
    BY DEF Tells
  <2>3. q \in Quotes /\ counted \in [Quotes -> SUBSET Nat]
    BY <1>1, <2>1 DEF Types, TypeOK, CallOK, Count
  <2>4. ASSUME q \in apart', NEW m \in counted'[q]
        PROVE  m \in Tells(q, call[d].msg) \cup settled'[q] \cup Told(q)'
    <3>1. m \in counted[q] \/ m = call[d].msg
      BY <1>1, <2>1, <2>3, <2>4 DEF Count
    <3>2. CASE row[q].anchor = 0 /\ m \in counted[q]
      <4>1. q \in apart
        BY <2>4, Monotone
      <4>2. m \in settled[q] \cup Told(q)
        BY <1>1, <2>1, <2>4, <3>2, <4>1, ApartStep DEF BeforeFirst
      <4> QED  BY <2>3, <4>2, Monotone
    <3>3. CASE row[q].anchor # 0 /\ m \in counted[q]
      BY <3>3 DEF Tells
    <3> QED  BY <2>2, <3>1, <3>2, <3>3
  <2> QED  BY <2>1, <2>2, <2>4
<1>2. CASE ~ Count(d)
  <2>1. /\ Sending(d) /\ call[d].quote = q
        /\ call'[d].msg = call[d].msg /\ call'[d].tells = call[d].tells
    BY <1>2, Senders DEF Types
  <2>2. q \in Quotes
    BY <2>1 DEF Types, CallOK, Sending
  <2>3. ASSUME q \in apart', NEW m \in counted'[q]
        PROVE  m \in call[d].tells \cup settled'[q] \cup Told(q)'
    <3>1. m \in counted[q]
      BY <2>1, <2>2, <2>3, CountedStep, ApartStep
    <3>2. q \in apart
      BY <2>3, Monotone
    <3>3. m \in call[d].tells \cup settled[q] \cup Told(q)
      BY <2>1, <3>1, <3>2 DEF Covered
    <3> QED  BY <2>2, <3>3, Monotone
  <2> QED  BY <2>1, <2>3 DEF Covered
<1> QED  BY <1>1, <1>2

\* The first card of a chat that fails takes its message out of the account.
LEMMA BeforeFirstStep ==
  ASSUME Types, BeforeFirst, FirstKnown, Covered, [Next]_vars
  PROVE  BeforeFirst'
<1> SUFFICES ASSUME NEW q \in apart', row'[q].anchor = 0, NEW n \in counted'[q]
             PROVE  \/ n \in settled'[q] \cup Told(q)'
                    \/ \E c \in Calls : Sending(c)' /\ call'[c].quote = q /\ call'[c].msg = n
  BY DEF BeforeFirst
<1>1. q \in apart /\ q \in Quotes /\ row[q].anchor = 0
  BY Monotone, RowStep DEF Types, TypeOK
<1>2. ASSUME NEW c \in Calls, Count(c), call[c].quote = q, call[c].msg = n
      PROVE  Sending(c)' /\ call'[c].quote = q /\ call'[c].msg = n
  BY <1>1, <1>2, NewCall DEF Types, Sending
<1>3. CASE n \in settled[q] \cup Told(q)
  BY <1>1, <1>3, Monotone
<1>4. ASSUME NEW c \in Calls, Sending(c), call[c].quote = q, call[c].msg = n
      PROVE  n \in settled'[q] \cup Told(q)' \/ (Sending(c)' /\ call'[c].quote = q /\ call'[c].msg = n)
  <2>1. ~ Record(c)
    BY <1>4, RowStep
  <2>2. CASE GiveUp(c) /\ call[c].at = "send"
    <3>1. call[c].first
      BY <1>1, <1>4, <2>2 DEF FirstKnown
    <3>2. settled \in [Quotes -> SUBSET Nat]
      BY DEF Types, TypeOK
    <3> QED  BY <1>1, <1>4, <2>2, <3>1, <3>2 DEF GiveUp, Settle
  <2>3. CASE call[c].at = "record"
    <3>1. call[c].msg \in call[c].tells
      BY <1>4 DEF Covered
    <3>2. /\ call[c].card \in 1 .. Len(cards) /\ cards[call[c].card].quote = q
          /\ cards[call[c].card].tells = call[c].tells
      BY <1>4, <2>3 DEF Types, CallOK
    <3>3. n \in Told(q)
      BY <1>4, <3>1, <3>2, ToldMember
    <3> QED  BY <1>1, <3>3, Monotone
  <2> QED  BY <1>4, <2>1, <2>2, <2>3, SendersStay DEF Types, Sending
<1>5. CASE n \in counted[q]
  BY <1>1, <1>3, <1>4, <1>5 DEF BeforeFirst
<1> QED  BY <1>1, <1>2, <1>5, CountedStep

\* A call that sends a card while no anchor is recorded knows that its card is the first.
LEMMA FirstKnownStep ==
  ASSUME Types, FirstKnown, [Next]_vars
  PROVE  FirstKnown'
<1> SUFFICES ASSUME NEW d \in Calls, call'[d].at = "send", NEW q, q = call'[d].quote,
                    row'[q].anchor = 0
             PROVE  call'[d].first
  BY DEF FirstKnown
<1>1. CASE Count(d)
  <2>1. /\ call'[d].quote = call[d].quote /\ call'[d].first = (row[call[d].quote].anchor = 0)
    <3>1. call'[d] # NoCall
      BY DEF NoCall
    <3> QED  BY <1>1, <3>1, NewCall DEF Types
  <2>2. row' = row
    BY <1>1 DEF Count
  <2> QED  BY <2>1, <2>2
<1>2. CASE ~ Count(d)
  <2>1. call[d].at = "send" /\ call[d].quote = q /\ call'[d].first = call[d].first
    BY <1>2, Senders DEF Types, Sending
  <2>2. q \in Quotes
    BY <2>1 DEF Types, CallOK
  <2> QED  BY <2>1, <2>2, RowStep DEF FirstKnown
<1> QED  BY <1>1, <1>2

\* The cooldown begins with the update after a card, when no other card is under way.
LEMMA CoolingStep ==
  ASSUME Types, OneUnderWay, CoolingOK, [Next]_vars
  PROVE  CoolingOK'
<1> SUFFICES ASSUME NEW q \in cooling'
             PROVE  /\ row'[q].anchor # 0
                    /\ q \in apart' => \A d \in Calls : Sending(d)' => call'[d].quote # q
  BY DEF CoolingOK
<1>1. q \in cooling \/ \E c \in Calls : Record(c) /\ call[c].quote = q
  BY Steps
  DEF vars, chat, lark, history, SaveMessage, Bridge, NoBridge, BridgeOff, Count, SendDirectCard,
      Record, GiveUp, ReplyInThread, ReplyBare, SaveReply, ReplyFails, ResetCount, ResetFails,
      SetCancelled, CooldownEnds, Open, Disconnect, Restart
<1>2. CASE q \in cooling
  <2>1. q \in Quotes /\ row[q].anchor # 0
    BY <1>2 DEF Types, TypeOK, CoolingOK
  <2>2. ASSUME NEW d \in Calls, Sending(d)', Count(d)
        PROVE  call'[d].quote # q
    BY <1>2, <2>1, <2>2, NewCall DEF Types, Sending, NoCall, Cooling
  <2>3. ASSUME NEW d \in Calls, Sending(d)', q \in apart', ~ Count(d)
        PROVE  call'[d].quote # q
    BY <1>2, <2>3, Senders, Monotone DEF Types, CoolingOK
  <2> QED  BY <2>1, <2>2, <2>3, RowStep
<1>3. ASSUME NEW c \in Calls, Record(c), call[c].quote = q
      PROVE  q \in apart' => \A d \in Calls : Sending(d)' => call'[d].quote # q
  <2>1. call'[c].at = "idle"
    BY <1>3, NewCall DEF Types, NoCall
  <2>2. \A d \in Calls \ {c} : call'[d] = call[d]
    BY <1>3, OtherCalls DEF Types
  <2> QED  BY <1>3, <2>1, <2>2, Monotone DEF OneUnderWay, Sending, Record
<1> QED  BY <1>1, <1>2, <1>3, RowStep

\* A message that is not decided yet stays so, is counted, or needs no card.
LEMMA DecidingStep ==
  ASSUME Types, [Next]_vars, NEW q \in Quotes, NEW n \in Deciding(q)
  PROVE  n \in Deciding(q)' \cup counted'[q] \cup settled'[q]
<1>1. PICK d \in Calls : Undecided(d) /\ call[d].quote = q /\ call[d].msg = n
  BY DEF Deciding, Undecided
<1>2. counted \in [Quotes -> SUBSET Nat] /\ settled \in [Quotes -> SUBSET Nat]
  BY DEF Types, TypeOK
<1>3. ASSUME Undecided(d)', call'[d].quote = q, call'[d].msg = n
      PROVE  n \in Deciding(q)'
  BY <1>3 DEF Deciding, Undecided
<1>4. CASE Count(d)
  BY <1>1, <1>2, <1>4 DEF Count
<1>5. CASE NoBridge(d) \/ BridgeOff(d) \/ GiveUp(d)
  BY <1>1, <1>2, <1>5 DEF NoBridge, BridgeOff, GiveUp, Settle, Undecided
<1>6. CASE Bridge(d)
  <2>1. Undecided(d)' /\ call'[d].quote = q /\ call'[d].msg = n
    BY <1>1, <1>6, NewCall DEF Types, Undecided
  <2> QED  BY <1>3, <2>1
<1>7. ASSUME call'[d] = call[d]  PROVE n \in Deciding(q)'
  BY <1>1, <1>3, <1>7 DEF Undecided
<1>8. ASSUME NEW c \in Calls, c # d,
             \/ \E r \in Quotes : SaveMessage(c, r)
             \/ Bridge(c) \/ NoBridge(c) \/ BridgeOff(c) \/ Count(c)
             \/ SendDirectCard(c) \/ Record(c) \/ GiveUp(c)
      PROVE  call'[d] = call[d]
  BY <1>8, OtherCalls DEF Types
<1>9. /\ \A r \in Quotes : ~ SaveMessage(d, r)
      /\ ~ SendDirectCard(d) /\ ~ Record(d)
  BY <1>1 DEF SaveMessage, SendDirectCard, Record, Undecided
<1>10. CASE UNCHANGED call
  BY <1>7, <1>10
<1> QED
  BY <1>4, <1>5, <1>6, <1>7, <1>8, <1>9, <1>10, Steps
  DEF vars, ReplyInThread, ReplyBare, SaveReply, ReplyFails, ResetCount, ResetFails,
      SetCancelled, CooldownEnds, Open, Disconnect, Restart

\* A counted message stays counted until a card announced it or the reader came.
LEMMA StillCounted ==
  ASSUME Types, Covered, [Next]_vars, NEW q \in apart, NEW n \in counted[q], Written
  PROVE  n \in counted'[q] \cup Told(q)' \cup settled'[q]
<1>1. /\ q \in Quotes /\ counted \in [Quotes -> SUBSET Nat] /\ saved \in [Quotes -> Nat]
      /\ settled \in [Quotes -> SUBSET Nat]
  BY DEF Types, TypeOK
<1>2. ASSUME NEW c \in Calls, Count(c)  PROVE n \in counted'[q]
  BY <1>1, <1>2 DEF Count
<1>3. ASSUME NEW c \in Calls, Record(c), call[c].quote = q
      PROVE  n \in Told(q)' \cup settled'[q]
  <2>1. n \in call[c].tells \cup settled[q] \cup Told(q)
    BY <1>3 DEF Covered, Sending, Record
  <2>2. /\ call[c].card \in 1 .. Len(cards) /\ cards[call[c].card].quote = q
        /\ cards[call[c].card].tells = call[c].tells
    BY <1>3 DEF Types, CallOK, Record
  <2>3. n \in Told(q) \cup settled[q]
    BY <2>1, <2>2, ToldMember
  <2> QED  BY <1>1, <2>3, Monotone
<1>4. ASSUME NEW c \in Calls, Record(c), call[c].quote # q  PROVE n \in counted'[q]
  BY <1>1, <1>4 DEF Record
<1>5. ASSUME NEW r \in Quotes, ResetCount(r)  PROVE n \in counted'[q] \cup settled'[q]
  <2>1. n \in 1 .. saved[q]
    BY <1>1 DEF Written
  <2> QED  BY <1>1, <1>5, <2>1 DEF ResetCount, Settle
<1>6. CASE UNCHANGED counted
  BY <1>1, <1>6
<1>7. \/ \E c \in Calls : Count(c) \/ Record(c)
      \/ \E r \in Quotes : ResetCount(r)
      \/ UNCHANGED counted
  BY Steps
  DEF vars, chat, lark, history, SaveMessage, Bridge, NoBridge, BridgeOff, SendDirectCard,
      GiveUp, ReplyInThread, ReplyBare, SaveReply, ReplyFails, ResetFails,
      SetCancelled, CooldownEnds, Open, Disconnect, Restart
<1> QED  BY <1>2, <1>3, <1>4, <1>5, <1>6, <1>7

\* A message is decided, counted and announced without a gap.
LEMMA AllToldStep ==
  ASSUME Types, Written, Covered, AllTold, [Next]_vars
  PROVE  AllTold'
<1> SUFFICES ASSUME NEW q \in apart', NEW n \in 1 .. saved'[q]
             PROVE  n \in Told(q)' \cup counted'[q] \cup settled'[q] \cup Deciding(q)'
  BY DEF AllTold
<1>1. q \in apart /\ q \in Quotes
  BY Monotone DEF Types, TypeOK
<1>2. CASE n \in 1 .. saved[q]
  BY <1>1, <1>2, Monotone, DecidingStep, StillCounted DEF AllTold
<1>3. ASSUME NEW c \in Calls, NEW r \in Quotes, SaveMessage(c, r), n \notin 1 .. saved[q]
      PROVE  n \in Deciding(q)'
  <2>1. saved' = [saved EXCEPT ![r] = saved[r] + 1] /\ saved \in [Quotes -> Nat]
    BY <1>3 DEF SaveMessage, Types, TypeOK
  <2>2. r = q /\ n = saved[q] + 1
    BY <1>1, <1>3, <2>1
  <2>3. call'[c].at = "decide" /\ call'[c].quote = q /\ call'[c].msg = n
    BY <1>3, <2>2, NewCall DEF Types
  <2> QED  BY <2>3 DEF Deciding
<1>4. (\E c \in Calls, r \in Quotes : SaveMessage(c, r)) \/ UNCHANGED saved
  BY Steps
  DEF vars, chat, Bridge, NoBridge, BridgeOff, Count, SendDirectCard,
      Record, GiveUp, ReplyInThread, ReplyBare, SaveReply, ReplyFails, ResetCount, ResetFails,
      SetCancelled, CooldownEnds, Open, Disconnect, Restart
<1> QED  BY <1>2, <1>3, <1>4

-----------------------------------------------------------------------------
\* The invariant holds at first.
LEMMA InitInv == Init => IInv
<1> SUFFICES ASSUME Init  PROVE IInv
  OBVIOUS
<1> USE DEF Init
<1>1. cards = <<>> /\ cards \in Seq(CardType) /\ Len(cards) = 0
  BY DEF CardType
<1>2. /\ \A c \in Calls : call[c] = NoCall
      /\ \A q \in Quotes : row[q] = NoRow /\ counted[q] = {} /\ saved[q] = 0
  OBVIOUS
<1>3. Types
  <2>1. NoCall \in CallStates /\ NoReply \in [at : {"idle", "save"}, quote : Quotes \cup {NoQuote}]
        /\ NoRow \in [anchor : Nat, lastDm : Nat]
    BY DEF NoCall, NoReply, NoRow, CallStates
  <2>2. TypeOK
    BY <1>1, <2>1 DEF TypeOK, CardType
  <2>3. CallOK
    BY <1>2 DEF CallOK, NoCall
  <2>4. ReplyOK
    BY DEF ReplyOK, NoReply
  <2> QED  BY <2>2, <2>3, <2>4 DEF Types
<1>4. Anchors
  BY <1>1, <1>2 DEF Anchors, AnchorOfQuote, CardTimes, AnchorTimes, NoRow
<1>5. News
  BY <1>1, <1>2 DEF News, Written, Fresh, NothingTwice, NoCall, NoRow, Sending, Undecided
<1>6. Cover
  <2>1. AllTold
    BY <1>2 DEF AllTold
  <2>2. OneUnderWay /\ Covered /\ BeforeFirst /\ FirstKnown /\ CoolingOK
    BY <1>2 DEF OneUnderWay, Covered, BeforeFirst, FirstKnown, CoolingOK, NoCall, Sending
  <2> QED  BY <2>1, <2>2 DEF Cover
<1> QED  BY <1>3, <1>4, <1>5, <1>6 DEF IInv

\* Every step keeps the invariant.
LEMMA InvStep == IInv /\ [Next]_vars => IInv'
<1> SUFFICES ASSUME IInv, [Next]_vars  PROVE IInv'
  OBVIOUS
<1>1. Types'
  BY TypeStep, CallStep, ReplyStep DEF IInv, Types
<1>2. Anchors'
  BY AnchorsStep DEF IInv
<1>3. News'
  BY WrittenStep, FreshStep, TwiceStep DEF IInv, Anchors, News
<1>4. Cover'
  BY OneStep, CoveredStep, BeforeFirstStep, FirstKnownStep, CoolingStep, AllToldStep
  DEF IInv, News, Cover
<1> QED  BY <1>1, <1>2, <1>3, <1>4 DEF IInv

\* The inductive invariant the theorems below rest on.
THEOREM InvCorrect == Spec => []IInv
BY InitInv, InvStep, PTL DEF Spec

\* The row, the count and the locals of the handlers keep their types.
THEOREM TypeCorrect == Spec => []TypeOK
<1>1. IInv => TypeOK
  BY DEF IInv, Types
<1> QED  BY <1>1, InvCorrect, PTL

\* The anchor of a row is a card about the quote of that row, whatever calls overlap.
THEOREM AnchorOfQuoteCorrect == Spec => []AnchorOfQuote
<1>1. IInv => AnchorOfQuote
  BY DEF IInv, Anchors
<1> QED  BY <1>1, InvCorrect, PTL

\* What the anchor of a row and the cards before it have announced is not counted.
THEOREM NothingTwiceCorrect == Spec => []NothingTwice
<1>1. IInv => NothingTwice
  BY DEF IInv, News
<1> QED  BY <1>1, InvCorrect, PTL

\* As long as the cards of a quote do not overlap, no message of its chat falls through.
THEOREM AllToldCorrect == Spec => []AllTold
<1>1. IInv => AllTold
  BY DEF IInv, Cover
<1> QED  BY <1>1, InvCorrect, PTL

\* A text without a thread goes to the row whose card is the latest.
THEOREM BareTakesLatestCorrect == Spec => BareTakesLatest
<1>1. IInv /\ [Next]_vars =>
        [\A p \in Replies : ReplyBare(p) =>
           \A q \in Live : q # reply'[p].quote =>
             cards[row[q].anchor].sentAt < row[reply'[p].quote].lastDm]_vars
  <2> SUFFICES ASSUME IInv, NEW p \in Replies, ReplyBare(p), NEW q \in Live
               PROVE  cards[row[q].anchor].sentAt < row[reply'[p].quote].lastDm
    OBVIOUS
  <2>1. reply \in [Replies -> [at : {"idle", "save"}, quote : Quotes \cup {NoQuote}]]
        /\ row \in [Quotes -> [anchor : Nat, lastDm : Nat]] /\ Len(cards) \in Nat
    BY DEF IInv, Types, TypeOK
  <2>2. PICK r \in Latest : reply'[p].quote = r
    BY <2>1 DEF ReplyBare
  <2>3. /\ q \in Quotes /\ r \in Quotes /\ row[q].anchor # 0
        /\ row[q].lastDm <= row[r].lastDm
    BY <2>2 DEF Latest, Live
  <2>4. cards[row[q].anchor].sentAt < row[q].lastDm
    BY <2>3 DEF IInv, Anchors, AnchorTimes
  <2>5. cards[row[q].anchor].sentAt \in Nat
    <3>1. row[q].anchor \in 1 .. Len(cards)
      BY <2>1, <2>3 DEF IInv, Anchors, AnchorOfQuote
    <3> QED  BY <3>1, CardFields DEF IInv, Types
  <2> QED  BY <2>1, <2>2, <2>3, <2>4, <2>5
<1> QED  BY <1>1, InvCorrect, PTL DEF Spec, BareTakesLatest

\* During its cooldown a quote whose cards never overlapped gets no further card.
THEOREM SpacedCorrect == Spec => Spaced
<1>1. IInv /\ [Next]_vars =>
        [\A c \in Calls : SendDirectCard(c) /\ call[c].quote \in apart =>
           call[c].quote \notin cooling]_vars
  <2> SUFFICES ASSUME IInv, NEW c \in Calls, SendDirectCard(c), call[c].quote \in apart
               PROVE  call[c].quote \notin cooling
    OBVIOUS
  <2>1. Sending(c)
    BY DEF SendDirectCard, Sending
  <2> QED  BY <2>1 DEF IInv, Cover, CoolingOK
<1> QED  BY <1>1, InvCorrect, PTL DEF Spec, Spaced
=============================================================================
