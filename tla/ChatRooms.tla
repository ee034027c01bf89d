----------------------------- MODULE ChatRooms -----------------------------
(***************************************************************************)
(* The chat of one quote and the events about it: realtime.gateway.ts and  *)
(* quote-chat.service.ts.                                                  *)
(*                                                                         *)
(* Every user has at most one socket.  A handler checks the right to take  *)
(* part in one round trip (assertParticipant) and acts on the answer in a  *)
(* later step; the quote may be cancelled, restored or deleted in between. *)
(* A request that writes the status broadcasts it only after its write.    *)
(* The writes themselves are QuoteWorkflow's; here each is one step.       *)
(***************************************************************************)
EXTENDS Naturals, Sequences, FiniteSets

CONSTANTS Admins, Orders, Sales,  \* the users, by role
          Requester, Assignee,    \* the two direct participants of the quote
          Clients,                \* the users that may open a socket
          RATE_WINDOW, MAX_MESSAGES,  \* so many messages in so many ticks
          MaxWrites,              \* bound: writes of the quote
          MaxLog                  \* bound: messages in the chat

Users == Admins \cup Orders \cup Sales

VARIABLES status,    \* QuoteRequest.status; "none" before create, "DELETED" at the end
          writes,    \* how many writes there were
          casts,     \* broadcasts whose write is done: set of [event, no]
          raced,     \* a write happened while an older broadcast was pending
          online,    \* the clients with a socket
          last,      \* the last statusChanged a client got
          room,      \* the sockets in the room of the quote
          evicting,  \* the sockets fetchSockets found, which are to leave
          flight,    \* per client, the chat request in flight
          stamps,    \* messageTimestamps, as ages
          log,       \* the messages of the quote
          readUpTo,  \* QuoteChatRead.lastReadAt, as a number of messages
          late       \* history: the sockets that joined on a check made
                     \* before the cancellation

chatVars == <<status, writes, casts, raced, online, last, room, evicting,
              flight, stamps, log, readUpTo, late>>

roomVars == <<online, room, evicting, late>>

Exists == status \notin {"none", "DELETED"}

----------------------------------------------------------------------------
(* Who may take part.                                                      *)

canSeeCancelledQuotes(u) == u \in Admins

\* mutant: a cancelled quote stays open to its participants.
ShownEvenCancelled(u) == Exists

Shown(u) == Exists /\ (status = "CANCELLED" => canSeeCancelledQuotes(u))

assertParticipant(u) ==
    /\ Shown(u)
    /\ u \in {Requester, Assignee} \cup Orders \cup Admins

\* Messages of others that came after the last time u read.
Unread(u) == Cardinality({i \in DOMAIN log : i > readUpTo[u] /\ log[i].from # u})

\* The answers of getMessages and of getUnreadCounts for this quote.
getMessages(u) ==
    IF assertParticipant(u) THEN [ok |-> TRUE, count |-> Len(log), unread |-> Unread(u)]
    ELSE [ok |-> FALSE]

getUnreadCounts(u) ==
    IF Shown(u) /\ (u \in Orders \cup Admins \/ u \in {Requester, Assignee})
    THEN Unread(u) ELSE 0

----------------------------------------------------------------------------
(* The sockets.                                                            *)

Idle == [at |-> "idle"]
CanJoin(token) == token = "access"

Init ==
    /\ status \in {"none", "PENDING"} /\ writes = 0 /\ casts = {} /\ raced = FALSE
    /\ online = {} /\ room = {} /\ evicting = {} /\ late = {}
    /\ last = [c \in Clients |-> "nothing"]
    /\ flight = [c \in Clients |-> Idle]
    /\ stamps = [c \in Clients |-> <<>>]
    /\ log = <<>> /\ readUpTo = [u \in Users |-> 0]

\* afterInit and handleConnection.  The room of the Admins is the set
\* online \cap Admins: the role is the one in the token.
Connect(c, token) ==
    /\ c \notin online
    /\ CanJoin(token)
    /\ online' = online \cup {c}
    /\ UNCHANGED <<status, writes, casts, raced, last, room, evicting, flight,
                   stamps, log, readUpTo, late>>

\* handleDisconnect.  What a handler still does for the old socket goes to a
\* client id nobody has any more.
Disconnect(c) ==
    /\ c \in online
    /\ online' = online \ {c}
    /\ room' = room \ {c} /\ evicting' = evicting \ {c} /\ late' = late \ {c}
    /\ stamps' = [stamps EXCEPT ![c] = <<>>]
    /\ flight' = [flight EXCEPT ![c] = Idle]
    /\ last' = [last EXCEPT ![c] = "nothing"]
    /\ UNCHANGED <<status, writes, casts, raced, log, readUpTo>>

----------------------------------------------------------------------------
(* The writes of the quote and their broadcasts.                           *)

NextStatuses ==
    CASE status = "none" -> {"PENDING"}
      [] status = "PENDING" -> {"PROCESSING", "CANCELLED", "DELETED"}
      [] status = "PROCESSING" -> {"CANCELLED"}
      [] status = "CANCELLED" -> {"PENDING", "PROCESSING"}
      [] OTHER -> {}

\* create, updateStatus and remove, up to their broadcast.
Write(next) ==
    /\ writes < MaxWrites
    /\ next \in NextStatuses
    /\ status' = next
    /\ writes' = writes + 1
    /\ casts' = casts \cup {[event |-> next, no |-> writes]}
    /\ raced' = (casts # {})
    /\ flight' = [c \in Clients |->
           IF flight[c].at \in {"join", "save"} /\ next = "CANCELLED"
           THEN [flight[c] EXCEPT !.stale = TRUE] ELSE flight[c]]
    /\ log' = IF next = "DELETED" THEN <<>> ELSE log
    /\ UNCHANGED <<roomVars, last, stamps, readUpTo>>

\* deleteOption changes no status but is broadcast as well.
DeleteOption ==
    /\ writes < MaxWrites
    /\ status = "PROCESSING"
    /\ writes' = writes + 1
    /\ casts' = casts \cup {[event |-> "OPTION_DELETED", no |-> writes]}
    /\ raced' = (casts # {})
    /\ UNCHANGED <<roomVars, status, last, flight, stamps, log, readUpTo>>

\* mutant: the event goes out as it is.
SameForAll(c, event) == event

\* What the event is for one client.
EventFor(c, event) ==
    IF event = "CANCELLED" /\ c \notin Admins THEN "DELETED" ELSE event

\* mutant: the room is left alone.
NobodyLeaves(event) == {}

\* The sockets a cancellation puts out of the room.
ToEvict(event) == IF event = "CANCELLED" THEN room \ Admins ELSE {}

\* broadcastStatusChanged, with the first half of evictNonAdminsFromChat.
Broadcast(b) ==
    /\ b \in casts
    /\ casts' = casts \ {b}
    /\ last' = [c \in Clients |-> IF c \in online THEN EventFor(c, b.event) ELSE last[c]]
    /\ evicting' = evicting \cup ToEvict(b.event)
    /\ UNCHANGED <<status, writes, raced, online, room, flight,
                   stamps, log, readUpTo, late>>

\* The second half, after fetchSockets answered.
Evict ==
    /\ evicting # {}
    /\ room' = room \ evicting
    /\ late' = late \ evicting
    /\ evicting' = {}
    /\ UNCHANGED <<status, writes, casts, raced, online, last, flight,
                   stamps, log, readUpTo>>

----------------------------------------------------------------------------
(* joinRequest and markRead.                                               *)

Resting(c) == c \in online /\ \A d \in Clients : flight[d].at = "idle"

\* One chat request is in flight at a time.
JoinCheck(c) ==
    /\ Resting(c)
    /\ assertParticipant(c)
    /\ flight' = [flight EXCEPT ![c] = [at |-> "join", stale |-> FALSE]]
    /\ UNCHANGED <<status, writes, casts, raced, roomVars, last, stamps, log, readUpTo>>

JoinFinish(c) ==
    /\ flight[c].at = "join"
    /\ room' = room \cup {c}
    /\ late' = IF flight[c].stale THEN late \cup {c} ELSE late
    /\ flight' = [flight EXCEPT ![c] = Idle]
    /\ UNCHANGED <<status, writes, casts, raced, online, evicting, last,
                   stamps, log, readUpTo>>

\* The check and the upsert of markRead: nothing the chat decides lies between.
MarkRead(c) ==
    /\ Resting(c)
    /\ assertParticipant(c)
    /\ readUpTo' = [readUpTo EXCEPT ![c] = Len(log)]
    /\ UNCHANGED <<status, writes, casts, raced, online, room, evicting, last,
                   flight, stamps, log, late>>

----------------------------------------------------------------------------
(* sendMessage.  What a saved message means for Lark is LarkBridge's.       *)

Recent(c) == SelectSeq(stamps[c], LAMBDA age : age < RATE_WINDOW)

\* mutant: an Admin goes on writing in a cancelled quote.
AdminsWriteOn(u) == assertParticipant(u)

\* saveMessage up to its insert: nobody writes in a cancelled quote.
MayWrite(u) == assertParticipant(u) /\ status # "CANCELLED"

\* A message counts against the rate whether or not it is then refused.
SendCheck(c) ==
    /\ Resting(c)
    /\ Len(log) < MaxLog
    /\ Len(Recent(c)) < MAX_MESSAGES
    /\ stamps' = [stamps EXCEPT ![c] = Append(Recent(c), 0)]
    /\ flight' = IF MayWrite(c)
                 THEN [flight EXCEPT ![c] = [at |-> "save", stale |-> FALSE]]
                 ELSE flight
    /\ UNCHANGED <<status, writes, casts, raced, roomVars, last, log, readUpTo>>

\* The insert; the foreign key refuses it when the quote is deleted.
SendSave(c) ==
    /\ flight[c].at = "save"
    /\ flight' = [flight EXCEPT ![c] = Idle]
    /\ log' = IF status = "DELETED" THEN log
              ELSE Append(log, [from |-> c, closed |-> status = "CANCELLED",
                                stale |-> flight[c].stale])
    /\ UNCHANGED <<status, writes, casts, raced, roomVars, last, stamps, readUpTo>>

\* Time passes; an age beyond the window is never looked at again.
Tick ==
    /\ \E c \in Clients : stamps[c] # <<>>
    /\ stamps' = [c \in Clients |->
           SelectSeq([i \in DOMAIN stamps[c] |-> stamps[c][i] + 1],
                     LAMBDA age : age < RATE_WINDOW)]
    /\ UNCHANGED <<status, writes, casts, raced, roomVars, last, flight, log, readUpTo>>

Next ==
    \/ \E c \in Clients :
        \/ \E token \in {"access", "refresh", "none"} : Connect(c, token)
        \/ Disconnect(c)
        \/ JoinCheck(c)
        \/ JoinFinish(c)
        \/ MarkRead(c)
        \/ SendCheck(c)
        \/ SendSave(c)
    \/ \E next \in {"PENDING", "PROCESSING", "CANCELLED", "DELETED"} : Write(next)
    \/ DeleteOption
    \/ \E b \in casts : Broadcast(b)
    \/ Evict
    \/ Tick

Spec == Init /\ [][Next]_chatVars

----------------------------------------------------------------------------
\* A cancelled quote is closed to everybody but Admins once the eviction is
\* through, and to messages of all: what still gets in is a socket or a
\* message whose check was passed before the cancellation.  The two counts
\* of unread messages, computed by different queries, agree for those who may
\* read and give nothing away to the others.
\* realtime.gateway.ts:188, quote-chat.service.ts:35,71,89,173.
CancelledIsClosed ==
    /\ (status = "CANCELLED" /\ casts = {} /\ evicting = {}) => room \subseteq Admins \cup late
    /\ \A i \in DOMAIN log : log[i].closed => log[i].stale
    /\ \A u \in Users :
        IF getMessages(u).ok THEN getUnreadCounts(u) = getMessages(u).unread
        ELSE getUnreadCounts(u) = 0
    /\ status = "CANCELLED" => \A u \in Users \ Admins : ~getMessages(u).ok

\* The last event of a client tells the status as far as this client may know
\* it, unless two writes overlapped with their broadcasts: then the older
\* event may arrive last.  realtime.gateway.ts:139, quote-requests.service.ts:581.
LastEventTrue ==
    (casts = {} /\ ~raced) =>
        \A c \in online :
            last[c] \in {"nothing", "OPTION_DELETED",
                         IF Exists /\ ~Shown(c) THEN "DELETED" ELSE status}
=============================================================================
