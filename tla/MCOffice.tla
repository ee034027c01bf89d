------------------------------ MODULE MCOffice ------------------------------
\* The four parts of the office around a quote, in one run: chat rooms,
\* sessions, tables of names, screens.  They share no state, so a behaviour is
\* one of one part, chosen at the start, while the others stay as they begin.
EXTENDS Sessions, TLC

CONSTANTS Admins, Orders, Sales,
          Requester, Assignee, Clients, RATE_WINDOW, MAX_MESSAGES, MaxWrites, MaxLog,
          Keys, Spellings, Values, NoValue, RowIds, Fresh, FileSpelling, Slots,
          NoUser, QuoteIds, HoursPerDay, DaysPerWeek, DaysPerMonth, MonthsPerYear,
          ServerOffset, VN_OFFSET, Lockable, Start, MaxTime

VARIABLES part,
          status, writes, casts, raced, online, last, room, evicting, flight,
          stamps, log, readUpTo, late,
          table, rows, request, excused,
          now, quotes, locked, view

\* Both tabs are of one browser.
MCBrowserOf == [t \in Tabs |-> "browser"]

\* Both quotes are of one customer; the second has no category.
KindOf == [i \in QuoteIds |->
    IF i = 1 THEN [requester |-> "sam", order |-> "oscar", customer |-> "carol", category |-> "ring"]
             ELSE [requester |-> "sue", order |-> "oscar", customer |-> "carol", category |-> "none"]]

chatVars == <<status, writes, casts, raced, online, last, room, evicting, flight,
              stamps, log, readUpTo, late>>
catalogueVars == <<table, rows, request, excused>>
viewVars == <<now, quotes, locked, view>>

Rooms == INSTANCE ChatRooms
Tables == INSTANCE Catalogue WITH Ids <- RowIds
Views == INSTANCE QuoteViews WITH Ids <- QuoteIds

OfficeInit ==
    /\ part \in {"rooms", "sessions", "catalogue", "views"}
    /\ Rooms!Init /\ (part # "rooms" => status = "none")
    /\ Init
    /\ Tables!Init /\ (part # "catalogue" => table = "teams")
    /\ Views!Init

OfficeNext ==
    /\ \/ /\ part = "rooms" /\ Rooms!Next
          /\ UNCHANGED <<sessionVars, catalogueVars, viewVars>>
       \/ /\ part = "sessions" /\ Next
          /\ UNCHANGED <<chatVars, catalogueVars, viewVars>>
       \/ /\ part = "catalogue" /\ Tables!Next
          /\ UNCHANGED <<chatVars, sessionVars, viewVars>>
       \/ /\ part = "views" /\ Views!Next
          /\ UNCHANGED <<chatVars, sessionVars, catalogueVars>>
    /\ UNCHANGED part

vars == <<part, chatVars, sessionVars, catalogueVars, viewVars>>

OfficeSpec == OfficeInit /\ [][OfficeNext]_vars

\* Each property is looked at in the behaviours of its part; those of Sessions
\* say nothing of an account nobody has registered.
CancelledIsClosed == part = "rooms" => Rooms!CancelledIsClosed
LastEventTrue == part = "rooms" => Rooms!LastEventTrue
NoTwins == part = "catalogue" => Tables!NoTwins
NumbersAgree == part = "views" => Views!NumbersAgree
=============================================================================
