----------------------------- MODULE Catalogue -----------------------------
(***************************************************************************)
(* The tables of names an Admin keeps: stones, teams, product categories,  *)
(* departments, and customers.  Each service looks for a row of the same   *)
(* name in one statement and writes in another.                            *)
(*                                                                         *)
(* A name is a key (what is left when case and blanks are ignored) and a   *)
(* spelling.  For a stone the key stands for type, name, cut and size.     *)
(* The services do not touch each other's tables, so a behaviour is about  *)
(* one table, chosen at the start.                                         *)
(***************************************************************************)
EXTENDS Naturals, FiniteSets

CONSTANTS Keys, Spellings,  \* names are Keys \X Spellings
          Values,           \* prices; for customers, phone numbers
          NoValue,          \* none given; for customers, no phone
          Ids, Fresh,       \* bound: the rows there may be; an id not yet known
          FileSpelling,     \* how the lines of a file are spelled
          Slots             \* bound: the requests in flight

Names == [key : Keys, spelling : Spellings]
Tables == {"stones", "teams", "categories", "departments", "customers"}

VARIABLES table,    \* the table this behaviour is about
          rows,     \* id |-> row
          request,  \* the requests in flight
          excused   \* history: keys and phones a write gave to a second row
                    \* after its check had been overtaken

catalogueVars == <<table, rows, request, excused>>

----------------------------------------------------------------------------
Idle == [op |-> "idle"]

Row(name, value) == [name |-> name, value |-> value, active |-> TRUE]

\* stoneDedupKey and the insensitive comparison of names.
SameKey(a, b) == a.key = b.key

\* mutant: names are compared as they are spelled.
HasSpelledTwin(name, except) == \E i \in DOMAIN rows \ except : rows[i].name = name

\* findDuplicateStone, assertNameFree.
HasTwin(name, except) == \E i \in DOMAIN rows \ except : SameKey(rows[i].name, name)

\* The unique index of the table compares spellings; stones and customers have none.
Unique(rs) ==
    table \in {"teams", "categories", "departments"} =>
        \A i, j \in DOMAIN rs : i # j => rs[i].name # rs[j].name

Without(ids) == [i \in DOMAIN rows \ ids |-> rows[i]]

Added(rs, id, row) == [i \in DOMAIN rs \cup {id} |-> IF i = id THEN row ELSE rs[i]]

FreshIds == Ids \ DOMAIN rows

\* A statement that fails (a missing row, the unique index) changes nothing;
\* one that succeeds overtakes the checks of all others in flight.  It gives
\* the keys and phones of given to a row.
WriteAs(r, rs, given) ==
    LET done == Unique(rs) /\ rs # rows
    IN  /\ rows' = IF done THEN rs ELSE rows
        /\ request' = [s \in Slots |->
               IF s = r THEN Idle
               ELSE IF done /\ request[s].op # "idle" THEN [request[s] EXCEPT !.overtaken = TRUE]
               ELSE request[s]]
        /\ excused' = IF done /\ request[r].op # "idle" /\ request[r].overtaken
                      THEN excused \cup (given \ {NoValue}) ELSE excused
        /\ UNCHANGED table

Fails(r) == WriteAs(r, rows, {})

Check(r, op, id, name, value) ==
    /\ request' = [request EXCEPT ![r] =
           [op |-> op, id |-> id, name |-> name, value |-> value, overtaken |-> FALSE]]
    /\ UNCHANGED <<table, rows, excused>>

Init ==
    /\ table \in Tables
    /\ rows = [i \in {} |-> Row([key |-> "", spelling |-> ""], NoValue)]
    /\ request = [r \in Slots |-> Idle]
    /\ excused = {}

----------------------------------------------------------------------------
(* create, update and remove.                                              *)

MustBeFree == table \in {"stones", "teams"}

CreateCheck(r, name, value) ==
    /\ request[r].op = "idle"
    /\ table # "customers" /\ table # "categories"
    /\ (value = NoValue) <=> (table # "stones")
    /\ MustBeFree => ~HasTwin(name, {})
    /\ Check(r, "create", Fresh, name, value)

\* Categories: a hidden category of that name comes back instead, with the
\* rates given or its own.
Hidden(name) == {i \in DOMAIN rows : ~rows[i].active /\ SameKey(rows[i].name, name)}

CreateCategoryCheck(r, name, value) ==
    /\ request[r].op = "idle"
    /\ table = "categories"
    /\ IF Hidden(name) # {}
       THEN \E i \in Hidden(name) :
                Check(r, "revive", i, name, IF value = NoValue THEN rows[i].value ELSE value)
       ELSE Check(r, "create", Fresh, name, value)

Create(r) ==
    /\ request[r].op = "create"
    /\ LET q == request[r]
       IN  \E id \in FreshIds :
               WriteAs(r, Added(rows, id, Row(q.name, q.value)), {q.name.key, q.value})

Revive(r) ==
    /\ request[r].op = "revive"
    /\ LET id == request[r].id
       IN  WriteAs(r, Added(rows, id, Row(rows[id].name, request[r].value)), {})

\* Stones, teams and departments can be renamed.
UpdateCheck(r, id, name) ==
    /\ request[r].op = "idle"
    /\ table \in {"stones", "teams", "departments"}
    /\ id \in DOMAIN rows
    /\ MustBeFree => ~HasTwin(name, {id})
    /\ Check(r, "rename", id, name, NoValue)

Rename(r) ==
    /\ request[r].op = "rename"
    /\ IF request[r].id \in DOMAIN rows
       THEN WriteAs(r, [rows EXCEPT ![request[r].id].name = request[r].name],
                    {request[r].name.key})
       ELSE Fails(r)

\* The statements that need no check: their own condition is all there is.
Remove(r, ids) ==
    /\ request[r].op = "idle"
    /\ ids \subseteq DOMAIN rows /\ ids # {}
    /\ table \notin {"categories", "stones"} => Cardinality(ids) = 1
    /\ IF table = "categories"
       THEN WriteAs(r, [i \in DOMAIN rows |-> [rows[i] EXCEPT !.active = @ /\ i \notin ids]], {})
       ELSE WriteAs(r, Without(ids), {})

\* updateManyPrices of stones and updateMany of categories: one transaction.
\* The look for missing stones before it decides nothing more.
UpdateMany(r, ids, value) ==
    /\ request[r].op = "idle"
    /\ table \in {"stones", "categories"} /\ value # NoValue
    /\ ids \subseteq DOMAIN rows /\ ids # {}
    /\ WriteAs(r, [i \in DOMAIN rows |->
           IF i \in ids THEN [rows[i] EXCEPT !.value = value] ELSE rows[i]], {})

----------------------------------------------------------------------------
(* importPriceGridRows.  The lines of the file are spelled in one way; of  *)
(* two lines of one key the later price counts.                            *)

\* Which row the price of a key goes to: of two twins the Map keeps one.
Home(key) == {i \in DOMAIN rows : rows[i].name.key = key}

ImportCheck(r, keys, value) ==
    /\ request[r].op = "idle"
    /\ table = "stones" /\ value # NoValue
    /\ keys # {}
    /\ \E home \in [{k \in keys : Home(k) # {}} -> DOMAIN rows] :
        /\ \A k \in DOMAIN home : home[k] \in Home(k)
        /\ request' = [request EXCEPT ![r] =
               [op |-> "import", home |-> home, value |-> value,
                new |-> keys \ DOMAIN home, overtaken |-> FALSE]]
    /\ UNCHANGED <<table, rows, excused>>

\* One transaction: the updates of rows that must be there, and the new rows.
Import(r) ==
    LET q == request[r]
        known == {q.home[k] : k \in DOMAIN q.home}
    IN  /\ q.op = "import"
        /\ \E id \in [q.new -> FreshIds] :
            /\ \A k, l \in q.new : k # l => id[k] # id[l]
            /\ IF known \subseteq DOMAIN rows
               THEN WriteAs(r, [i \in DOMAIN rows \cup {id[k] : k \in q.new} |->
                        IF i \in known THEN [rows[i] EXCEPT !.value = q.value]
                        ELSE IF i \in DOMAIN rows THEN rows[i]
                        ELSE Row([key |-> CHOOSE k \in q.new : id[k] = i,
                                  spelling |-> FileSpelling], q.value)], q.new)
               ELSE Fails(r)

----------------------------------------------------------------------------
(* Customers: one of that phone, else one of that name, takes the data.    *)

\* mutant: a phone that is known is not looked for.
NoLookup(phone) == {}

ByPhone(phone) == {i \in DOMAIN rows : phone # NoValue /\ rows[i].value = phone}
ByName(name) == {i \in DOMAIN rows : SameKey(rows[i].name, name)}

CustomerCheck(r, name, phone) ==
    /\ request[r].op = "idle"
    /\ table = "customers"
    /\ CASE ByPhone(phone) # {} ->
              \E i \in ByPhone(phone) : Check(r, "merge", i, name, phone)
         [] ByPhone(phone) = {} /\ ByName(name) # {} ->
              \E i \in ByName(name) :
                  Check(r, "merge", i, rows[i].name, IF phone = NoValue THEN rows[i].value ELSE phone)
         [] OTHER -> Check(r, "create", Fresh, name, phone)

\* By phone the update leaves the phone alone, by name it leaves the name.
Merge(r) ==
    LET q == request[r]
    IN  /\ q.op = "merge"
        /\ IF q.id \in DOMAIN rows
           THEN WriteAs(r, [rows EXCEPT ![q.id].name = q.name, ![q.id].value = q.value], {q.value})
           ELSE Fails(r)

\* PATCH of a customer checks nothing.
UpdateCustomer(r, id, phone) ==
    /\ request[r].op = "idle"
    /\ table = "customers"
    /\ id \in DOMAIN rows
    /\ rows' = [rows EXCEPT ![id].value = phone]
    /\ request' = [s \in Slots |->
           IF request[s].op = "idle" THEN Idle ELSE [request[s] EXCEPT !.overtaken = TRUE]]
    /\ excused' = excused \cup {phone}
    /\ UNCHANGED table

Next ==
    \E r \in Slots :
        \/ \E name \in Names, value \in Values \cup {NoValue} :
            \/ CreateCheck(r, name, value)
            \/ CreateCategoryCheck(r, name, value)
            \/ CustomerCheck(r, name, value)
        \/ \E id \in Ids, name \in Names : UpdateCheck(r, id, name)
        \/ \E id \in Ids, phone \in Values : UpdateCustomer(r, id, phone)
        \/ \E ids \in SUBSET Ids, value \in Values : Remove(r, ids) \/ UpdateMany(r, ids, value)
        \/ \E keys \in SUBSET Keys, value \in Values : ImportCheck(r, keys, value)
        \/ Create(r) \/ Revive(r) \/ Rename(r) \/ Import(r) \/ Merge(r)

Spec == Init /\ [][Next]_catalogueVars

----------------------------------------------------------------------------
\* Two stones of one type, name, cut and size, two teams whose names differ in
\* case only, or two customers of one phone, come about only when a write
\* overtook the check of another, or when a customer's phone was edited by
\* hand.  stones.service.ts:155,250, teams.service.ts:58, customers.service.ts:212.
NoTwins ==
    \A i, j \in DOMAIN rows : i # j =>
        /\ MustBeFree /\ SameKey(rows[i].name, rows[j].name) => rows[i].name.key \in excused
        /\ table = "customers" /\ rows[i].value # NoValue /\ rows[i].value = rows[j].value =>
               rows[i].value \in excused
=============================================================================
