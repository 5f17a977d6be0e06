----------------------------- MODULE Dashboard ------------------------------
(***************************************************************************)
(* My Bookings: a page of one category of the guest's bookings with counts  *)
(* of all of them, read in one repeatable-read transaction of two queries   *)
(* while bookings are made, changed, checked out, cancelled and outlast     *)
(* their holds; the website's reading of it; and its links from page to     *)
(* page and to the details of a booking.                                    *)
(***************************************************************************)
EXTENDS Integers, FiniteSets

CONSTANTS
  Guests,       \* accounts that sign in in this browser
  Bookings,     \* booking ids, numbers: the order of the last resort
  Owner,        \* [Bookings -> Guests]: bookings.guest_id
  Days,         \* days on which a stay of one night may begin
  PageSize,     \* GUEST_BOOKINGS_PAGE_SIZE, twenty
  HoldTime,     \* how long a hold lasts
  DayLength,    \* instants in a day
  MaxTime       \* bound: the last instant

Categories == {"upcoming", "past", "cancelled"}

Statuses == {"none", "PENDING", "CONFIRMED", "CHECKED_OUT", "CANCELLED"}

VARIABLES
  now,          \* CURRENT_TIMESTAMP
  rows,         \* [Bookings -> [status, day, hold]]
  session,      \* the guest of the browser's cookie, or "none"
  query,        \* the read transaction under way and what it has read
  view,         \* the page the guest has before her
  walk          \* for the properties: what was seen since a first page

vars == <<now, rows, session, query, view, walk>>

NoRow == [status |-> "none", day |-> 0, hold |-> 0]

NoQuery == [pc |-> "none", guest |-> "none", category |-> "upcoming", page |-> 1,
            at |-> 0, snapshot |-> [b \in Bookings |-> NoRow],
            counts |-> [c \in Categories |-> 0], total |-> 0]

Blank == [kind |-> "none", guest |-> "none", category |-> "upcoming", page |-> 1,
          items |-> {}, counts |-> [c \in Categories |-> 0], total |-> 0]

NoWalk == [quiet |-> FALSE, seen |-> {}]

-----------------------------------------------------------------------------
(* The queries.                                                            *)

HoldExpired(row, at) == row.status = "PENDING" /\ row.hold <= at

(* A stay of one night: its checkout day has come.  A guest who is in is   *)
(* classified like one who is confirmed.                                   *)
Over(row, at) == row.day + 1 <= at \div DayLength

Category(row, at) ==
  IF row.status = "CANCELLED" THEN "cancelled"
  ELSE IF row.status = "CHECKED_OUT" \/ Over(row, at) \/ HoldExpired(row, at)
       THEN "past" ELSE "upcoming"

Owned(t, guest) == {b \in Bookings : t[b].status # "none" /\ Owner[b] = guest}

In(t, guest, category, at) ==
  {b \in Owned(t, guest) : Category(t[b], at) = category}

(* Upcoming stays by the next check-in, the others by the last one, and    *)
(* then by id.                                                             *)
Before(t, category, a, b) ==
  \/ IF category = "upcoming" THEN t[a].day < t[b].day ELSE t[a].day > t[b].day
  \/ t[a].day = t[b].day /\ a < b

(* LIMIT and OFFSET.                                                       *)
Listed(t, guest, category, at, page) ==
  LET S == In(t, guest, category, at)
      Rank(b) == Cardinality({a \in S : Before(t, category, a, b)})
  IN  {b \in S : Rank(b) \div PageSize = page - 1}

-----------------------------------------------------------------------------
(* The page and its links.                                                 *)

More(v) == v.page * PageSize < v.counts[v.category]

(* A request of the page: signed out, the website asks to sign in and      *)
(* comes back to the same page.                                            *)
Request(category, page) ==
  IF session = "none"
  THEN /\ view' = [Blank EXCEPT !.kind = "sign-in", !.category = category, !.page = page]
       /\ UNCHANGED query
  ELSE /\ query' = [NoQuery EXCEPT !.pc = "asked", !.guest = session,
                                   !.category = category, !.page = page]
       /\ UNCHANGED view

(* Any tab, Return to the first page, or the address itself.               *)
OpenFirst ==
  \E category \in Categories :
    /\ query.pc = "none" /\ Request(category, 1)
    /\ walk' = NoWalk /\ UNCHANGED <<now, rows, session>>

Next_Page ==
  /\ query.pc = "none" /\ view.kind = "list" /\ More(view)
  /\ Request(view.category, view.page + 1)
  /\ UNCHANGED <<now, rows, session, walk>>

Previous ==
  /\ query.pc = "none" /\ view.kind = "list" /\ view.page > 1
  /\ Request(view.category, view.page - 1)
  /\ UNCHANGED <<now, rows, session, walk>>

(* BEGIN fixes the time, and the first query the snapshot.                 *)
Begin ==
  /\ query.pc = "asked"
  /\ query' = [query EXCEPT !.pc = "begun", !.at = now]
  /\ UNCHANGED <<now, rows, session, view, walk>>

Count ==
  /\ query.pc = "begun"
  /\ query' = [query EXCEPT !.pc = "counted", !.snapshot = rows,
                            !.counts = [c \in Categories |->
                              Cardinality(In(rows, query.guest, c, query.at))],
                            !.total = Cardinality(Owned(rows, query.guest))]
  /\ UNCHANGED <<now, rows, session, view, walk>>

(* A likely slip: the transaction reads what is committed by now.          *)
Snapshot_Committed == rows

Snapshot == query.snapshot

(* The website refuses an answer that does not add up.                     *)
Accepts(q, items) ==
  /\ Cardinality(items) <= PageSize
  /\ \A b \in items : Category(Snapshot[b], q.at) = q.category
  /\ q.total = q.counts["upcoming"] + q.counts["past"] + q.counts["cancelled"]

Answer ==
  LET items == Listed(Snapshot, query.guest, query.category, query.at, query.page)
      ok == Accepts(query, items)
  IN
  /\ query.pc = "counted"
  /\ view' = [kind |-> IF ok THEN "list" ELSE "unreadable", guest |-> query.guest,
              category |-> query.category, page |-> query.page,
              items |-> IF ok THEN items ELSE {},
              counts |-> query.counts, total |-> query.total]
  /\ walk' = IF query.page = 1
             THEN [quiet |-> rows = query.snapshot /\ now = query.at, seen |-> items]
             ELSE [walk EXCEPT !.seen = @ \cup items]
  /\ query' = NoQuery
  /\ UNCHANGED <<now, rows, session>>

(* An error, a time-out or a token that is no longer valid.                *)
Fail ==
  /\ query.pc # "none"
  /\ \/ view' = [Blank EXCEPT !.kind = "unavailable", !.category = query.category,
                              !.page = query.page]
     \/ view' = [Blank EXCEPT !.kind = "sign-in", !.category = query.category,
                              !.page = query.page]
  /\ query' = NoQuery
  /\ UNCHANGED <<now, rows, session, walk>>

Retry ==
  /\ query.pc = "none" /\ view.kind \in {"unavailable", "unreadable"}
  /\ Request(view.category, view.page)
  /\ UNCHANGED <<now, rows, session, walk>>

Found(b) == b \in Owned(rows, session)

(* View details of a card; what is not hers is not found.  A failure of    *)
(* this request shows nothing of a booking, and is left out.                *)
Detail ==
  /\ query.pc = "none" /\ view.kind = "list" /\ session # "none"
  /\ \E b \in view.items :
       view' = IF Found(b)
               THEN [Blank EXCEPT !.kind = "detail", !.guest = session, !.items = {b}]
               ELSE [Blank EXCEPT !.kind = "missing", !.guest = session, !.items = {b}]
  /\ walk' = NoWalk
  /\ UNCHANGED <<now, rows, session, query>>

-----------------------------------------------------------------------------
(* The browser's session, and the world.                                   *)

SignIn ==
  /\ query.pc = "none" /\ view.kind = "sign-in"
  /\ \E g \in Guests :
       /\ session' = g
       /\ query' = [NoQuery EXCEPT !.pc = "asked", !.guest = g,
                                   !.category = view.category, !.page = view.page]
  /\ walk' = NoWalk /\ UNCHANGED <<now, rows, view>>

Stir == walk' = [walk EXCEPT !.quiet = FALSE]

(* Another tab signs out, or in as somebody else.                          *)
OtherTab ==
  /\ session' \in (Guests \cup {"none"}) \ {session}
  /\ Stir /\ UNCHANGED <<now, rows, query, view>>

Book(b) ==
  /\ rows[b].status = "none"
  /\ \E d \in Days :
       /\ d >= now \div DayLength
       /\ rows' = [rows EXCEPT ![b] = [status |-> "PENDING", day |-> d,
                                       hold |-> now + HoldTime]]
  /\ Stir /\ UNCHANGED <<now, session, query, view>>

(* Paid, moved to another day, checked out or cancelled, here or at the    *)
(* desk.                                                                   *)
Turn(b) ==
  /\ \/ /\ rows[b].status = "PENDING" /\ rows[b].hold > now
        /\ rows' = [rows EXCEPT ![b].status = "CONFIRMED"]
     \/ /\ rows[b].status = "CONFIRMED"
        /\ \/ \E d \in Days : rows' = [rows EXCEPT ![b].day = d]
           \/ rows' = [rows EXCEPT ![b].status = "CHECKED_OUT"]
     \/ /\ rows[b].status \in {"PENDING", "CONFIRMED"}
        /\ rows' = [rows EXCEPT ![b].status = "CANCELLED"]
  /\ Stir /\ UNCHANGED <<now, session, query, view>>

Tick ==
  /\ now < MaxTime /\ now' = now + 1
  /\ Stir /\ UNCHANGED <<rows, session, query, view>>

Init ==
  /\ now = 0 /\ rows = [b \in Bookings |-> NoRow]
  /\ session \in Guests /\ query = NoQuery /\ view = Blank /\ walk = NoWalk

Next ==
  \/ OpenFirst \/ Next_Page \/ Previous \/ Retry \/ Detail
  \/ Begin \/ Count \/ Answer \/ Fail
  \/ SignIn \/ OtherTab \/ Tick
  \/ \E b \in Bookings : Book(b) \/ Turn(b)

Spec == Init /\ [][Next]_vars

-----------------------------------------------------------------------------
(* Properties.                                                             *)

(* The tables, the transaction and the page are of their kinds.            *)
TypeOK ==
  /\ now \in 0 .. MaxTime
  /\ rows \in [Bookings -> [status : Statuses, day : Days \cup {0},
                            hold : 0 .. MaxTime + HoldTime]]
  /\ session \in Guests \cup {"none"}
  /\ query.pc \in {"none", "asked", "begun", "counted"}
  /\ view.kind \in {"none", "list", "unreadable", "unavailable", "sign-in",
                    "detail", "missing"}
  /\ view.items \subseteq Bookings /\ view.page \in 1 .. Cardinality(Bookings) + 1

(* An answer that arrives is one the website can read: its counts add up   *)
(* and its cards are of the category, though time passes and bookings      *)
(* change between its two queries.                                         *)
AnswersReadable == view.kind # "unreadable"

(* The page holds as many cards as its own counts promise: never an empty  *)
(* first page under a tab that counts some, whatever is sold, cancelled or *)
(* lapses between the two queries.                                         *)
ShownIsCounted ==
  view.kind = "list" =>
    LET left == view.counts[view.category] - (view.page - 1) * PageSize IN
    Cardinality(view.items) =
      (IF left < 0 THEN 0 ELSE IF left < PageSize THEN left ELSE PageSize)

(* From the first page, following Next to the last shows every booking of  *)
(* the category, if nothing happened meanwhile.                            *)
NextReachesAll ==
  view.kind = "list" /\ walk.quiet /\ ~More(view) =>
    walk.seen = In(rows, view.guest, view.category, now)

(* Whoever signs in where somebody else was signed in: the cards and the   *)
(* details are those of the guest they were read for.                      *)
OwnOnly ==
  /\ view.kind \in {"list", "detail"} => \A b \in view.items : Owner[b] = view.guest
  /\ view.kind = "missing" => \A b \in view.items : Owner[b] # view.guest

(* A booking of the guest never vanishes from My Bookings: from one page   *)
(* she is shown to a later one, her total only grows.                      *)
NothingVanishes ==
  view.kind = "list" /\ view'.kind = "list" /\ view'.guest = view.guest =>
    view'.total >= view.total

=============================================================================
