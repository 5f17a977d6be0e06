------------------------------ MODULE Checkout ------------------------------
(***************************************************************************)
(* One guest's quotes and reservations of one room type: createQuote and   *)
(* createReservation, statement by statement.  A reservation is a          *)
(* transaction that takes three locks in order - the advisory lock of its  *)
(* Idempotency-Key, the advisory lock of its quote, the room_types row -   *)
(* and asks a question of the committed rows after each.  Requests are     *)
(* sent twice, overlap, fail anywhere, and their answers may be lost.      *)
(*                                                                         *)
(* Whether a room is free is decided in module Inventory; here it may or   *)
(* may not be.                                                             *)
(***************************************************************************)
EXTENDS Naturals

CONSTANTS
  Ids,          \* bookings that may be made
  Keys,         \* Idempotency-Keys the guest's browser uses
  Quotes,       \* quotes that may be signed
  Remarks,      \* special requests
  Requests,     \* requests being served
  Prices,       \* totals the catalogue may yield
  NoRequest, NoKey, NoAsk, NoGrant   \* the absence of each

ASSUME CheckoutAssumption ==
  /\ NoRequest \notin Requests /\ NoKey \notin Keys
  /\ NoAsk \notin [quote : Quotes, remark : Remarks]
  /\ NoGrant \notin [id : Ids, ask : [quote : Quotes, remark : Remarks], price : Prices]
  /\ Prices # {}

VARIABLES
  price,        \* what the type costs today
  quotes,       \* the signed quotes the guest holds
  bookings,     \* the committed rows
  keyLock, quoteLock, typeLock,
  request,      \* where each request is
  told          \* the reservations the guest has been told of

locks == <<keyLock, quoteLock, typeLock>>
vars == <<price, quotes, bookings, locks, request, told>>

(* What a checkout asks for; its hash is the checkout_request_hash.        *)
Asks == [quote : Quotes, remark : Remarks]

NoQuoteYet == [signed |-> FALSE, price |-> CHOOSE n \in Prices : TRUE,
               expired |-> FALSE]

Idle == [pc |-> "idle", key |-> NoKey, ask |-> NoAsk]

NoBooking == [status |-> "NONE", lapsed |-> FALSE, key |-> NoKey,
              ask |-> NoAsk, price |-> NoQuoteYet.price]

Init ==
  /\ price \in Prices
  /\ quotes = [u \in Quotes |-> NoQuoteYet]
  /\ bookings = [b \in Ids |-> NoBooking]
  /\ keyLock = [k \in Keys |-> NoRequest]
  /\ quoteLock = [u \in Quotes |-> NoRequest]
  /\ typeLock = NoRequest
  /\ request = [r \in Requests |-> Idle]
  /\ told = {}

-----------------------------------------------------------------------------
(* Quotes: priced at today's rate under the type's lock, then only a       *)
(* signed token in the guest's hands.                                      *)

Reprice ==
  /\ price' \in Prices /\ typeLock = NoRequest
  /\ UNCHANGED <<quotes, bookings, locks, request, told>>

CreateQuote ==
  /\ typeLock = NoRequest
  /\ \E u \in Quotes :
       /\ ~quotes[u].signed
       /\ quotes' = [quotes EXCEPT ![u].signed = TRUE, ![u].price = price]
  /\ UNCHANGED <<price, bookings, locks, request, told>>

QuoteExpires(u) ==
  /\ quotes[u].signed /\ ~quotes[u].expired
  /\ quotes' = [quotes EXCEPT ![u].expired = TRUE]
  /\ UNCHANGED <<price, bookings, locks, request, told>>

-----------------------------------------------------------------------------
(* createReservation.                                                      *)

At(r, pc) == request[r].pc = pc

Free(lock, r) == [x \in DOMAIN lock |-> IF lock[x] = r THEN NoRequest ELSE lock[x]]

(* COMMIT or ROLLBACK: every lock of the transaction goes.                 *)
End(r) ==
  /\ request' = [request EXCEPT ![r] = Idle]
  /\ keyLock' = Free(keyLock, r)
  /\ quoteLock' = Free(quoteLock, r)
  /\ typeLock' = IF typeLock = r THEN NoRequest ELSE typeLock

Tell(r, b) == told' = told \cup {[key |-> request[r].key, ask |-> request[r].ask, id |-> b]}

(* The token must be one the hotel signed; it may have expired since.      *)
Begin(r) ==
  /\ At(r, "idle")
  /\ \E k \in Keys, a \in Asks :
       /\ quotes[a.quote].signed
       /\ request' = [request EXCEPT ![r] = [pc |-> "attempt", key |-> k, ask |-> a]]
  /\ UNCHANGED <<price, quotes, bookings, locks, told>>

Existing(k) == {b \in Ids : bookings[b].status # "NONE" /\ bookings[b].key = k}

(* Likely slips: answering by the key alone; asking for the key's booking  *)
(* without holding the key.                                                *)
Replay_AnyAsk(r) ==
  /\ At(r, "attempt")
  /\ keyLock[request[r].key] = NoRequest
  /\ \E b \in Existing(request[r].key) :
       /\ bookings[b].status # "CANCELLED"
       /\ Tell(r, b)
  /\ End(r)
  /\ UNCHANGED <<price, quotes, bookings>>

LockAttempt_Unlocked(r) ==
  /\ At(r, "attempt")
  /\ Existing(request[r].key) = {}
  /\ request' = [request EXCEPT ![r].pc = "preview"]
  /\ UNCHANGED <<price, quotes, bookings, locks, told>>

LockAttempt(r) ==
  /\ At(r, "attempt")
  /\ keyLock[request[r].key] = NoRequest
  /\ Existing(request[r].key) = {}
  /\ keyLock' = [keyLock EXCEPT ![request[r].key] = r]
  /\ request' = [request EXCEPT ![r].pc = "preview"]
  /\ UNCHANGED <<price, quotes, bookings, quoteLock, typeLock, told>>

Alive(b) ==
  /\ bookings[b].status # "CANCELLED"
  /\ ~(bookings[b].status = "PENDING" /\ bookings[b].lapsed)

(* A key that already made a booking is answered with that booking.        *)
Replay(r) ==
  /\ At(r, "attempt")
  /\ keyLock[request[r].key] = NoRequest
  /\ \E b \in Existing(request[r].key) :
       bookings[b].ask = request[r].ask /\ Alive(b) /\ Tell(r, b)
  /\ End(r)
  /\ UNCHANGED <<price, quotes, bookings>>

(* A likely slip: a quote is free again once its booking is cancelled.     *)
UsedQuote_Active(u) ==
  \E b \in Ids : /\ bookings[b].status \notin {"NONE", "CANCELLED"}
                 /\ bookings[b].ask.quote = u

UsedQuote(u) == \E b \in Ids : bookings[b].status # "NONE" /\ bookings[b].ask.quote = u

LockPreview(r) ==
  /\ At(r, "preview")
  /\ quoteLock[request[r].ask.quote] = NoRequest
  /\ ~UsedQuote(request[r].ask.quote)
  /\ quoteLock' = [quoteLock EXCEPT ![request[r].ask.quote] = r]
  /\ request' = [request EXCEPT ![r].pc = "rate"]
  /\ UNCHANGED <<price, quotes, bookings, keyLock, typeLock, told>>

LockRate(r) ==
  /\ At(r, "rate")
  /\ typeLock = NoRequest
  /\ typeLock' = r
  /\ request' = [request EXCEPT ![r].pc = "insert"]
  /\ UNCHANGED <<price, quotes, bookings, keyLock, quoteLock, told>>

NewBooking(r) ==
  [status |-> "PENDING", lapsed |-> FALSE, key |-> request[r].key,
   ask |-> request[r].ask, price |-> quotes[request[r].ask.quote].price]

(* Sweep the lapsed holds, and insert the row at the price of the quote.   *)
Insert(r) ==
  /\ At(r, "insert")
  /\ ~quotes[request[r].ask.quote].expired
  /\ \E n \in Ids :
       /\ bookings[n].status = "NONE"
       /\ bookings' = [b \in Ids |->
            IF b = n THEN NewBooking(r)
            ELSE IF bookings[b].status = "PENDING" /\ bookings[b].lapsed
                 THEN [bookings[b] EXCEPT !.status = "CANCELLED"]
                 ELSE bookings[b]]
       /\ Tell(r, n)
  /\ End(r)
  /\ UNCHANGED <<price, quotes>>

(* Every refusal - a key used for something else, a dead or used quote, no *)
(* room - and every error, lost connection or crash.                       *)
Rollback(r) ==
  /\ ~At(r, "idle")
  /\ End(r)
  /\ UNCHANGED <<price, quotes, bookings, told>>

-----------------------------------------------------------------------------
(* What payments, cancellations and time do to a booking.                  *)

Lapse(b) ==
  /\ bookings[b].status = "PENDING" /\ ~bookings[b].lapsed
  /\ bookings' = [bookings EXCEPT ![b].lapsed = TRUE]
  /\ UNCHANGED <<price, quotes, locks, request, told>>

Pay(b) ==
  /\ bookings[b].status = "PENDING" /\ ~bookings[b].lapsed
  /\ bookings' = [bookings EXCEPT ![b].status = "CONFIRMED"]
  /\ UNCHANGED <<price, quotes, locks, request, told>>

Cancel(b) ==
  /\ bookings[b].status \in {"PENDING", "CONFIRMED"}
  /\ bookings' = [bookings EXCEPT ![b].status = "CANCELLED"]
  /\ UNCHANGED <<price, quotes, locks, request, told>>

Serve(r) ==
  \/ LockAttempt(r) \/ Replay(r) \/ LockPreview(r) \/ LockRate(r) \/ Insert(r)
  \/ Rollback(r)

Next ==
  \/ Reprice \/ CreateQuote \/ \E u \in Quotes : QuoteExpires(u)
  \/ \E r \in Requests : Begin(r) \/ Serve(r)
  \/ \E b \in Ids : Lapse(b) \/ Pay(b) \/ Cancel(b)

Spec == Init /\ [][Next]_vars

-----------------------------------------------------------------------------
(* Properties.                                                             *)

(* Rows, tokens, locks and requests hold what their types allow.           *)
TypeOK ==
  /\ price \in Prices
  /\ quotes \in [Quotes -> [signed : BOOLEAN, price : Prices, expired : BOOLEAN]]
  /\ bookings \in [Ids ->
       [status : {"NONE", "PENDING", "CONFIRMED", "CANCELLED"}, lapsed : BOOLEAN,
        key : Keys \cup {NoKey}, ask : Asks \cup {NoAsk}, price : Prices]]
  /\ keyLock \in [Keys -> Requests \cup {NoRequest}]
  /\ quoteLock \in [Quotes -> Requests \cup {NoRequest}]
  /\ typeLock \in Requests \cup {NoRequest}
  /\ request \in [Requests ->
       [pc : {"idle", "attempt", "preview", "rate", "insert"},
        key : Keys \cup {NoKey}, ask : Asks \cup {NoAsk}]]
  /\ told \subseteq [key : Keys, ask : Asks, id : Ids]

(* However often and however concurrently a checkout is sent, a key makes  *)
(* at most one booking and so does a quote, for ever.                      *)
OneBooking ==
  \A b, c \in Ids :
    b # c /\ bookings[b].status # "NONE" /\ bookings[c].status # "NONE" =>
      /\ bookings[b].key # bookings[c].key
      /\ bookings[b].ask.quote # bookings[c].ask.quote

(* The guest pays what was quoted, whatever the catalogue says by then.    *)
PriceOfQuote ==
  \A b \in Ids : bookings[b].status # "NONE" =>
    bookings[b].price = quotes[bookings[b].ask.quote].price

(* Requests wait only for requests that are further along, so they never   *)
(* wait for one another, and nobody waits for a request that is over.      *)
Rank(r) ==
  CASE At(r, "idle") -> 0 [] At(r, "attempt") -> 1 [] At(r, "preview") -> 2
    [] At(r, "rate") -> 3 [] At(r, "insert") -> 4

WaitsForLater ==
  \A r, s \in Requests :
    \/ At(r, "attempt") /\ keyLock[request[r].key] = s
    \/ At(r, "preview") /\ quoteLock[request[r].ask.quote] = s
    \/ At(r, "rate") /\ typeLock = s
    => Rank(r) < Rank(s)

(* A request that a lock has let past its question may rely on the answer: *)
(* nobody else books under its key, or its quote, until it ends.           *)
StillUnused ==
  \A r \in Requests :
    /\ At(r, "preview") \/ At(r, "rate") \/ At(r, "insert") =>
         Existing(request[r].key) = {}
    /\ At(r, "rate") \/ At(r, "insert") => ~UsedQuote(request[r].ask.quote)

(* The reservation API keeps the promise of its keys: the refinement maps  *)
(* a key to the row that was inserted under it.                            *)
Granted(k) ==
  IF Existing(k) = {} THEN NoGrant
  ELSE LET b == CHOOSE b \in Existing(k) : TRUE
       IN  [id |-> b, ask |-> bookings[b].ask, price |-> bookings[b].price]

AskQuote(a) == a.quote

Once == INSTANCE CheckoutOnce
          WITH QuoteOf <- AskQuote, granted <- [k \in Keys |-> Granted(k)]

(* However often and however concurrently a checkout is sent, its key and  *)
(* its quote make at most one booking, at the price that was quoted.       *)
BooksOnce == OneBooking /\ PriceOfQuote

(* The locks are taken in one order, and what a request asked under them   *)
(* stays true until it ends.                                               *)
LocksHold == TypeOK /\ WaitsForLater /\ StillUnused

(* The reservation interface implements the promise of its keys.           *)
KeysPromise == Once!Spec

=============================================================================
