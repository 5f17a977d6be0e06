--------------------------- MODULE CheckoutProofs ---------------------------
(***************************************************************************)
(* One booking per key and per quote, for every number of requests, keys,  *)
(* quotes and bookings.  The locks say who may book under a key and under  *)
(* a quote; what was asked under them stays so; and so the reservations    *)
(* implement the promise of their keys.  In the browser, one unpaid room   *)
(* at a time, which its recovery cookie finds again.                       *)
(***************************************************************************)
EXTENDS Checkout, BrowserCheckout, TLAPS

(* A request holds the lock of every question it has asked.                *)
HoldsKey(r) == At(r, "preview") \/ At(r, "rate") \/ At(r, "insert")
HoldsQuote(r) == At(r, "rate") \/ At(r, "insert")

LocksHeld(r) ==
  /\ ~At(r, "idle") => /\ request[r].key \in Keys /\ request[r].ask \in Asks
                       /\ quotes[request[r].ask.quote].signed
  /\ HoldsKey(r) => keyLock[request[r].key] = r
  /\ HoldsQuote(r) => quoteLock[request[r].ask.quote] = r
  /\ At(r, "insert") => typeLock = r

(* Nobody else does: a lock is held only by a request it was taken for.    *)
LocksOwned ==
  /\ \A k \in Keys : keyLock[k] # NoRequest =>
       HoldsKey(keyLock[k]) /\ request[keyLock[k]].key = k
  /\ \A u \in Quotes : quoteLock[u] # NoRequest =>
       HoldsQuote(quoteLock[u]) /\ request[quoteLock[u]].ask.quote = u
  /\ typeLock # NoRequest => At(typeLock, "insert")

Locked == LocksOwned /\ \A r \in Requests : LocksHeld(r)

(* A row was made by a request for a quote that was signed.                *)
RowMade(b) ==
  bookings[b].status # "NONE" =>
    /\ bookings[b].key \in Keys /\ bookings[b].ask \in Asks
    /\ quotes[bookings[b].ask.quote].signed

(* What a guest was told is in the tables.                                 *)
Told ==
  \A t \in told : /\ bookings[t.id].status # "NONE"
                  /\ bookings[t.id].key = t.key /\ bookings[t.id].ask = t.ask

CInv ==
  /\ TypeOK /\ Locked
  /\ (\A b \in Ids : RowMade(b)) /\ Told
  /\ OneBooking /\ PriceOfQuote /\ StillUnused

-----------------------------------------------------------------------------
(* Types.                                                                  *)

RowType == [status : {"NONE", "PENDING", "CONFIRMED", "CANCELLED"}, lapsed : BOOLEAN,
            key : Keys \cup {NoKey}, ask : Asks \cup {NoAsk}, price : Prices]
QuoteType == [signed : BOOLEAN, price : Prices, expired : BOOLEAN]
RequestType == [pc : {"idle", "attempt", "preview", "rate", "insert"},
                key : Keys \cup {NoKey}, ask : Asks \cup {NoAsk}]

LEMMA NoQuoteType == NoQuoteYet \in [signed : BOOLEAN, price : Prices, expired : BOOLEAN]
<1>1. (CHOOSE n \in Prices : TRUE) \in Prices
  BY CheckoutAssumption
<1> QED
  BY <1>1 DEF NoQuoteYet

LEMMA TypeInit == Init => TypeOK
<1>1. NoBooking \in RowType /\ Idle \in RequestType
  BY NoQuoteType DEF NoBooking, Idle, RowType, RequestType
<1> QED
  BY <1>1, NoQuoteType DEF Init, TypeOK, RowType, RequestType

(* What the end of a request leaves: its locks are free, others hold.      *)
LEMMA FreeLocks ==
  ASSUME NEW D, NEW lock \in [D -> Requests \cup {NoRequest}], NEW r \in Requests
  PROVE  /\ Free(lock, r) \in [D -> Requests \cup {NoRequest}]
         /\ \A x \in D : lock[x] # r => Free(lock, r)[x] = lock[x]
         /\ \A x \in D : Free(lock, r)[x] # NoRequest =>
              lock[x] # r /\ Free(lock, r)[x] = lock[x]
BY DEF Free

LEMMA EndType ==
  ASSUME TypeOK, NEW r \in Requests, End(r)
  PROVE  /\ keyLock' \in [Keys -> Requests \cup {NoRequest}]
         /\ quoteLock' \in [Quotes -> Requests \cup {NoRequest}]
         /\ typeLock' \in Requests \cup {NoRequest}
         /\ request' \in [Requests -> RequestType]
         /\ request'[r] = Idle
         /\ \A s \in Requests \ {r} : request'[s] = request[s]
         /\ typeLock # r => typeLock' = typeLock
         /\ typeLock' # NoRequest => typeLock # r /\ typeLock' = typeLock
<1>1. Idle \in RequestType
  BY DEF Idle, RequestType
<1> QED
  BY <1>1, FreeLocks, CheckoutAssumption DEF End, TypeOK, RequestType

(* A request that is not idle asks for something, under a key.             *)
LEMMA RequestAsks ==
  ASSUME TypeOK, NEW r \in Requests, LocksHeld(r), ~At(r, "idle")
  PROVE  /\ request[r].key \in Keys /\ request[r].ask \in Asks
         /\ request[r].ask.quote \in Quotes
BY DEF LocksHeld, Asks

(* A quote that is edited is still a quote, a request that goes on is      *)
(* still a request.                                                        *)
LEMMA QuoteEdits ==
  ASSUME TypeOK, NEW u \in Quotes,
         \/ quotes' = [quotes EXCEPT ![u].signed = TRUE, ![u].price = price]
         \/ quotes' = [quotes EXCEPT ![u].expired = TRUE]
  PROVE  quotes' \in [Quotes -> QuoteType]
<1>1. quotes \in [Quotes -> QuoteType] /\ price \in Prices
  BY DEF TypeOK, QuoteType
<1>2. quotes[u] \in QuoteType
  BY <1>1
<1>3. /\ [quotes[u] EXCEPT !.signed = TRUE, !.price = price] \in QuoteType
      /\ [quotes[u] EXCEPT !.expired = TRUE] \in QuoteType
  BY <1>1, <1>2 DEF QuoteType
<1>4. CASE quotes' = [quotes EXCEPT ![u].signed = TRUE, ![u].price = price]
  <2>1. /\ DOMAIN quotes' = Quotes /\ quotes' = [v \in Quotes |-> quotes'[v]]
        /\ quotes'[u] = [quotes[u] EXCEPT !.signed = TRUE, !.price = price]
        /\ \A v \in Quotes \ {u} : quotes'[v] = quotes[v]
    BY <1>1, <1>4
  <2> QED
    BY <1>1, <1>3, <2>1
<1>5. CASE quotes' = [quotes EXCEPT ![u].expired = TRUE]
  BY <1>1, <1>3, <1>5
<1> QED
  BY <1>4, <1>5

LEMMA RequestMoves ==
  ASSUME TypeOK, NEW r \in Requests, NEW pc \in {"preview", "rate", "insert"},
         request' = [request EXCEPT ![r].pc = pc]
  PROVE  request' \in [Requests -> RequestType]
<1>1. request \in [Requests -> RequestType]
  BY DEF TypeOK, RequestType
<1>2. [request[r] EXCEPT !.pc = pc] \in RequestType
  BY <1>1 DEF RequestType
<1>3. PICK x \in RequestType : request' = [request EXCEPT ![r] = x]
  BY <1>2
<1> QED
  BY <1>1, <1>3

LEMMA TypeNext ==
  TypeOK /\ (\A r \in Requests : LocksHeld(r)) /\ [Next]_vars => TypeOK'
<1> SUFFICES ASSUME TypeOK, \A r \in Requests : LocksHeld(r), [Next]_vars
             PROVE  TypeOK'
  OBVIOUS
<1> USE DEF TypeOK
<1>1. CASE UNCHANGED vars
  BY <1>1 DEF vars, locks
<1>2. CASE Reprice
  BY <1>2 DEF Reprice, locks
<1>3. CASE CreateQuote
  <2>1. PICK u \in Quotes :
          quotes' = [quotes EXCEPT ![u].signed = TRUE, ![u].price = price]
    BY <1>3, Zenon DEF CreateQuote
  <2>2. quotes' \in [Quotes -> QuoteType]
    BY <2>1, QuoteEdits
  <2>3. UNCHANGED <<price, bookings, keyLock, quoteLock, typeLock, request, told>>
    BY <1>3 DEF CreateQuote, locks
  <2> QED
    BY <2>2, <2>3 DEF QuoteType
<1>4. ASSUME NEW u \in Quotes, QuoteExpires(u) PROVE TypeOK'
  <2>1. quotes' \in [Quotes -> QuoteType]
    BY <1>4, QuoteEdits DEF QuoteExpires
  <2>2. UNCHANGED <<price, bookings, keyLock, quoteLock, typeLock, request, told>>
    BY <1>4 DEF QuoteExpires, locks
  <2> QED
    BY <2>1, <2>2 DEF QuoteType
<1>5. ASSUME NEW r \in Requests, Begin(r) PROVE TypeOK'
  <2>1. PICK k \in Keys, a \in Asks :
          request' = [request EXCEPT ![r] = [pc |-> "attempt", key |-> k, ask |-> a]]
    BY <1>5, Zenon DEF Begin
  <2>2. request' \in [Requests -> RequestType]
    BY <2>1 DEF RequestType
  <2>3. UNCHANGED <<price, quotes, bookings, keyLock, quoteLock, typeLock, told>>
    BY <1>5 DEF Begin, locks
  <2> QED
    BY <2>2, <2>3 DEF RequestType
<1>6. ASSUME NEW r \in Requests, LockAttempt(r) PROVE TypeOK'
  <2>1. request' \in [Requests -> RequestType]
    BY <1>6, RequestMoves DEF LockAttempt
  <2>2. keyLock' \in [Keys -> Requests \cup {NoRequest}]
    BY <1>6 DEF LockAttempt
  <2>3. UNCHANGED <<price, quotes, bookings, quoteLock, typeLock, told>>
    BY <1>6 DEF LockAttempt
  <2> QED
    BY <2>1, <2>2, <2>3 DEF RequestType
<1>7. ASSUME NEW r \in Requests, Replay(r) PROVE TypeOK'
  <2>1. ~At(r, "idle")
    BY <1>7 DEF Replay, At
  <2>2. told' \subseteq [key : Keys, ask : Asks, id : Ids]
    BY <1>7, <2>1, RequestAsks DEF Replay, Tell, Existing
  <2> QED
    BY <1>7, <2>2, EndType DEF Replay, RequestType
<1>8. ASSUME NEW r \in Requests, LockPreview(r) PROVE TypeOK'
  <2>1. request' \in [Requests -> RequestType]
    BY <1>8, RequestMoves DEF LockPreview
  <2>2. quoteLock' \in [Quotes -> Requests \cup {NoRequest}]
    BY <1>8 DEF LockPreview
  <2>3. UNCHANGED <<price, quotes, bookings, keyLock, typeLock, told>>
    BY <1>8 DEF LockPreview
  <2> QED
    BY <2>1, <2>2, <2>3 DEF RequestType
<1>9. ASSUME NEW r \in Requests, LockRate(r) PROVE TypeOK'
  <2>1. request' \in [Requests -> RequestType]
    BY <1>9, RequestMoves DEF LockRate
  <2>2. typeLock' \in Requests \cup {NoRequest}
    BY <1>9 DEF LockRate
  <2>3. UNCHANGED <<price, quotes, bookings, keyLock, quoteLock, told>>
    BY <1>9 DEF LockRate
  <2> QED
    BY <2>1, <2>2, <2>3 DEF RequestType
<1>10. ASSUME NEW r \in Requests, Insert(r) PROVE TypeOK'
  <2>1. ~At(r, "idle") /\ request[r].ask \in Asks
    BY <1>10, RequestAsks DEF Insert, At
  <2>2. NewBooking(r) \in RowType
    BY <2>1, RequestAsks DEF NewBooking, RowType
  <2>3. bookings' \in [Ids -> RowType]
    <3>1. PICK n \in Ids : bookings' = [b \in Ids |->
            IF b = n THEN NewBooking(r)
            ELSE IF bookings[b].status = "PENDING" /\ bookings[b].lapsed
                 THEN [bookings[b] EXCEPT !.status = "CANCELLED"]
                 ELSE bookings[b]]
      BY <1>10, Zenon DEF Insert
    <3>2. \A b \in Ids : bookings[b] \in RowType
      BY DEF RowType
    <3>3. \A b \in Ids : [bookings[b] EXCEPT !.status = "CANCELLED"] \in RowType
      BY <3>2 DEF RowType
    <3> QED
      BY <2>2, <3>1, <3>2, <3>3
  <2>4. told' \subseteq [key : Keys, ask : Asks, id : Ids]
    BY <1>10, <2>1, RequestAsks DEF Insert, Tell
  <2> QED
    BY <1>10, <2>3, <2>4, EndType DEF Insert, RequestType, RowType
<1>11. ASSUME NEW r \in Requests, Rollback(r) PROVE TypeOK'
  BY <1>11, EndType DEF Rollback, RequestType
<1>12. ASSUME NEW b \in Ids, Lapse(b) \/ Pay(b) \/ Cancel(b) PROVE TypeOK'
  <2>1. UNCHANGED <<price, quotes, locks, request, told>>
    BY <1>12 DEF Lapse, Pay, Cancel
  <2>2. \/ bookings' = [bookings EXCEPT ![b].lapsed = TRUE]
        \/ bookings' = [bookings EXCEPT ![b].status = "CONFIRMED"]
        \/ bookings' = [bookings EXCEPT ![b].status = "CANCELLED"]
    BY <1>12 DEF Lapse, Pay, Cancel
  <2>3. bookings \in [Ids -> RowType]
    BY DEF RowType
  <2>4. bookings' \in [Ids -> RowType]
    <3>1. PICK x \in RowType : bookings' = [bookings EXCEPT ![b] = x]
      <4>1. bookings[b] \in RowType
        BY <2>3
      <4>2. /\ [bookings[b] EXCEPT !.lapsed = TRUE] \in RowType
            /\ [bookings[b] EXCEPT !.status = "CONFIRMED"] \in RowType
            /\ [bookings[b] EXCEPT !.status = "CANCELLED"] \in RowType
        BY <4>1 DEF RowType
      <4> QED
        BY <2>2, <4>2
    <3> QED
      BY <2>3, <3>1
  <2> QED
    BY <2>1, <2>4 DEF locks, RowType
<1> QED
  BY <1>1, <1>2, <1>3, <1>4, <1>5, <1>6, <1>7, <1>8, <1>9, <1>10, <1>11, <1>12
  DEF Next, Serve

-----------------------------------------------------------------------------
(* The locks.                                                              *)

(* A signed quote stays as it was signed.                                  *)
QuotesKept ==
  \A u \in Quotes : quotes[u].signed =>
    quotes'[u].signed /\ quotes'[u].price = quotes[u].price

LEMMA QuotesStay == TypeOK /\ [Next]_vars => QuotesKept
<1> SUFFICES ASSUME TypeOK, [Next]_vars PROVE QuotesKept
  OBVIOUS
<1>1. CASE CreateQuote
  BY <1>1 DEF CreateQuote, QuotesKept, TypeOK
<1>2. ASSUME NEW u \in Quotes, QuoteExpires(u) PROVE QuotesKept
  BY <1>2 DEF QuoteExpires, QuotesKept, TypeOK
<1>3. CASE quotes' = quotes
  BY <1>3 DEF QuotesKept
<1> QED
  BY <1>1, <1>2, <1>3
  DEF Next, Serve, vars, Reprice, Begin, LockAttempt, Replay, LockPreview, LockRate,
      Insert, Rollback, Lapse, Pay, Cancel

(* A request that ends gives its locks back, and only those.               *)
LEMMA EndLocked ==
  ASSUME TypeOK, Locked, NEW r \in Requests, End(r), QuotesKept
  PROVE  Locked'
<1>0. /\ request'[r] = Idle
      /\ \A s \in Requests \ {r} : request'[s] = request[s]
      /\ typeLock # r => typeLock' = typeLock
      /\ typeLock' # NoRequest => typeLock # r /\ typeLock' = typeLock
  BY EndType
<1>1. /\ keyLock' = Free(keyLock, r) /\ quoteLock' = Free(quoteLock, r)
      /\ keyLock \in [Keys -> Requests \cup {NoRequest}]
      /\ quoteLock \in [Quotes -> Requests \cup {NoRequest}]
      /\ typeLock \in Requests \cup {NoRequest}
  BY DEF End, TypeOK
<1>6. \A k \in Keys :
        /\ keyLock[k] # r => keyLock'[k] = keyLock[k]
        /\ keyLock'[k] # NoRequest => keyLock[k] # r /\ keyLock'[k] = keyLock[k]
  BY <1>1, FreeLocks
<1>7. \A u \in Quotes :
        /\ quoteLock[u] # r => quoteLock'[u] = quoteLock[u]
        /\ quoteLock'[u] # NoRequest => quoteLock[u] # r /\ quoteLock'[u] = quoteLock[u]
  BY <1>1, FreeLocks
<1>2. ASSUME NEW s \in Requests PROVE LocksHeld(s)'
  <2>1. CASE s = r
    BY <1>0, <2>1 DEF LocksHeld, HoldsKey, HoldsQuote, At, Idle
  <2>2. CASE s # r /\ ~At(s, "idle")
    <3>1. request'[s] = request[s] /\ LocksHeld(s)
      BY <1>0, <2>2 DEF Locked
    <3>2. request[s].key \in Keys /\ request[s].ask.quote \in Quotes
      BY <2>2, <3>1, RequestAsks
    <3>3. keyLock[request[s].key] = s => keyLock'[request[s].key] = s
      BY <1>6, <2>2, <3>2
    <3>4. quoteLock[request[s].ask.quote] = s => quoteLock'[request[s].ask.quote] = s
      BY <1>7, <2>2, <3>2
    <3> QED
      BY <1>0, <2>2, <3>1, <3>2, <3>3, <3>4
      DEF LocksHeld, HoldsKey, HoldsQuote, At, QuotesKept, End
  <2>3. CASE s # r /\ At(s, "idle")
    BY <1>0, <2>3 DEF LocksHeld, HoldsKey, HoldsQuote, At
  <2> QED
    BY <2>1, <2>2, <2>3
<1>3. ASSUME NEW k \in Keys, keyLock'[k] # NoRequest
      PROVE  HoldsKey(keyLock[k])' /\ request'[keyLock'[k]].key = k
  <2>1. keyLock[k] # r /\ keyLock'[k] = keyLock[k] /\ keyLock[k] \in Requests
    BY <1>1, <1>3, <1>6
  <2> QED
    BY <1>0, <1>3, <2>1 DEF Locked, LocksOwned, HoldsKey, At
<1>4. ASSUME NEW u \in Quotes, quoteLock'[u] # NoRequest
      PROVE  HoldsQuote(quoteLock[u])' /\ request'[quoteLock'[u]].ask.quote = u
  <2>1. quoteLock[u] # r /\ quoteLock'[u] = quoteLock[u] /\ quoteLock[u] \in Requests
    BY <1>1, <1>4, <1>7
  <2> QED
    BY <1>0, <1>4, <2>1 DEF Locked, LocksOwned, HoldsQuote, At
<1>5. typeLock' # NoRequest => At(typeLock, "insert")'
  BY <1>0, <1>1 DEF Locked, LocksOwned, At
<1> QED
  BY <1>2, <1>3, <1>4, <1>5 DEF Locked, LocksOwned

LEMMA LockedNext == TypeOK /\ Locked /\ [Next]_vars => Locked'
<1> SUFFICES ASSUME TypeOK, Locked, [Next]_vars PROVE Locked'
  OBVIOUS
<1>0. QuotesKept
  BY QuotesStay
<1>1. CASE UNCHANGED <<request, locks>>
  <2>1. ASSUME NEW s \in Requests PROVE LocksHeld(s)'
    <3>1. LocksHeld(s)
      BY DEF Locked
    <3>2. CASE At(s, "idle")
      BY <1>1, <3>1, <3>2 DEF LocksHeld, HoldsKey, HoldsQuote, At, locks
    <3>3. CASE ~At(s, "idle")
      <4>1. request[s].ask.quote \in Quotes
        BY <3>1, <3>3, RequestAsks
      <4> QED
        BY <1>0, <1>1, <3>1, <4>1
        DEF LocksHeld, HoldsKey, HoldsQuote, At, locks, QuotesKept
    <3> QED
      BY <3>2, <3>3
  <2> QED
    BY <1>1, <2>1 DEF Locked, LocksOwned, HoldsKey, HoldsQuote, At, locks
<1>2. ASSUME NEW r \in Requests, Begin(r) PROVE Locked'
  <2>1. PICK k \in Keys, a \in Asks :
          /\ quotes[a.quote].signed
          /\ request' = [request EXCEPT ![r] = [pc |-> "attempt", key |-> k, ask |-> a]]
    BY <1>2 DEF Begin
  <2>2. /\ At(r, "idle") /\ UNCHANGED <<locks, quotes>>
        /\ request'[r] = [pc |-> "attempt", key |-> k, ask |-> a]
        /\ \A s \in Requests \ {r} : request'[s] = request[s]
    BY <1>2, <2>1 DEF Begin, TypeOK
  <2>3. ASSUME NEW s \in Requests PROVE LocksHeld(s)'
    BY <2>1, <2>2 DEF Locked, LocksHeld, HoldsKey, HoldsQuote, At, locks
  <2>4. ASSUME NEW k2 \in Keys, keyLock'[k2] # NoRequest
        PROVE  HoldsKey(keyLock[k2])' /\ request'[keyLock'[k2]].key = k2
    BY <2>2, <2>4 DEF Locked, LocksOwned, HoldsKey, At, TypeOK, locks
  <2>5. ASSUME NEW u \in Quotes, quoteLock'[u] # NoRequest
        PROVE  HoldsQuote(quoteLock[u])' /\ request'[quoteLock'[u]].ask.quote = u
    BY <2>2, <2>5 DEF Locked, LocksOwned, HoldsQuote, At, TypeOK, locks
  <2>6. typeLock' # NoRequest => At(typeLock, "insert")'
    BY <2>2 DEF Locked, LocksOwned, At, TypeOK, locks
  <2> QED
    BY <2>3, <2>4, <2>5, <2>6 DEF Locked, LocksOwned
<1>3. ASSUME NEW r \in Requests, LockAttempt(r) \/ LockPreview(r) \/ LockRate(r)
      PROVE  Locked'
  <2>0. /\ ~At(r, "idle") /\ LocksHeld(r)
        /\ quotes' = quotes
    BY <1>3 DEF LockAttempt, LockPreview, LockRate, At, Locked
  <2>1. /\ request[r].key \in Keys /\ request[r].ask \in Asks
        /\ request[r].ask.quote \in Quotes
    BY <2>0, RequestAsks
  <2>2. /\ \A s \in Requests \ {r} : request'[s] = request[s]
        /\ request'[r].key = request[r].key /\ request'[r].ask = request[r].ask
    BY <1>3 DEF LockAttempt, LockPreview, LockRate, TypeOK
  <2>4. CASE LockAttempt(r)
    <3>1. /\ At(r, "attempt") /\ request'[r].pc = "preview"
          /\ keyLock[request[r].key] = NoRequest /\ keyLock'[request[r].key] = r
          /\ \A k \in Keys \ {request[r].key} : keyLock'[k] = keyLock[k]
          /\ quoteLock' = quoteLock /\ typeLock' = typeLock
      BY <2>1, <2>4 DEF LockAttempt, TypeOK
    <3>2. ASSUME NEW s \in Requests PROVE LocksHeld(s)'
      BY <2>0, <2>1, <2>2, <3>1, CheckoutAssumption
      DEF Locked, LocksHeld, HoldsKey, HoldsQuote, At
    <3>3. ASSUME NEW k \in Keys, keyLock'[k] # NoRequest
          PROVE  HoldsKey(keyLock[k])' /\ request'[keyLock'[k]].key = k
      BY <2>2, <3>1, <3>3 DEF Locked, LocksOwned, HoldsKey, At, TypeOK
    <3>4. ASSUME NEW u \in Quotes, quoteLock'[u] # NoRequest
          PROVE  HoldsQuote(quoteLock[u])' /\ request'[quoteLock'[u]].ask.quote = u
      BY <2>2, <3>1, <3>4 DEF Locked, LocksOwned, HoldsQuote, At, TypeOK
    <3>5. typeLock' # NoRequest => At(typeLock, "insert")'
      BY <2>2, <3>1 DEF Locked, LocksOwned, At, TypeOK
    <3> QED
      BY <3>2, <3>3, <3>4, <3>5 DEF Locked, LocksOwned
  <2>5. CASE LockPreview(r)
    <3>1. /\ At(r, "preview") /\ request'[r].pc = "rate"
          /\ quoteLock[request[r].ask.quote] = NoRequest
          /\ quoteLock'[request[r].ask.quote] = r
          /\ \A u \in Quotes \ {request[r].ask.quote} : quoteLock'[u] = quoteLock[u]
          /\ keyLock' = keyLock /\ typeLock' = typeLock
      BY <2>1, <2>5 DEF LockPreview, TypeOK
    <3>2. ASSUME NEW s \in Requests PROVE LocksHeld(s)'
      BY <2>0, <2>1, <2>2, <3>1, CheckoutAssumption
      DEF Locked, LocksHeld, HoldsKey, HoldsQuote, At, Asks
    <3>3. ASSUME NEW k \in Keys, keyLock'[k] # NoRequest
          PROVE  HoldsKey(keyLock[k])' /\ request'[keyLock'[k]].key = k
      BY <2>2, <3>1, <3>3 DEF Locked, LocksOwned, HoldsKey, At, TypeOK
    <3>4. ASSUME NEW u \in Quotes, quoteLock'[u] # NoRequest
          PROVE  HoldsQuote(quoteLock[u])' /\ request'[quoteLock'[u]].ask.quote = u
      BY <2>2, <3>1, <3>4 DEF Locked, LocksOwned, HoldsQuote, At, TypeOK
    <3>5. typeLock' # NoRequest => At(typeLock, "insert")'
      BY <2>2, <3>1 DEF Locked, LocksOwned, At, TypeOK
    <3> QED
      BY <3>2, <3>3, <3>4, <3>5 DEF Locked, LocksOwned
  <2>6. CASE LockRate(r)
    <3>1. /\ At(r, "rate") /\ request'[r].pc = "insert"
          /\ typeLock = NoRequest /\ typeLock' = r
          /\ quoteLock' = quoteLock /\ keyLock' = keyLock
      BY <2>6 DEF LockRate, TypeOK
    <3>2. ASSUME NEW s \in Requests PROVE LocksHeld(s)'
      BY <2>0, <2>1, <2>2, <3>1, CheckoutAssumption
      DEF Locked, LocksHeld, HoldsKey, HoldsQuote, At
    <3>3. ASSUME NEW k \in Keys, keyLock'[k] # NoRequest
          PROVE  HoldsKey(keyLock[k])' /\ request'[keyLock'[k]].key = k
      BY <2>2, <3>1, <3>3 DEF Locked, LocksOwned, HoldsKey, At, TypeOK
    <3>4. ASSUME NEW u \in Quotes, quoteLock'[u] # NoRequest
          PROVE  HoldsQuote(quoteLock[u])' /\ request'[quoteLock'[u]].ask.quote = u
      BY <2>2, <3>1, <3>4 DEF Locked, LocksOwned, HoldsQuote, At, TypeOK
    <3>5. typeLock' # NoRequest => At(typeLock, "insert")'
      BY <3>1 DEF At
    <3> QED
      BY <3>2, <3>3, <3>4, <3>5 DEF Locked, LocksOwned
  <2> QED
    BY <1>3, <2>4, <2>5, <2>6
<1>4. ASSUME NEW r \in Requests, Replay(r) \/ Insert(r) \/ Rollback(r) PROVE Locked'
  BY <1>0, <1>4, EndLocked DEF Replay, Insert, Rollback
<1> QED
  BY <1>1, <1>2, <1>3, <1>4
  DEF Next, Serve, vars, Reprice, CreateQuote, QuoteExpires, Lapse, Pay, Cancel

-----------------------------------------------------------------------------
(* The rows.                                                               *)

(* Nothing about a row changes but its status and whether it lapsed.       *)
RowKept(b) ==
  /\ bookings'[b].status = "NONE" <=> bookings[b].status = "NONE"
  /\ bookings'[b].key = bookings[b].key
  /\ bookings'[b].ask = bookings[b].ask
  /\ bookings'[b].price = bookings[b].price

(* What was asked under a lock was asked by the one who has it.            *)
AskedBefore(s) ==
  /\ HoldsKey(s)' => /\ request'[s].key = request[s].key
                     /\ request'[s].ask = request[s].ask
                     /\ HoldsKey(s) \/ Existing(request[s].key) = {}
  /\ HoldsQuote(s)' => HoldsQuote(s) \/ ~UsedQuote(request[s].ask.quote)

LEMMA RowsStay ==
  ASSUME TypeOK, [Next]_vars, ~ \E r \in Requests : Insert(r)
  PROVE  \A b \in Ids : RowKept(b)
<1>1. CASE bookings' = bookings
  BY <1>1 DEF RowKept
<1>2. ASSUME NEW c \in Ids, Lapse(c) \/ Pay(c) \/ Cancel(c)
      PROVE  \A b \in Ids : RowKept(b)
  <2>1. \/ bookings' = [bookings EXCEPT ![c].lapsed = TRUE]
        \/ /\ bookings' = [bookings EXCEPT ![c].status = "CONFIRMED"]
           /\ bookings[c].status # "NONE"
        \/ /\ bookings' = [bookings EXCEPT ![c].status = "CANCELLED"]
           /\ bookings[c].status # "NONE"
    BY <1>2 DEF Lapse, Pay, Cancel
  <2>2. ASSUME NEW b \in Ids PROVE RowKept(b)
    <3>1. bookings \in [Ids -> RowType]
      BY DEF TypeOK, RowType
    <3>2. bookings[c] \in RowType /\ bookings[b] \in RowType
      BY <3>1
    <3>3. CASE b # c
      BY <2>1, <3>1, <3>3 DEF RowKept
    <3>4. CASE b = c
      BY <2>1, <3>1, <3>2, <3>4 DEF RowKept, RowType
    <3> QED
      BY <3>3, <3>4
  <2> QED
    BY <2>2
<1> QED
  BY <1>1, <1>2
  DEF Next, Serve, vars, Reprice, CreateQuote, QuoteExpires, Begin, LockAttempt, Replay,
      LockPreview, LockRate, Rollback

LEMMA InsertsRow ==
  ASSUME TypeOK, NEW r \in Requests, Insert(r)
  PROVE  \E n \in Ids :
           /\ bookings[n].status = "NONE" /\ bookings'[n] = NewBooking(r)
           /\ \A b \in Ids \ {n} : RowKept(b)
           /\ told' = told \cup {[key |-> request[r].key, ask |-> request[r].ask, id |-> n]}
<1>1. PICK n \in Ids :
        /\ bookings[n].status = "NONE"
        /\ bookings' = [b \in Ids |->
             IF b = n THEN NewBooking(r)
             ELSE IF bookings[b].status = "PENDING" /\ bookings[b].lapsed
                  THEN [bookings[b] EXCEPT !.status = "CANCELLED"]
                  ELSE bookings[b]]
        /\ Tell(r, n)
  BY DEF Insert
<1>2. \A b \in Ids \ {n} : RowKept(b)
  BY <1>1 DEF RowKept, TypeOK
<1> QED
  BY <1>1, <1>2 DEF Tell

LEMMA Asked ==
  ASSUME TypeOK, [Next]_vars, NEW s \in Requests
  PROVE  AskedBefore(s)
<1> USE DEF AskedBefore, HoldsKey, HoldsQuote, At
<1>1. CASE request'[s] = request[s]
  BY <1>1
<1>2. ASSUME NEW r \in Requests, Begin(r) PROVE AskedBefore(s)
  <2>1. r = s => request'[s].pc = "attempt"
    BY <1>2 DEF Begin, TypeOK
  <2>2. r # s => request'[s] = request[s]
    BY <1>2 DEF Begin, TypeOK
  <2> QED
    BY <1>1, <2>1, <2>2
<1>3. ASSUME NEW r \in Requests, LockAttempt(r) PROVE AskedBefore(s)
  BY <1>3 DEF LockAttempt, TypeOK
<1>4. ASSUME NEW r \in Requests, LockPreview(r) PROVE AskedBefore(s)
  BY <1>4 DEF LockPreview, TypeOK
<1>5. ASSUME NEW r \in Requests, LockRate(r) PROVE AskedBefore(s)
  BY <1>5 DEF LockRate, TypeOK
<1>6. ASSUME NEW r \in Requests, End(r) PROVE AskedBefore(s)
  <2>1. r = s => request'[s].pc = "idle"
    BY <1>6, EndType DEF Idle
  <2>2. r # s => request'[s] = request[s]
    BY <1>6, EndType
  <2> QED
    BY <1>1, <2>1, <2>2
<1> QED
  BY <1>1, <1>2, <1>3, <1>4, <1>5, <1>6
  DEF Next, Serve, vars, Reprice, CreateQuote, QuoteExpires, Lapse, Pay, Cancel, Replay,
      Insert, Rollback

(* What a request that inserts knows of its key and its quote.             *)
LEMMA InsertFacts ==
  ASSUME CInv, NEW r \in Requests, Insert(r)
  PROVE  /\ request[r].key \in Keys /\ request[r].ask \in Asks
         /\ request[r].ask.quote \in Quotes
         /\ quotes[request[r].ask.quote].signed
         /\ Existing(request[r].key) = {} /\ ~UsedQuote(request[r].ask.quote)
         /\ \A s \in Requests : HoldsKey(s)' =>
              s # r /\ request[s].key # request[r].key
         /\ \A s \in Requests : HoldsQuote(s)' =>
              s # r /\ request[s].ask.quote # request[r].ask.quote
         /\ quotes' = quotes
<1>1. At(r, "insert") /\ LocksHeld(r) /\ TypeOK
  BY DEF Insert, CInv, Locked
<1>2. /\ request[r].key \in Keys /\ request[r].ask \in Asks
      /\ request[r].ask.quote \in Quotes
      /\ quotes[request[r].ask.quote].signed
  BY <1>1, RequestAsks DEF LocksHeld, At
<1>3. Existing(request[r].key) = {} /\ ~UsedQuote(request[r].ask.quote)
  BY <1>1 DEF CInv, StillUnused
<1>4. /\ request'[r] = Idle
      /\ \A s \in Requests \ {r} : request'[s] = request[s]
  BY <1>1, EndType DEF Insert
<1>5. keyLock[request[r].key] = r /\ quoteLock[request[r].ask.quote] = r
  BY <1>1 DEF LocksHeld, HoldsKey, HoldsQuote
<1>6. ASSUME NEW s \in Requests, HoldsKey(s)'
      PROVE  s # r /\ request[s].key # request[r].key
  <2>1. s # r
    BY <1>4, <1>6 DEF HoldsKey, At, Idle
  <2>2. HoldsKey(s)
    BY <1>4, <1>6, <2>1 DEF HoldsKey, At
  <2>3. keyLock[request[s].key] = s
    BY <2>2 DEF CInv, Locked, LocksHeld
  <2> QED
    BY <1>5, <2>1, <2>3
<1>7. ASSUME NEW s \in Requests, HoldsQuote(s)'
      PROVE  s # r /\ request[s].ask.quote # request[r].ask.quote
  <2>1. s # r
    BY <1>4, <1>7 DEF HoldsQuote, At, Idle
  <2>2. HoldsQuote(s)
    BY <1>4, <1>7, <2>1 DEF HoldsQuote, At
  <2>3. quoteLock[request[s].ask.quote] = s
    BY <2>2 DEF CInv, Locked, LocksHeld
  <2> QED
    BY <1>5, <2>1, <2>3
<1> QED
  BY <1>2, <1>3, <1>6, <1>7 DEF Insert

LEMMA CInvInit == Init => CInv
<1> SUFFICES ASSUME Init PROVE CInv
  OBVIOUS
<1>1. TypeOK
  BY TypeInit
<1>2. Locked
  BY DEF Init, Locked, LocksOwned, LocksHeld, HoldsKey, HoldsQuote, At, Idle
<1> QED
  BY <1>1, <1>2
  DEF Init, CInv, RowMade, NoBooking, Told, OneBooking, PriceOfQuote, StillUnused, At, Idle

LEMMA CInvNext == CInv /\ [Next]_vars => CInv'
<1> SUFFICES ASSUME CInv, [Next]_vars PROVE CInv'
  OBVIOUS
<1>1. TypeOK /\ Locked /\ TypeOK' /\ Locked' /\ QuotesKept
  BY TypeNext, LockedNext, QuotesStay DEF CInv, Locked
<1>2. \A s \in Requests : AskedBefore(s)
  BY <1>1, Asked
<1>3. CASE ~ \E r \in Requests : Insert(r)
  <2>1. \A b \in Ids : RowKept(b)
    BY <1>1, <1>3, RowsStay
  <2>2. \A b \in Ids : RowMade(b)'
    BY <1>1, <2>1 DEF CInv, RowMade, RowKept, QuotesKept, Asks
  <2>3. OneBooking'
    BY <2>1 DEF CInv, OneBooking, RowKept
  <2>4. PriceOfQuote'
    BY <1>1, <2>1 DEF CInv, PriceOfQuote, RowMade, RowKept, QuotesKept, Asks
  <2>5. /\ \A k : Existing(k)' = Existing(k)
        /\ \A u : UsedQuote(u)' <=> UsedQuote(u)
    BY <2>1 DEF Existing, UsedQuote, RowKept
  <2>6. StillUnused'
    BY <1>2, <2>5 DEF CInv, StillUnused, AskedBefore, HoldsKey, HoldsQuote, At
  <2>7. Told'
    <3>1. CASE told' = told
      BY <1>1, <2>1, <3>1 DEF CInv, Told, RowKept, TypeOK
    <3>2. ASSUME NEW r \in Requests, Replay(r) PROVE Told'
      <4>1. PICK b \in Existing(request[r].key) :
              bookings[b].ask = request[r].ask /\ Tell(r, b)
        BY <3>2 DEF Replay
      <4> QED
        BY <1>1, <2>1, <4>1 DEF CInv, Told, RowKept, TypeOK, Tell, Existing
    <3> QED
      BY <1>3, <3>1, <3>2
      DEF Next, Serve, vars, Reprice, CreateQuote, QuoteExpires, Begin, LockAttempt,
          LockPreview, LockRate, Rollback, Lapse, Pay, Cancel
  <2> QED
    BY <1>1, <2>2, <2>3, <2>4, <2>6, <2>7 DEF CInv
<1>4. ASSUME NEW r \in Requests, Insert(r) PROVE CInv'
  <2>1. PICK n \in Ids :
          /\ bookings[n].status = "NONE" /\ bookings'[n] = NewBooking(r)
          /\ \A b \in Ids \ {n} : RowKept(b)
          /\ told' = told \cup {[key |-> request[r].key, ask |-> request[r].ask, id |-> n]}
    BY <1>1, <1>4, InsertsRow
  <2>2. /\ request[r].key \in Keys /\ request[r].ask \in Asks
        /\ request[r].ask.quote \in Quotes
        /\ quotes[request[r].ask.quote].signed
        /\ Existing(request[r].key) = {} /\ ~UsedQuote(request[r].ask.quote)
        /\ quotes' = quotes
    BY <1>4, InsertFacts
  <2>3. /\ bookings'[n].status = "PENDING" /\ bookings'[n].key = request[r].key
        /\ bookings'[n].ask = request[r].ask
        /\ bookings'[n].price = quotes[request[r].ask.quote].price
    BY <2>1 DEF NewBooking
  <2>4. \A b \in Ids : RowMade(b)'
    BY <2>1, <2>2, <2>3 DEF CInv, RowMade, RowKept
  <2>5. OneBooking'
    BY <2>1, <2>2, <2>3 DEF CInv, OneBooking, RowKept, Existing, UsedQuote
  <2>6. PriceOfQuote'
    BY <2>1, <2>2, <2>3 DEF CInv, PriceOfQuote, RowKept
  <2>7. StillUnused'
    <3>1. ASSUME NEW s \in Requests, HoldsKey(s)' PROVE Existing(request[s].key)' = {}
      <4>1. /\ request'[s].key = request[s].key /\ request[s].key # request[r].key
            /\ Existing(request[s].key) = {}
        BY <1>2, <1>4, <3>1, InsertFacts
        DEF AskedBefore, CInv, StillUnused, HoldsKey
      <4> QED
        BY <2>1, <2>3, <4>1 DEF Existing, RowKept
    <3>2. ASSUME NEW s \in Requests, HoldsQuote(s)' PROVE ~UsedQuote(request[s].ask.quote)'
      <4>1. /\ request'[s].ask = request[s].ask
            /\ request[s].ask.quote # request[r].ask.quote
            /\ ~UsedQuote(request[s].ask.quote)
        BY <1>2, <1>4, <3>2, InsertFacts
        DEF AskedBefore, CInv, StillUnused, HoldsKey, HoldsQuote
      <4> QED
        BY <2>1, <2>3, <4>1 DEF UsedQuote, RowKept
    <3> QED
      BY <3>1, <3>2 DEF StillUnused, HoldsKey, HoldsQuote
  <2>8. Told'
    BY <1>1, <2>1, <2>3 DEF CInv, Told, RowKept, TypeOK
  <2> QED
    BY <1>1, <2>4, <2>5, <2>6, <2>7, <2>8 DEF CInv
<1> QED
  BY <1>3, <1>4

LEMMA SpecCInv == Spec => []CInv
BY CInvInit, CInvNext, PTL DEF Spec

(* However many requests are sent and however they overlap and fail, each  *)
(* key and each quote has at most one booking, at the price quoted.        *)
THEOREM KeysBookOnce == Spec => []BooksOnce
<1>1. CInv => BooksOnce
  BY DEF CInv, BooksOnce
<1> QED
  BY <1>1, SpecCInv, PTL

(* Who has a lock is further along than who waits for it.                  *)
LEMMA OwnersAreLater == CInv => WaitsForLater
<1> SUFFICES ASSUME CInv, NEW r \in Requests, NEW s \in Requests,
               \/ At(r, "attempt") /\ keyLock[request[r].key] = s
               \/ At(r, "preview") /\ quoteLock[request[r].ask.quote] = s
               \/ At(r, "rate") /\ typeLock = s
             PROVE Rank(r) < Rank(s)
  BY DEF WaitsForLater
<1>1. /\ s # NoRequest
      /\ request[r].key \in Keys /\ request[r].ask.quote \in Quotes
  BY CheckoutAssumption, RequestAsks DEF CInv, Locked, At
<1>2. \/ At(r, "attempt") /\ HoldsKey(s)
      \/ At(r, "preview") /\ HoldsQuote(s)
      \/ At(r, "rate") /\ At(s, "insert")
  BY <1>1 DEF CInv, Locked, LocksOwned
<1> QED
  BY <1>2 DEF Rank, HoldsKey, HoldsQuote, At

(* Requests never wait for one another in a circle, nor for one that is    *)
(* over, and what they asked under a lock is still true when they use it.  *)
THEOREM LocksInOrder == Spec => []LocksHold
<1>1. CInv => LocksHold
  BY OwnersAreLater DEF CInv, LocksHold
<1> QED
  BY <1>1, SpecCInv, PTL

-----------------------------------------------------------------------------
(* The refinement of CheckoutOnce.                                         *)

(* The booking of a key is its only one.                                   *)
LEMMA GrantedRow ==
  ASSUME CInv, NEW k \in Keys, NEW b \in Ids, b \in Existing(k)
  PROVE  Granted(k) = [id |-> b, ask |-> bookings[b].ask, price |-> bookings[b].price]
<1>1. Existing(k) = {b}
  BY DEF Existing, CInv, OneBooking
<1> QED
  BY <1>1 DEF Granted

LEMMA NoneGranted ==
  ASSUME NEW k \in Keys, Existing(k) = {}
  PROVE  Granted(k) = NoGrant
BY DEF Granted

(* A key whose rows are kept keeps what it was granted.                    *)
LEMMA GrantKept ==
  ASSUME CInv, CInv', NEW k \in Keys,
         \A b \in Ids : RowKept(b) \/ (b \notin Existing(k) /\ b \notin Existing(k)')
  PROVE  Granted(k)' = Granted(k)
<1>1. Existing(k)' = Existing(k)
  BY DEF Existing, RowKept
<1>2. CASE Existing(k) = {}
  BY <1>1, <1>2 DEF Granted
<1>3. CASE Existing(k) # {}
  <2>1. PICK b \in Ids : b \in Existing(k)
    BY <1>3 DEF Existing
  <2>2. Granted(k) = [id |-> b, ask |-> bookings[b].ask, price |-> bookings[b].price]
    BY <2>1, GrantedRow
  <2>3. Existing(k)' = {b}
    BY <1>1, <2>1 DEF CInv, OneBooking, Existing
  <2>4. Granted(k)' = [id |-> b, ask |-> bookings'[b].ask, price |-> bookings'[b].price]
    BY <2>3 DEF Granted
  <2> QED
    BY <1>1, <2>1, <2>2, <2>4 DEF RowKept
<1> QED
  BY <1>2, <1>3

(* A row that is inserted grants its key what its request asked for.       *)
LEMMA InsertGrants ==
  ASSUME CInv, CInv', NEW r \in Requests, Insert(r),
         NEW k \in Keys, k = request[r].key
  PROVE  Once!Grant(k)
<1> DEFINE granted == [j \in Keys |-> Granted(j)]
<1>1. PICK n \in Ids :
        /\ bookings[n].status = "NONE" /\ bookings'[n] = NewBooking(r)
        /\ \A b \in Ids \ {n} : RowKept(b)
        /\ told' = told \cup {[key |-> k, ask |-> request[r].ask, id |-> n]}
  BY InsertsRow DEF CInv
<1>2. /\ k \in Keys /\ request[r].ask \in Asks
      /\ Existing(k) = {} /\ ~UsedQuote(request[r].ask.quote)
  BY InsertFacts
<1>3. /\ bookings'[n].status = "PENDING" /\ bookings'[n].key = k
      /\ bookings'[n].ask = request[r].ask
  BY <1>1 DEF NewBooking
<1> DEFINE g == [id |-> n, ask |-> bookings'[n].ask, price |-> bookings'[n].price]
<1>4. g \in Once!Grants
  BY <1>2, <1>3 DEF Once!Grants, CInv, TypeOK
<1>5. Granted(k)' = g
  <2>1. \A b \in Ids \ {n} : ~(bookings'[b].status # "NONE" /\ bookings'[b].key = k)
    BY <1>1, <1>2 DEF Existing, RowKept
  <2>2. Existing(k)' = {n}
    BY <1>3, <2>1 DEF Existing
  <2> QED
    BY <2>2 DEF Granted
<1>6. ASSUME NEW j \in Keys \ {k} PROVE Granted(j)' = Granted(j)
  <2>1. n \notin Existing(j) /\ n \notin Existing(j)'
    BY <1>1, <1>3 DEF Existing
  <2> QED
    BY <1>1, <2>1, GrantKept
<1>7. granted[k] = NoGrant
  BY <1>2, NoneGranted
<1>8. ASSUME NEW j \in Keys, granted[j] # NoGrant
      PROVE  granted[j].id # g.id /\ AskQuote(granted[j].ask) # AskQuote(g.ask)
  <2>1. PICK b \in Ids : b \in Existing(j)
    BY <1>8, NoneGranted DEF Existing
  <2>2. granted[j] = [id |-> b, ask |-> bookings[b].ask, price |-> bookings[b].price]
    BY <2>1, GrantedRow
  <2>3. bookings[b].status # "NONE" /\ b # n
    BY <1>1, <2>1 DEF Existing
  <2>4. bookings[b].ask.quote # request[r].ask.quote
    BY <1>2, <2>3 DEF UsedQuote
  <2> QED
    BY <1>3, <2>2, <2>3, <2>4 DEF AskQuote
<1>9. [j \in Keys |-> Granted(j)]' = [granted EXCEPT ![k] = g]
  <2> HIDE DEF g
  <2>1. [j \in Keys |-> Granted(j)'] = [granted EXCEPT ![k] = g]
    BY <1>5, <1>6
  <2> QED
    BY <2>1
<1>10. told' = told \cup {[key |-> k, ask |-> g.ask, id |-> g.id]}
  BY <1>1, <1>3
<1> QED
  BY <1>4, <1>7, <1>8, <1>9, <1>10 DEF Once!Grant

(* A replay repeats what its key was granted.                              *)
LEMMA ReplayRepeats ==
  ASSUME CInv, CInv', NEW r \in Requests, Replay(r),
         NEW k \in Keys, k = request[r].key
  PROVE  Once!Repeat(k)
<1> DEFINE granted == [j \in Keys |-> Granted(j)]
<1>1. PICK b \in Existing(k) : bookings[b].ask = request[r].ask /\ Tell(r, b)
  BY DEF Replay
<1>2. b \in Ids /\ k \in Keys /\ bookings[b].ask \in Asks
  BY <1>1 DEF Existing, CInv, RowMade
<1>3. Granted(k) = [id |-> b, ask |-> bookings[b].ask, price |-> bookings[b].price]
  BY <1>1, <1>2, GrantedRow
<1>4. granted[k] # NoGrant
  BY <1>2, <1>3, CheckoutAssumption DEF Asks, CInv, TypeOK
<1>5. told' = told \cup {[key |-> k, ask |-> granted[k].ask, id |-> granted[k].id]}
  BY <1>1, <1>2, <1>3 DEF Tell
<1>6. [j \in Keys |-> Granted(j)]' = granted
  BY GrantKept DEF Replay, RowKept
<1> QED
  BY <1>2, <1>4, <1>5, <1>6 DEF Once!Repeat

LEMMA OnceInit == Init => Once!Init
<1> SUFFICES ASSUME Init PROVE Once!Init
  OBVIOUS
<1>1. \A k : Existing(k) = {}
  BY DEF Init, Existing, NoBooking
<1>2. \A k \in Keys : Granted(k) = NoGrant
  BY <1>1, NoneGranted
<1>3. told = {}
  BY DEF Init
<1> QED
  BY <1>2, <1>3 DEF Once!Init

LEMMA OnceNext ==
  CInv /\ CInv' /\ [Next]_vars => [Once!Next]_(Once!vars)
<1> SUFFICES ASSUME CInv, CInv', [Next]_vars
             PROVE  [Once!Next]_(Once!vars)
  OBVIOUS
<1>1. ASSUME NEW r \in Requests, Insert(r) \/ Replay(r) PROVE Once!Next
  <2>1. PICK k \in Keys : k = request[r].key
    <3>1. ~At(r, "idle") /\ TypeOK /\ LocksHeld(r)
      BY <1>1 DEF Insert, Replay, At, CInv, Locked
    <3> QED
      BY <3>1, RequestAsks
  <2>2. CASE Insert(r)
    BY <2>1, <2>2, InsertGrants DEF Once!Next
  <2>3. CASE Replay(r)
    BY <2>1, <2>3, ReplayRepeats DEF Once!Next
  <2> QED
    BY <1>1, <2>2, <2>3
<1>2. CASE ~ \E r \in Requests : Insert(r) \/ Replay(r)
  <2>1. \A b \in Ids : RowKept(b)
    BY <1>2, RowsStay DEF CInv
  <2>2. [k \in Keys |-> Granted(k)]' = [k \in Keys |-> Granted(k)]
    BY <2>1, GrantKept
  <2>3. told' = told
    BY <1>2 DEF Next, Serve, vars, Reprice, CreateQuote, QuoteExpires, Begin, LockAttempt,
           LockPreview, LockRate, Rollback, Lapse, Pay, Cancel
  <2> QED
    BY <2>2, <2>3 DEF Once!vars
<1> QED
  BY <1>1, <1>2

(* The reservation interface implements what an Idempotency-Key promises,  *)
(* for every number of requests, keys, quotes and bookings.                *)
THEOREM ReservationsKeepPromise == Spec => KeysPromise
<1>1. CInv /\ [Next]_vars => [Once!Next]_(Once!vars)
  BY CInvNext, OnceNext
<1> QED
  BY <1>1, OnceInit, SpecCInv, PTL DEF Spec, KeysPromise, Once!Spec

-----------------------------------------------------------------------------
(* The checkout in the browser.                                            *)

(* A quote is held when its booking is live, or is still being made.       *)
Held(q) == Live(q) \/ (InHand(q) /\ bookingOf[q] = "none")

(* What leads back to a hold, when it is not the cookie.                   *)
Posting(t) == tab[t].pc = "wait" \/ (tab[t].pc = "answer" /\ tab[t].sets)
LeadsTo(t, q) == tab[t].id = q /\ (Posting(t) \/ tab[t].doubt)

PageFits(t) ==
  /\ UnderWay(t) \/ tab[t].doubt => tab[t].page = "flow" /\ tab[t].id # None
  /\ tab[t].page \in {"choice", "booking"} => tab[t].id # None
  /\ tab[t].pc \in {"cancel", "cancelled"} => tab[t].page \in {"choice", "booking"}
  /\ tab[t].pc = "answer" /\ ~tab[t].sets => tab[t].answer \in {"booking", "error"}
  /\ tab[t].pc = "cancelled" /\ tab[t].answer = "ok" => bookingOf[tab[t].id] = "cancelled"

(* What a checkout under way relies on while p is held: p is its own quote,*)
(* or the one the check will find; and the cookie it was called with names *)
(* its own quote only when the cookie still does.                          *)
Recalls(t, p) ==
  \/ tab[t].pc = "check" /\ tab[t].sent = p
  \/ tab[t].pc = "answer" /\ tab[t].answer = "booking"

HoldFits(t, p) ==
  /\ tab[t].pc = "check" => p = tab[t].id \/ (p = tab[t].sent /\ ~InHand(p))
  /\ Posting(t) => p = tab[t].id
  /\ Recalls(t, p) /\ tab[t].id = p => cookie = p

(* Of two checkouts under way at once, the guest left both.                *)
Apart == \A t, u \in Tabs : t # u /\ UnderWay(t) /\ UnderWay(u) => tab[t].id \in left

HoldKnown(p) == Found(p) /\ \A t \in Tabs : HoldFits(t, p)

HoldsApart ==
  /\ \A p, q \in Offers \ left : Held(p) /\ Held(q) => p = q
  /\ \A p \in Offers \ left : Held(p) => HoldKnown(p)

BInv == BrowserTypeOK /\ HoldsApart /\ Apart /\ \A t \in Tabs : PageFits(t)

Statuses == {"none", "reserved", "prepared", "lapsed", "paid", "cancelled"}

LEMMA FoundIs ==
  ASSUME NEW q PROVE Found(q) <=> cookie = q \/ \E t \in Tabs : LeadsTo(t, q)
BY DEF Found, LeadsTo, Posting

LEMMA InitBInv == BrowserInit => BInv
<1> SUFFICES ASSUME BrowserInit PROVE BInv
  OBVIOUS
<1>1. Blank \in Tab
  BY DEF Blank, Tab
<1>2. BrowserTypeOK
  BY <1>1, BrowserAssumption DEF BrowserInit, BrowserTypeOK
<1>3. \A t \in Tabs : tab[t].pc = "idle" /\ tab[t].page = "away" /\ ~tab[t].doubt
  BY DEF BrowserInit, Blank
<1>4. \A q \in Offers : ~Held(q)
  BY <1>3 DEF BrowserInit, Held, Live, InHand
<1> QED
  BY <1>2, <1>3, <1>4 DEF BInv, HoldsApart, Apart, UnderWay, PageFits

(* A step of one tab.                                                      *)
Only(t) == tab' \in [Tabs -> Tab] /\ \A u \in Tabs \ {t} : tab'[u] = tab[u]

LEMMA OnlyIs ==
  ASSUME BrowserTypeOK, NEW t \in Tabs, NEW s \in Tab, tab' = [tab EXCEPT ![t] = s]
  PROVE  Only(t) /\ tab'[t] = s
BY DEF BrowserTypeOK, Only

(* What such a step must keep: the types, what the tab itself relies on,   *)
(* and of the other tabs only what tells them of the holds.                *)
TabsType ==
  /\ bookingOf' \in [Offers -> Statuses]
  /\ cookie' \in Offers \cup {None} /\ quoted' \subseteq Offers
  /\ running' \subseteq Request /\ left \subseteq left' /\ left' \subseteq Offers
  /\ \A q \in Offers : bookingOf'[q] = bookingOf[q] \/ bookingOf'[q] = "cancelled"

LEMMA TabKeeps ==
  ASSUME BInv, NEW t \in Tabs, Only(t), TabsType, PageFits(t)', Apart',
         \A p, q \in Offers \ left' : Held(p)' /\ Held(q)' => p = q,
         \A p \in Offers \ left' : Held(p)' => Found(p)' /\ HoldFits(t, p)',
         \A p \in Offers \ left', u \in Tabs \ {t} : Held(p)' /\ UnderWay(u) =>
           /\ Held(p) /\ (InHand(p)' => InHand(p))
           /\ cookie = p /\ tab[u].id = p => cookie' = p
  PROVE  BInv'
<1>1. BrowserTypeOK'
  BY DEF Only, TabsType, BrowserTypeOK, Statuses
<1>2. ASSUME NEW u \in Tabs PROVE PageFits(u)'
  <2>1. CASE u = t
    BY <2>1
  <2>2. CASE u # t
    <3>1. tab'[u] = tab[u] /\ PageFits(u) /\ tab[u].id \in Offers \cup {None}
      BY <2>2 DEF Only, BInv, BrowserTypeOK, Tab
    <3>2. tab[u].pc = "cancelled" => tab[u].id \in Offers
      BY <3>1 DEF PageFits
    <3> QED
      BY <3>1, <3>2 DEF PageFits, UnderWay, TabsType
  <2> QED
    BY <2>1, <2>2
<1>3. ASSUME NEW p \in Offers \ left', Held(p)', NEW u \in Tabs PROVE HoldFits(u, p)'
  <2>1. CASE u = t
    BY <1>3, <2>1
  <2>2. CASE u # t /\ UnderWay(u)
    <3>1. tab'[u] = tab[u] /\ Held(p) /\ (InHand(p)' => InHand(p)) /\ p \in Offers \ left
      BY <1>3, <2>2 DEF Only, TabsType
    <3>2. HoldFits(u, p)
      BY <3>1 DEF BInv, HoldsApart, HoldKnown
    <3>3. cookie = p /\ tab[u].id = p => cookie' = p
      BY <1>3, <2>2
    <3> QED
      BY <3>1, <3>2, <3>3 DEF HoldFits, Posting, Recalls
  <2>3. CASE u # t /\ ~UnderWay(u)
    BY <2>3 DEF Only, HoldFits, Posting, Recalls, UnderWay
  <2> QED
    BY <2>1, <2>2, <2>3
<1>4. HoldsApart'
  BY <1>3 DEF HoldsApart, HoldKnown
<1> QED
  BY <1>1, <1>2, <1>4 DEF BInv

(* A tab that asks for nothing more has no more quotes in hand.            *)
LEMMA InHandLess ==
  ASSUME BInv, NEW t \in Tabs, Only(t), NEW q,
         <<"checkout", q>> \in running' =>
           <<"checkout", q>> \in running \/ (tab[t].pc = "wait" /\ tab[t].id = q),
         tab'[t].pc = "wait" => tab[t].pc = "wait" /\ tab'[t].id = tab[t].id
  PROVE  InHand(q)' => InHand(q)
BY DEF InHand, Only

LEMMA HeldLess ==
  ASSUME BInv, TabsType, NEW q \in Offers, InHand(q)' => InHand(q)
  PROVE  Held(q)' => Held(q)
BY DEF Held, Live, TabsType, Statuses

(* The steps that leave the tab idle.                                      *)
LEMMA IdleKeeps ==
  ASSUME BInv, NEW t \in Tabs, Only(t), TabsType, tab'[t].pc = "idle",
         tab'[t].doubt => tab'[t].page = "flow" /\ tab'[t].id # None,
         tab'[t].page \in {"choice", "booking"} => tab'[t].id # None,
         running' \subseteq running \cup
           {r \in Request : tab[t].pc = "wait" /\ r = <<"checkout", tab[t].id>>},
         \A p \in Offers \ left' : Held(p) /\ Held(p)' =>
           /\ Found(p)'
           /\ \A u \in Tabs \ {t} : UnderWay(u) /\ cookie = p /\ tab[u].id = p => cookie' = p
  PROVE  BInv'
<1>1. PageFits(t)'
  BY DEF PageFits, UnderWay
<1>2. Apart'
  BY DEF Apart, UnderWay, Only, BInv, TabsType
<1>3. ASSUME NEW q \in Offers PROVE (InHand(q)' => InHand(q)) /\ (Held(q)' => Held(q))
  BY InHandLess, HeldLess
<1>4. \A p, q \in Offers \ left' : Held(p)' /\ Held(q)' => p = q
  BY <1>3 DEF BInv, HoldsApart, TabsType
<1>5. \A p \in Offers \ left' : Held(p)' => Found(p)' /\ HoldFits(t, p)'
  BY <1>3 DEF HoldFits, Posting, Recalls
<1> QED
  BY <1>1, <1>2, <1>3, <1>4, <1>5, TabKeeps

(* The backend's own steps only take from what is held.                    *)
LEMMA BackendKeeps ==
  ASSUME BInv, NEW q \in Offers,
         Proceed(q) \/ HoldLapses(q) \/ GuestPays(q) \/ CancelLate(q)
           \/ \E r \in Request : Ends(r)
  PROVE  BInv'
<1>1. /\ UNCHANGED <<cookie, quoted, tab, left>>
      /\ running' \subseteq running
      /\ bookingOf' \in [Offers -> Statuses]
  BY DEF Proceed, HoldLapses, GuestPays, CancelLate, Ends, BInv, BrowserTypeOK, Statuses
<1>2. BrowserTypeOK'
  BY <1>1 DEF BInv, BrowserTypeOK, Statuses
<1>3. \A p \in Offers : InHand(p)' => InHand(p)
  BY <1>1 DEF InHand
<1>4. ASSUME NEW p \in Offers, Held(p)' PROVE Held(p)
  <2>1. bookingOf'[p] \in {"reserved", "prepared"} => Held(p)
    BY DEF Held, Live, Proceed, HoldLapses, GuestPays, CancelLate, Ends, BInv, BrowserTypeOK
  <2>2. bookingOf'[p] = "none" => bookingOf[p] = "none"
    BY DEF Proceed, HoldLapses, GuestPays, CancelLate, Ends, BInv, BrowserTypeOK
  <2> QED
    BY <1>3, <1>4, <2>1, <2>2 DEF Held, Live
<1>5. \A p \in Offers : bookingOf[p] = "cancelled" => bookingOf'[p] = "cancelled"
  BY DEF Proceed, HoldLapses, GuestPays, CancelLate, Cancellable, Live, Ends, BInv, BrowserTypeOK
<1>6. \A t \in Tabs : PageFits(t)'
  <2> SUFFICES ASSUME NEW t \in Tabs PROVE PageFits(t)'
    OBVIOUS
  <2>1. PageFits(t) /\ tab[t].id \in Offers \cup {None}
    BY DEF BInv, BrowserTypeOK, Tab
  <2> QED
    BY <1>1, <1>5, <2>1 DEF PageFits, UnderWay
<1>7. Apart'
  BY <1>1 DEF BInv, Apart, UnderWay
<1>8. ASSUME NEW p \in Offers \ left, Held(p) PROVE HoldKnown(p)'
  <2>1. HoldKnown(p)
    BY <1>8 DEF BInv, HoldsApart
  <2>2. Found(p)'
    BY <1>1, <2>1 DEF HoldKnown, Found
  <2>3. \A t \in Tabs : HoldFits(t, p)'
    BY <1>1, <1>3, <2>1 DEF HoldKnown, HoldFits, Posting, Recalls
  <2> QED
    BY <2>2, <2>3 DEF HoldKnown
<1>9. HoldsApart'
  BY <1>1, <1>4, <1>8 DEF BInv, HoldsApart
<1> QED
  BY <1>2, <1>6, <1>7, <1>9 DEF BInv

-----------------------------------------------------------------------------
(* Pages.                                                                  *)

LEMMA ShowIs ==
  ASSUME BrowserTypeOK, NEW t \in Tabs,
         NEW page \in {"flow", "choice", "unavailable", "booking"},
         NEW q \in Offers \cup {None}, Show(t, page, q)
  PROVE  /\ Only(t) /\ tab'[t].pc = "idle" /\ ~tab'[t].doubt
         /\ tab'[t].page = page /\ tab'[t].id = q
<1> DEFINE p == page = "booking" /\ Live(q)
           s1 == [Blank EXCEPT !.page = page]
           s2 == [s1 EXCEPT !.id = q]
           s == [s2 EXCEPT !.payable = p]
<1>1. p \in BOOLEAN /\ tab' = [tab EXCEPT ![t] = s]
  BY DEF Show, Live
<1> HIDE DEF p
<1>2. Blank \in Tab /\ Blank.pc = "idle" /\ ~Blank.doubt
  BY DEF Blank, Tab
<1>3. s1 \in Tab /\ s1.page = page /\ s1.pc = "idle" /\ ~s1.doubt
  BY <1>2 DEF Tab
<1> HIDE DEF s1
<1>4. s2 \in Tab /\ s2.page = page /\ s2.id = q /\ s2.pc = "idle" /\ ~s2.doubt
  BY <1>3 DEF Tab
<1> HIDE DEF s2
<1>5. s \in Tab /\ s.page = page /\ s.id = q /\ s.pc = "idle" /\ ~s.doubt
  BY <1>1, <1>4 DEF Tab
<1> HIDE DEF s
<1>6. Only(t) /\ tab'[t] = s
  BY <1>1, <1>5, OnlyIs
<1> QED
  BY <1>5, <1>6

(* A page that is shown instead of an idle one, or of one that waits, and  *)
(* that the hold which led there does not need.                            *)
LEMMA ShowKeeps ==
  ASSUME BInv, NEW t \in Tabs,
         NEW page \in {"flow", "choice", "unavailable", "booking"},
         NEW q \in Offers \cup {None}, Show(t, page, q),
         page \in {"choice", "booking"} => q # None,
         TabsType, running' = running,
         \A p \in Offers \ left' : Held(p) /\ Held(p)' =>
           /\ LeadsTo(t, p) => cookie' = p
           /\ cookie = p => cookie' = p
  PROVE  BInv'
<1>1. /\ Only(t) /\ tab'[t].pc = "idle" /\ ~tab'[t].doubt
      /\ tab'[t].page = page /\ tab'[t].id = q
  BY ShowIs DEF BInv
<1>2. ASSUME NEW p \in Offers \ left', Held(p), Held(p)' PROVE Found(p)'
  <2>1. Found(p) /\ p \in Offers \ left
    BY <1>2 DEF BInv, HoldsApart, HoldKnown, TabsType
  <2>2. CASE cookie = p \/ LeadsTo(t, p)
    BY <1>2, <2>2 DEF Found
  <2>3. ASSUME NEW u \in Tabs \ {t}, LeadsTo(u, p) PROVE Found(p)'
    BY <1>1, <2>3 DEF Only, LeadsTo, Posting, Found
  <2> QED
    BY <2>1, <2>2, <2>3, FoundIs
<1> QED
  BY <1>1, <1>2, IdleKeeps

(* Leaving a page in doubt is going on from its quote.                     *)
LEMMA LeaveIs ==
  ASSUME BInv, NEW t \in Tabs, tab[t].pc = "idle", Leave(t)
  PROVE  /\ left \subseteq left' /\ left' \subseteq Offers
         /\ \A p \in Offers \ left' : ~LeadsTo(t, p)
<1>1. PageFits(t) /\ tab[t].id \in Offers \cup {None} /\ left \subseteq Offers
  BY DEF BInv, BrowserTypeOK, Tab
<1> QED
  BY <1>1 DEF Leave, LeadsTo, Posting, PageFits

LEMMA PagesKeep ==
  ASSUME BInv, NEW t \in Tabs,
         Load(t) \/ NewQuote(t) \/ Resume(t) \/ \E q \in Offers : Open(t, q)
  PROVE  BInv'
<1>1. /\ tab[t] \in Tab /\ tab[t].pc = "idle" /\ UNCHANGED <<bookingOf, cookie, running>>
      /\ cookie \in Offers \cup {None} /\ PageFits(t)
  BY DEF Load, NewQuote, Resume, Open, OnPage, BInv, BrowserTypeOK
<1>2. CASE Leave(t) /\ quoted' \subseteq Offers
  <2>1. TabsType /\ \A p \in Offers \ left' : ~LeadsTo(t, p)
    BY <1>1, <1>2, LeaveIs DEF TabsType, BInv, BrowserTypeOK, Statuses
  <2>2. CASE Recovered(cookie) /\ Show(t, "choice", cookie)
    BY <1>1, <2>1, <2>2, ShowKeeps DEF Recovered
  <2>3. CASE Show(t, "flow", None)
    BY <1>1, <2>1, <2>3, ShowKeeps
  <2>4. CASE Show(t, "unavailable", None)
    BY <1>1, <2>1, <2>4, ShowKeeps
  <2>5. ASSUME NEW q \in Offers, Show(t, "flow", q) \/ Show(t, "booking", q) PROVE BInv'
    BY <1>1, <2>1, <2>5, BrowserAssumption, ShowKeeps
  <2>6. CASE Load(t)
    BY <2>2, <2>3, <2>4, <2>6 DEF Load, Loaded
  <2>7. CASE NewQuote(t)
    BY <2>5, <2>7 DEF NewQuote
  <2>8. ASSUME NEW q \in Offers, Open(t, q) PROVE BInv'
    BY <2>5, <2>8 DEF Open
  <2>9. CASE Resume(t)
    <3>1. tab[t].page = "booking" /\ tab[t].id \in Offers /\ Show(t, "booking", tab[t].id)
      BY <1>1, <2>9 DEF Resume, OnPage, PageFits, Tab
    <3> QED
      BY <2>5, <3>1
  <2> QED
    BY <2>6, <2>7, <2>8, <2>9
<1>3. CASE Resume(t)
  <2>1. tab[t].page = "booking" /\ UNCHANGED <<quoted, left>>
    BY <1>3 DEF Resume, OnPage
  <2>2. ~tab[t].doubt
    BY <1>1, <2>1 DEF PageFits
  <2>3. Leave(t) /\ quoted' \subseteq Offers
    BY <2>1, <2>2 DEF Leave, BInv, BrowserTypeOK
  <2> QED
    BY <1>2, <2>3
<1>4. CASE ~Resume(t)
  BY <1>2, <1>4 DEF Load, NewQuote, Open, BInv, BrowserTypeOK
<1> QED
  BY <1>3, <1>4

-----------------------------------------------------------------------------
(* startPayment.                                                           *)

(* A step within a checkout: of two under way both stay left.              *)
LEMMA ApartKeeps ==
  ASSUME BInv, NEW t \in Tabs, Only(t), left \subseteq left',
         UnderWay(t)' => UnderWay(t) /\ tab'[t].id = tab[t].id
  PROVE  Apart'
<1> SUFFICES ASSUME NEW u \in Tabs, NEW v \in Tabs, u # v, UnderWay(u)', UnderWay(v)'
             PROVE  tab'[u].id \in left'
  BY DEF Apart
<1>1. \A w \in Tabs : UnderWay(w)' => UnderWay(w) /\ tab'[w].id = tab[w].id
  BY DEF Only, UnderWay
<1> QED
  BY <1>1 DEF BInv, Apart

LEMMA StartKeeps ==
  ASSUME BInv, NEW t \in Tabs, Start(t)
  PROVE  BInv'
<1> DEFINE s1 == [tab[t] EXCEPT !.pc = "check"]
           s == [s1 EXCEPT !.sent = cookie]
<1>1. /\ tab[t] \in Tab /\ tab[t].page = "flow" /\ tab[t].pc = "idle" /\ tab[t].id \in Offers
      /\ cookie \in Offers \cup {None} /\ UNCHANGED <<bookingOf, cookie, quoted, running>>
  BY DEF Start, OnPage, BInv, BrowserTypeOK, Tab
<1>2. s1 \in Tab /\ s1.page = "flow" /\ s1.pc = "check" /\ s1.id = tab[t].id
  BY <1>1 DEF Tab
<1>3. tab' = [tab EXCEPT ![t] = s]
  BY DEF Start
<1> HIDE DEF s1
<1>4. s \in Tab /\ s.page = "flow" /\ s.pc = "check" /\ s.id = tab[t].id /\ s.sent = cookie
  BY <1>1, <1>2 DEF Tab
<1> HIDE DEF s
<1>5. Only(t) /\ tab'[t] = s
  BY <1>3, <1>4, OnlyIs DEF BInv
<1>6. Unsettled(t) \subseteq Offers
  <2>1. \A u \in Tabs : UnderWay(u) \/ tab[u].doubt => tab[u].id \in Offers
    BY DEF BInv, BrowserTypeOK, PageFits, Tab
  <2> QED
    BY <1>1, <2>1 DEF Unsettled
<1>7. TabsType
  BY <1>1, <1>6 DEF Start, TabsType, BInv, BrowserTypeOK, Statuses
<1>8. PageFits(t)'
  BY <1>1, <1>4, <1>5, BrowserAssumption DEF PageFits, UnderWay
<1>9. Apart'
  <2> SUFFICES ASSUME NEW u \in Tabs, NEW v \in Tabs, u # v, UnderWay(u)', UnderWay(v)'
               PROVE  tab'[u].id \in left'
    BY DEF Apart
  <2>1. CASE u = t
    BY <1>4, <1>5, <2>1 DEF Start, Unsettled, Busy, Only, UnderWay
  <2>2. CASE u # t
    BY <1>5, <2>2 DEF Start, Unsettled, Only, UnderWay
  <2> QED
    BY <2>1, <2>2
<1>10. ASSUME NEW p \in Offers PROVE (InHand(p)' => InHand(p)) /\ (Held(p)' => Held(p))
  BY <1>1, <1>4, <1>5, <1>7, InHandLess, HeldLess
<1>11. \A p, q \in Offers \ left' : Held(p)' /\ Held(q)' => p = q
  BY <1>7, <1>10 DEF BInv, HoldsApart, TabsType
<1>12. ASSUME NEW p \in Offers \ left', Held(p)' PROVE Found(p)' /\ HoldFits(t, p)'
  <2>1. Held(p) /\ p \in Offers \ left /\ p \notin Unsettled(t)
    BY <1>7, <1>10, <1>12 DEF TabsType, Start
  <2>2. Found(p)
    BY <2>1 DEF BInv, HoldsApart, HoldKnown
  <2>3. \A u \in Tabs \ {t} : tab[u].id = p => ~UnderWay(u) /\ ~tab[u].doubt
    BY <2>1 DEF Unsettled
  <2>4. p # tab[t].id => ~InHand(p)
    BY <1>1, <2>1, <2>3 DEF InHand, Unsettled, UnderWay
  <2>5. cookie = p \/ LeadsTo(t, p)
    BY <2>2, <2>3, FoundIs DEF LeadsTo, Posting, UnderWay
  <2>6. LeadsTo(t, p) => tab[t].id = p /\ tab[t].doubt
    BY <1>1 DEF LeadsTo, Posting
  <2>7. s.doubt = tab[t].doubt
    BY <1>1 DEF s, s1, Tab
  <2>8. Found(p)'
    BY <1>1, <1>4, <1>5, <2>5, <2>6, <2>7 DEF Found
  <2>9. HoldFits(t, p)'
    BY <1>1, <1>4, <1>5, <1>10, <2>4, <2>5, <2>6 DEF HoldFits, Posting, Recalls
  <2> QED
    BY <2>8, <2>9
<1> QED
  BY <1>1, <1>5, <1>7, <1>8, <1>9, <1>10, <1>11, <1>12, TabKeeps

(* What the answer of startPayment will be is settled; the page is as it   *)
(* was.                                                                    *)
LEMMA AnsweringIs ==
  ASSUME BrowserTypeOK, NEW t \in Tabs, NEW a \in {"form", "booking", "error"},
         NEW sets \in BOOLEAN, Answering(t, a, sets)
  PROVE  /\ Only(t) /\ tab'[t].pc = "answer" /\ tab'[t].answer = a /\ tab'[t].sets = sets
         /\ tab'[t].id = tab[t].id /\ tab'[t].page = tab[t].page
         /\ tab'[t].doubt = tab[t].doubt
<1> DEFINE s1 == [tab[t] EXCEPT !.pc = "answer"]
           s2 == [s1 EXCEPT !.sent = None]
           s3 == [s2 EXCEPT !.answer = a]
           s == [s3 EXCEPT !.sets = sets]
           Page(x) == x.id = tab[t].id /\ x.page = tab[t].page /\ x.doubt = tab[t].doubt
<1>1. tab[t] \in Tab /\ tab' = [tab EXCEPT ![t] = s]
  BY DEF BrowserTypeOK, Answering
<1>2. s1 \in Tab /\ s1.pc = "answer" /\ Page(s1)
  BY <1>1 DEF Tab
<1> HIDE DEF s1
<1>3. s2 \in Tab /\ s2.pc = "answer" /\ Page(s2)
  BY <1>2 DEF Tab
<1> HIDE DEF s2
<1>4. s3 \in Tab /\ s3.pc = "answer" /\ Page(s3) /\ s3.answer = a
  BY <1>3 DEF Tab
<1> HIDE DEF s3
<1>5. s \in Tab /\ s.pc = "answer" /\ Page(s) /\ s.answer = a /\ s.sets = sets
  BY <1>4 DEF Tab
<1> HIDE DEF s
<1> QED
  BY <1>1, <1>5, OnlyIs

(* A step of a checkout that is and stays under way, and starts nothing.   *)
LEMMA UnderWayKeeps ==
  ASSUME BInv, NEW t \in Tabs, Only(t), TabsType, UnderWay(t),
         UnderWay(t)', tab'[t].id = tab[t].id, tab'[t].page = tab[t].page,
         tab'[t].pc = "answer" /\ ~tab'[t].sets => tab'[t].answer \in {"booking", "error"},
         \A p \in Offers \ left' : InHand(p)' => InHand(p),
         \A p \in Offers \ left' : Held(p) /\ Held(p)' => Found(p)' /\ HoldFits(t, p)',
         cookie' = cookie
  PROVE  BInv'
<1>1. PageFits(t)'
  BY DEF BInv, PageFits, UnderWay
<1>2. Apart'
  BY ApartKeeps DEF TabsType
<1>3. \A q \in Offers \ left' : Held(q)' => Held(q)
  BY HeldLess
<1>4. \A p, q \in Offers \ left' : Held(p)' /\ Held(q)' => p = q
  BY <1>3 DEF BInv, HoldsApart, TabsType
<1> QED
  BY <1>1, <1>2, <1>3, <1>4, TabKeeps

(* An answer that is settled leaves what the backend has in hand.          *)
LEMMA AnsweringKeeps ==
  ASSUME BInv, NEW t \in Tabs, NEW a \in {"form", "booking", "error"},
         NEW sets \in BOOLEAN, Answering(t, a, sets),
         tab[t].pc \in {"check", "wait"}, UNCHANGED <<bookingOf, cookie, quoted, left>>,
         \/ running' = running
         \/ tab[t].pc = "wait" /\ running' = running \cup {<<"checkout", tab[t].id>>},
         tab[t].pc = "wait" <=> sets,
         ~sets => a \in {"booking", "error"},
         a = "booking" => tab[t].pc = "check" /\ tab[t].sent = tab[t].id
  PROVE  BInv'
<1>1. /\ Only(t) /\ tab'[t].pc = "answer" /\ tab'[t].answer = a /\ tab'[t].sets = sets
      /\ tab'[t].id = tab[t].id /\ tab'[t].page = tab[t].page
      /\ tab'[t].doubt = tab[t].doubt
  BY AnsweringIs DEF BInv
<1>2. tab[t].id \in Offers
  BY DEF BInv, BrowserTypeOK, Tab, PageFits, UnderWay
<1>3. TabsType
  BY <1>2 DEF TabsType, BInv, BrowserTypeOK, Statuses, Request
<1>4. \A p \in Offers : InHand(p)' => InHand(p)
  BY <1>1, InHandLess
<1>5. ASSUME NEW p \in Offers \ left', Held(p) PROVE Found(p)' /\ HoldFits(t, p)'
  <2>1. Found(p) /\ HoldFits(t, p)
    BY <1>5 DEF BInv, HoldsApart, HoldKnown
  <2>2. ASSUME NEW u \in Tabs, LeadsTo(u, p) PROVE LeadsTo(u, p)'
    <3>1. CASE u = t
      BY <1>1, <2>2, <3>1 DEF LeadsTo, Posting
    <3>2. CASE u # t
      BY <1>1, <2>2, <3>2 DEF Only, LeadsTo, Posting
    <3> QED
      BY <3>1, <3>2
  <2>3. Found(p)'
    BY <2>1, <2>2, FoundIs DEF Found, LeadsTo, Posting
  <2>4. HoldFits(t, p)'
    BY <1>1, <2>1 DEF HoldFits, Posting, Recalls, UnderWay
  <2> QED
    BY <2>3, <2>4
<1>6. UnderWay(t) /\ UnderWay(t)'
  BY <1>1 DEF UnderWay
<1> QED
  BY <1>1, <1>3, <1>4, <1>5, <1>6, UnderWayKeeps

LEMMA CheckKeeps ==
  ASSUME BInv, NEW t \in Tabs, Check(t)
  PROVE  BInv'
<1>1. /\ tab[t] \in Tab /\ tab[t].pc = "check" /\ tab[t].id \in Offers
      /\ UNCHANGED <<bookingOf, cookie, quoted, running, left>>
  BY DEF Check, BInv, BrowserTypeOK, PageFits, UnderWay, Tab
<1>2. ASSUME NEW a \in {"booking", "error"}, Answering(t, a, FALSE),
             a = "booking" => tab[t].sent = tab[t].id
      PROVE  BInv'
  BY <1>1, <1>2, AnsweringKeeps
<1>3. CASE ~Earlier(t) /\ tab' = [tab EXCEPT ![t].pc = "wait", ![t].sent = None]
  <2> DEFINE s1 == [tab[t] EXCEPT !.pc = "wait"]
             s == [s1 EXCEPT !.sent = None]
  <2>1. s1 \in Tab /\ s1.pc = "wait" /\ s1.id = tab[t].id /\ s1.page = tab[t].page
    BY <1>1 DEF Tab
  <2>2. tab' = [tab EXCEPT ![t] = s]
    BY <1>3
  <2> HIDE DEF s1
  <2>3. s \in Tab /\ s.pc = "wait" /\ s.id = tab[t].id /\ s.page = tab[t].page
    BY <2>1 DEF Tab
  <2> HIDE DEF s
  <2>4. Only(t) /\ tab'[t] = s
    BY <2>2, <2>3, OnlyIs DEF BInv
  <2>5. TabsType /\ PageFits(t)'
    BY <1>1, <2>3, <2>4 DEF TabsType, BInv, BrowserTypeOK, Statuses, PageFits, UnderWay
  <2>6. Apart'
    BY <1>1, <2>3, <2>4, ApartKeeps DEF UnderWay
  <2>7. ASSUME NEW p \in Offers, p # tab[t].id
        PROVE  (InHand(p)' => InHand(p)) /\ (Held(p)' => Held(p))
    BY <1>1, <2>3, <2>4, <2>7 DEF InHand, Only, Held, Live
  <2>8. ASSUME NEW p \in Offers \ left', Held(p)' PROVE p = tab[t].id
    <3> SUFFICES ASSUME p # tab[t].id PROVE FALSE
      OBVIOUS
    <3>1. Held(p) /\ p \in Offers \ left
      BY <1>1, <2>7, <2>8
    <3>2. p = tab[t].sent /\ ~InHand(p)
      BY <1>1, <3>1 DEF BInv, HoldsApart, HoldKnown, HoldFits
    <3> QED
      BY <1>3, <3>1, <3>2, BrowserAssumption DEF Held, Earlier, Recovered
  <2>9. \A p \in Offers \ left' : Held(p)' => Found(p)' /\ HoldFits(t, p)'
    BY <2>3, <2>4, <2>8 DEF Found, HoldFits, Posting, Recalls
  <2>10. ASSUME NEW p \in Offers \ left', NEW u \in Tabs \ {t}, UnderWay(u)
         PROVE  p # tab[t].id
    BY <1>1, <2>10 DEF BInv, Apart, UnderWay
  <2> QED
    BY <1>1, <2>4, <2>5, <2>6, <2>7, <2>8, <2>9, <2>10, TabKeeps
<1> QED
  BY <1>2, <1>3 DEF Check

LEMMA PostKeeps ==
  ASSUME BInv, NEW t \in Tabs, Post(t) \/ GiveUp(t)
  PROVE  BInv'
<1>1. tab[t].pc = "wait" /\ UNCHANGED <<bookingOf, cookie, quoted, left>>
  BY DEF Post, GiveUp
<1>2. \/ running' = running
      \/ running' = running \cup {<<"checkout", tab[t].id>>}
  BY DEF Post, GiveUp
<1>3. \E a \in {"form", "error"} : Answering(t, a, TRUE)
  BY DEF Post, GiveUp, SetsCookie
<1> QED
  BY <1>1, <1>2, <1>3, AnsweringKeeps

(* The page of a checkout whose answer came or was lost.                   *)
LEMMA OnFlowIs ==
  ASSUME BInv, NEW t \in Tabs, NEW doubt \in BOOLEAN, OnFlow(t, doubt)
  PROVE  /\ Only(t) /\ tab'[t].pc = "idle" /\ tab'[t].page = "flow"
         /\ tab'[t].id = tab[t].id /\ tab'[t].doubt = doubt
<1> DEFINE s1 == [Blank EXCEPT !.page = "flow"]
           s2 == [s1 EXCEPT !.id = tab[t].id]
           s == [s2 EXCEPT !.doubt = doubt]
<1>1. Blank \in Tab /\ Blank.pc = "idle" /\ tab[t].id \in Offers \cup {None}
  BY DEF Blank, Tab, BInv, BrowserTypeOK
<1>2. s1 \in Tab /\ s1.pc = "idle" /\ s1.page = "flow"
  BY <1>1 DEF Tab
<1>3. tab' = [tab EXCEPT ![t] = s]
  BY DEF OnFlow
<1> HIDE DEF s1
<1>4. s2 \in Tab /\ s2.pc = "idle" /\ s2.page = "flow" /\ s2.id = tab[t].id
  BY <1>1, <1>2 DEF Tab
<1> HIDE DEF s2
<1>5. s \in Tab /\ s.pc = "idle" /\ s.page = "flow" /\ s.id = tab[t].id /\ s.doubt = doubt
  BY <1>4 DEF Tab
<1> HIDE DEF s
<1> QED
  BY <1>3, <1>5, OnlyIs DEF BInv

(* Another checkout under way is about a quote the guest has left, as this *)
(* one is; so a hold she has not left is not about either.                 *)
LEMMA OtherUnderWay ==
  ASSUME BInv, NEW t \in Tabs, UnderWay(t), NEW u \in Tabs \ {t}, UnderWay(u),
         NEW p \in Offers \ left
  PROVE  tab[t].id # p /\ tab[u].id # p
BY DEF BInv, Apart

LEMMA AnswerKeeps ==
  ASSUME BInv, NEW t \in Tabs, Answer(t)
  PROVE  BInv'
<1>1. /\ tab[t] \in Tab /\ tab[t].pc = "answer" /\ UnderWay(t) /\ tab[t].id \in Offers
      /\ UNCHANGED <<bookingOf, quoted, running, left>>
      /\ cookie' = IF tab[t].sets THEN tab[t].id ELSE cookie
  BY DEF Answer, Names, BInv, BrowserTypeOK, PageFits, UnderWay, Tab
<1>2. TabsType
  BY <1>1 DEF TabsType, BInv, BrowserTypeOK, Statuses
<1>3. ASSUME NEW p \in Offers \ left, Held(p)
      PROVE  /\ Found(p)
             /\ tab[t].sets => p = tab[t].id /\ cookie' = p
             /\ tab[t].answer = "booking" /\ p = tab[t].id => cookie = p
             /\ cookie = p => cookie' = p
  <2>1. Found(p) /\ HoldFits(t, p)
    BY <1>3 DEF BInv, HoldsApart, HoldKnown
  <2> QED
    BY <1>1, <2>1 DEF HoldFits, Posting, Recalls
<1>4. CASE tab[t].answer # "error"
  <2>1. Show(t, "booking", tab[t].id)
    BY <1>4 DEF Answer
  <2>2. tab[t].sets \/ tab[t].answer = "booking"
    BY <1>1, <1>4 DEF BInv, PageFits
  <2>3. \A p \in Offers \ left' : Held(p) /\ LeadsTo(t, p) => cookie' = p
    BY <1>1, <1>3, <2>2 DEF LeadsTo
  <2>4. \A p \in Offers \ left' : Held(p) /\ cookie = p => cookie' = p
    BY <1>1, <1>3
  <2> QED
    BY <1>1, <1>2, <2>1, <2>3, <2>4, BrowserAssumption, ShowKeeps
<1>5. CASE tab[t].answer = "error"
  <2> DEFINE doubt == tab[t].doubt /\ ~tab[t].sets
  <2>1. OnFlow(t, doubt) /\ doubt \in BOOLEAN
    BY <1>1, <1>5 DEF Answer, Tab
  <2>2. /\ Only(t) /\ tab'[t].pc = "idle" /\ tab'[t].page = "flow"
        /\ tab'[t].id = tab[t].id /\ tab'[t].doubt = doubt
    BY <2>1, OnFlowIs
  <2>3. ASSUME NEW p \in Offers \ left', Held(p) PROVE Found(p)'
    <3>1. CASE cookie = p \/ tab[t].sets
      BY <1>1, <1>3, <2>3, <3>1 DEF Found
    <3>2. CASE LeadsTo(t, p) /\ ~tab[t].sets
      BY <1>1, <2>2, <3>2 DEF LeadsTo, Posting, Found
    <3>3. ASSUME NEW u \in Tabs \ {t}, LeadsTo(u, p) PROVE Found(p)'
      BY <2>2, <3>3 DEF Only, LeadsTo, Posting, Found
    <3> QED
      BY <1>1, <1>3, <2>3, <3>1, <3>2, <3>3, FoundIs
  <2> QED
    BY <1>1, <1>2, <1>3, <2>2, <2>3, BrowserAssumption, IdleKeeps
<1> QED
  BY <1>4, <1>5

(* What was sent goes on, and the page where the answer was lost leads back*)
(* to it.                                                                  *)
LEMMA LostKeeps ==
  ASSUME BInv, NEW t \in Tabs, Lost(t)
  PROVE  BInv'
<1>1. /\ tab[t].pc \in {"wait", "answer"} /\ tab[t].id \in Offers
      /\ UNCHANGED <<bookingOf, cookie, quoted, left>>
  BY DEF Lost, BInv, BrowserTypeOK, PageFits, UnderWay, Tab
<1>2. /\ Only(t) /\ tab'[t].pc = "idle" /\ tab'[t].page = "flow"
      /\ tab'[t].id = tab[t].id /\ tab'[t].doubt = TRUE
  BY OnFlowIs DEF Lost
<1>3. TabsType
  BY <1>1 DEF Lost, TabsType, BInv, BrowserTypeOK, Statuses, Request
<1>4. running' \subseteq running \cup
        {r \in Request : tab[t].pc = "wait" /\ r = <<"checkout", tab[t].id>>}
  BY <1>1 DEF Lost, Request
<1>5. ASSUME NEW p \in Offers \ left', Held(p) PROVE Found(p)'
  <2>1. cookie = p \/ \E u \in Tabs : LeadsTo(u, p)
    BY <1>1, <1>5, FoundIs DEF BInv, HoldsApart, HoldKnown
  <2>2. LeadsTo(t, p) => LeadsTo(t, p)'
    BY <1>2 DEF LeadsTo
  <2>3. \A u \in Tabs \ {t} : LeadsTo(u, p) => LeadsTo(u, p)'
    BY <1>2 DEF Only, LeadsTo, Posting
  <2> QED
    BY <1>1, <2>1, <2>2, <2>3 DEF Found, LeadsTo, Posting
<1> QED
  BY <1>1, <1>2, <1>3, <1>4, <1>5, BrowserAssumption, IdleKeeps

-----------------------------------------------------------------------------
(* cancelPayment.                                                          *)

(* A step of a tab whose page leads to nothing, and that cancels at most.  *)
LEMMA AsideKeeps ==
  ASSUME BInv, NEW t \in Tabs, Only(t), TabsType, PageFits(t)',
         ~UnderWay(t), ~UnderWay(t)', tab[t].page # "flow",
         UNCHANGED cookie,
         \A q \in Offers : <<"checkout", q>> \in running' => <<"checkout", q>> \in running
  PROVE  BInv'
<1>1. Apart'
  BY ApartKeeps DEF TabsType
<1>2. ASSUME NEW q \in Offers PROVE (InHand(q)' => InHand(q)) /\ (Held(q)' => Held(q))
  BY InHandLess, HeldLess DEF UnderWay
<1>3. \A p, q \in Offers \ left' : Held(p)' /\ Held(q)' => p = q
  BY <1>2 DEF BInv, HoldsApart, TabsType
<1>4. ASSUME NEW p \in Offers \ left', Held(p)' PROVE Found(p)'
  <2>1. Found(p)
    BY <1>2, <1>4 DEF BInv, HoldsApart, HoldKnown, TabsType
  <2>2. ~LeadsTo(t, p)
    BY DEF BInv, PageFits, LeadsTo, Posting, UnderWay
  <2>3. \A u \in Tabs \ {t} : LeadsTo(u, p) => LeadsTo(u, p)'
    BY DEF Only, LeadsTo, Posting
  <2> QED
    BY <2>1, <2>2, <2>3, FoundIs DEF Found, LeadsTo, Posting
<1>5. \A p : HoldFits(t, p)'
  BY DEF HoldFits, Posting, Recalls, UnderWay
<1> QED
  BY <1>1, <1>2, <1>3, <1>4, <1>5, TabKeeps

LEMMA CancelAsked ==
  ASSUME BInv, NEW t \in Tabs, AskCancel(t)
  PROVE  BInv'
<1> DEFINE s == [tab[t] EXCEPT !.pc = "cancel"]
<1>1. /\ tab[t] \in Tab /\ tab[t].pc = "idle" /\ tab[t].page \in {"choice", "booking"}
      /\ PageFits(t) /\ UNCHANGED <<bookingOf, cookie, quoted, running, left>>
  BY DEF AskCancel, CanCancel, OnPage, BInv, BrowserTypeOK
<1>2. /\ s \in Tab /\ s.pc = "cancel" /\ s.page = tab[t].page /\ s.id = tab[t].id
      /\ s.doubt = tab[t].doubt
  BY <1>1 DEF Tab
<1>3. tab' = [tab EXCEPT ![t] = s]
  BY DEF AskCancel
<1> HIDE DEF s
<1>4. Only(t) /\ tab'[t] = s
  BY <1>2, <1>3, OnlyIs DEF BInv
<1>5. TabsType
  BY <1>1 DEF TabsType, BInv, BrowserTypeOK, Statuses
<1>6. PageFits(t)' /\ ~UnderWay(t) /\ ~UnderWay(t)'
  BY <1>1, <1>2, <1>4 DEF PageFits, UnderWay
<1> QED
  BY <1>1, <1>4, <1>5, <1>6, AsideKeeps

LEMMA CancelBackendKeeps ==
  ASSUME BInv, NEW t \in Tabs, CancelBackend(t)
  PROVE  BInv'
<1> USE DEF Request
<1>1. /\ tab[t] \in Tab /\ tab[t].pc = "cancel" /\ tab[t].page \in {"choice", "booking"}
      /\ PageFits(t) /\ tab[t].id \in Offers
      /\ UNCHANGED <<cookie, quoted, left>>
  BY DEF CancelBackend, BInv, BrowserTypeOK, PageFits, Tab
<1>2. PICK done \in {Cancellable(tab[t].id), FALSE}, a \in {"ok", "error"}, late \in BOOLEAN :
        /\ a = "ok" => done
        /\ bookingOf' = IF done THEN [bookingOf EXCEPT ![tab[t].id] = "cancelled"]
                        ELSE bookingOf
        /\ running' = IF late THEN running \cup {<<"cancel", tab[t].id>>} ELSE running
        /\ tab' = [tab EXCEPT ![t].pc = "cancelled", ![t].answer = a]
  BY DEF CancelBackend, Verified
<1> DEFINE s1 == [tab[t] EXCEPT !.pc = "cancelled"]
           s == [s1 EXCEPT !.answer = a]
<1>3. /\ s1 \in Tab /\ s1.pc = "cancelled" /\ s1.page = tab[t].page /\ s1.id = tab[t].id
      /\ s1.doubt = tab[t].doubt
  BY <1>1 DEF Tab
<1>4. tab' = [tab EXCEPT ![t] = s]
  BY <1>2
<1> HIDE DEF s1
<1>5. /\ s \in Tab /\ s.pc = "cancelled" /\ s.page = tab[t].page /\ s.id = tab[t].id
      /\ s.doubt = tab[t].doubt /\ s.answer = a
  BY <1>3 DEF Tab
<1> HIDE DEF s
<1>6. Only(t) /\ tab'[t] = s
  BY <1>4, <1>5, OnlyIs DEF BInv
<1>7. /\ bookingOf' \in [Offers -> Statuses]
      /\ \A q \in Offers : bookingOf'[q] = bookingOf[q] \/ bookingOf'[q] = "cancelled"
      /\ a = "ok" => bookingOf'[tab[t].id] = "cancelled"
  BY <1>1, <1>2 DEF BInv, BrowserTypeOK, Statuses
<1>8. /\ running' \subseteq Request
      /\ \A q \in Offers : <<"checkout", q>> \in running' => <<"checkout", q>> \in running
  BY <1>1, <1>2 DEF BInv, BrowserTypeOK
<1>9. TabsType
  BY <1>1, <1>7, <1>8 DEF TabsType, BInv, BrowserTypeOK
<1>10. PageFits(t)' /\ ~UnderWay(t) /\ ~UnderWay(t)'
  BY <1>1, <1>5, <1>6, <1>7 DEF PageFits, UnderWay
<1> QED
  BY <1>1, <1>6, <1>8, <1>9, <1>10, AsideKeeps

(* The cookie goes only for a booking that is cancelled, or that the guest *)
(* has left with it.                                                       *)
LEMMA CancelAnswerKeeps ==
  ASSUME BInv, NEW t \in Tabs, CancelAnswer(t)
  PROVE  BInv'
<1>1. /\ tab[t] \in Tab /\ tab[t].pc = "cancelled" /\ tab[t].page \in {"choice", "booking"}
      /\ PageFits(t) /\ tab[t].id \in Offers /\ cookie \in Offers \cup {None}
      /\ UNCHANGED <<bookingOf, quoted, running>>
  BY DEF CancelAnswer, BInv, BrowserTypeOK, PageFits, Tab
<1>2. CASE /\ tab[t].answer = "ok" /\ cookie' = None
           /\ left' = left \cup ({cookie} \ {tab[t].id, None})
           /\ IF tab[t].page = "choice" THEN Show(t, "flow", None)
              ELSE Show(t, "booking", tab[t].id)
  <2>1. TabsType
    BY <1>1, <1>2 DEF TabsType, BInv, BrowserTypeOK, Statuses
  <2>2. \A p \in Offers \ left' : Held(p) => cookie # p /\ ~LeadsTo(t, p)
    <3>1. bookingOf[tab[t].id] = "cancelled"
      BY <1>1, <1>2 DEF PageFits
    <3> QED
      BY <1>1, <1>2, <3>1, BrowserAssumption DEF Held, Live, LeadsTo, Posting, PageFits
  <2>3. CASE Show(t, "flow", None)
    BY <1>1, <2>1, <2>2, <2>3, ShowKeeps
  <2>4. CASE Show(t, "booking", tab[t].id)
    BY <1>1, <2>1, <2>2, <2>4, BrowserAssumption, ShowKeeps
  <2> QED
    BY <1>2, <2>3, <2>4
<1>3. CASE /\ tab' = [tab EXCEPT ![t].pc = "idle", ![t].answer = "none"]
           /\ UNCHANGED <<cookie, left>>
  <2> DEFINE s1 == [tab[t] EXCEPT !.pc = "idle"]
             s == [s1 EXCEPT !.answer = "none"]
  <2>1. /\ s1 \in Tab /\ s1.pc = "idle" /\ s1.page = tab[t].page /\ s1.id = tab[t].id
        /\ s1.doubt = tab[t].doubt
    BY <1>1 DEF Tab
  <2>2. tab' = [tab EXCEPT ![t] = s]
    BY <1>3
  <2> HIDE DEF s1
  <2>3. /\ s \in Tab /\ s.pc = "idle" /\ s.page = tab[t].page /\ s.id = tab[t].id
        /\ s.doubt = tab[t].doubt
    BY <2>1 DEF Tab
  <2> HIDE DEF s
  <2>4. Only(t) /\ tab'[t] = s
    BY <2>2, <2>3, OnlyIs DEF BInv
  <2>5. TabsType
    BY <1>1, <1>3 DEF TabsType, BInv, BrowserTypeOK, Statuses
  <2>6. PageFits(t)' /\ ~UnderWay(t) /\ ~UnderWay(t)'
    BY <1>1, <2>3, <2>4 DEF PageFits, UnderWay
  <2> QED
    BY <1>1, <1>3, <2>4, <2>5, <2>6, AsideKeeps
<1> QED
  BY <1>2, <1>3 DEF CancelAnswer

LEMMA BInvNext ==
  ASSUME BInv, [BrowserNext]_browserVars PROVE BInv'
<1>1. CASE UNCHANGED browserVars
  <2>1. \A q : (InHand(q)' <=> InHand(q)) /\ (Held(q)' <=> Held(q)) /\ (Found(q)' <=> Found(q))
    BY <1>1 DEF browserVars, InHand, Held, Live, Found
  <2>2. \A t \in Tabs, q \in Offers : HoldFits(t, q)' <=> HoldFits(t, q)
    BY <1>1, <2>1 DEF browserVars, HoldFits, Posting, Recalls
  <2>3. HoldsApart'
    BY <1>1, <2>1, <2>2 DEF browserVars, BInv, HoldsApart, HoldKnown
  <2> QED
    BY <1>1, <2>3 DEF browserVars, BInv, BrowserTypeOK, Apart, PageFits, UnderWay
<1>2. ASSUME NEW q \in Offers,
             Proceed(q) \/ HoldLapses(q) \/ GuestPays(q) \/ CancelLate(q)
      PROVE  BInv'
  BY <1>2, BackendKeeps
<1>3. CASE \E r \in Request : Ends(r)
  <2>1. PICK r \in Request : Ends(r)
    BY <1>3
  <2> QED
    BY <2>1, BackendKeeps DEF Request
<1>4. ASSUME NEW t \in Tabs,
             Load(t) \/ NewQuote(t) \/ Resume(t) \/ \E q \in Offers : Open(t, q)
      PROVE  BInv'
  BY <1>4, PagesKeep
<1>5. ASSUME NEW t \in Tabs, Start(t) PROVE BInv'
  BY <1>5, StartKeeps
<1>6. ASSUME NEW t \in Tabs, Check(t) PROVE BInv'
  BY <1>6, CheckKeeps
<1>7. ASSUME NEW t \in Tabs, Post(t) \/ GiveUp(t) PROVE BInv'
  BY <1>7, PostKeeps
<1>8. ASSUME NEW t \in Tabs, Answer(t) PROVE BInv'
  BY <1>8, AnswerKeeps
<1>9. ASSUME NEW t \in Tabs, Lost(t) PROVE BInv'
  BY <1>9, LostKeeps
<1>10. ASSUME NEW t \in Tabs, AskCancel(t) PROVE BInv'
  BY <1>10, CancelAsked
<1>11. ASSUME NEW t \in Tabs, CancelBackend(t) PROVE BInv'
  BY <1>11, CancelBackendKeeps
<1>12. ASSUME NEW t \in Tabs, CancelAnswer(t) PROVE BInv'
  BY <1>12, CancelAnswerKeeps
<1> QED
  BY <1>1, <1>2, <1>3, <1>4, <1>5, <1>6, <1>7, <1>8, <1>9, <1>10, <1>11, <1>12
     DEF BrowserNext

(* A guest who sees each checkout through holds one unpaid room at a time  *)
(* and finds it again, for any number of tabs and quotes, whatever answers *)
(* are lost, however answers overtake each other, and although the backend *)
(* may reserve long after the action has given up (payment-actions.ts).    *)
THEOREM HoldsAreFound == BrowserSpec => []CheckoutRecovers
<1>1. BInv => CheckoutRecovers
  BY DEF BInv, HoldsApart, HoldKnown, Held, OneHold, HoldFound, CheckoutRecovers
<1> QED
  BY <1>1, InitBInv, BInvNext, PTL DEF BrowserSpec

=============================================================================
