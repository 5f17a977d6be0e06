-------------------------- MODULE BrowserCheckout --------------------------
(***************************************************************************)
(* One guest's browser paying for stays.  Its tabs share one recovery      *)
(* cookie, hw_checkout_preview, which names the quote of the checkout that *)
(* was started last.  The server actions of the site read the cookie when  *)
(* they are called, talk to the booking backend for 20 seconds at most, and*)
(* change the cookie only with their answer, which other tabs overtake and *)
(* which may be lost.  The backend has no time limit of its own: it waits  *)
(* for its locks, and commits, also when nobody waits for it any more.  A  *)
(* quote makes at most one booking (module Checkout), so a booking goes by *)
(* its quote here.                                                         *)
(***************************************************************************)

CONSTANTS
  Tabs,         \* tabs of the browser
  Offers,       \* quotes the guest may be given
  None          \* no quote

ASSUME BrowserAssumption == None \notin Offers

VARIABLES
  bookingOf,    \* the backend's state of each quote's booking
  cookie,       \* hw_checkout_preview
  quoted,       \* quotes shown so far
  running,      \* requests at the backend that no action waits for
  tab,          \* what each tab shows and waits for
  left          \* quotes the guest went on from, history only

browserVars == <<bookingOf, cookie, quoted, running, tab, left>>

(* page: what is shown; id: the quote it is about; payable: the status on  *)
(* screen is PENDING and PENDING; sent: the cookie the action was called   *)
(* with; answer: what it will answer, and whether that sets the cookie;    *)
(* doubt: an answer about the quote was lost, and none has come since.     *)
Blank == [page |-> "away", id |-> None, payable |-> FALSE, pc |-> "idle",
          sent |-> None, answer |-> "none", sets |-> FALSE, doubt |-> FALSE]

BrowserInit ==
  /\ bookingOf = [q \in Offers |-> "none"]
  /\ cookie = None /\ quoted = {} /\ running = {} /\ left = {}
  /\ tab = [t \in Tabs |-> Blank]

(* A checkout or a cancellation at the backend.                            *)
Request == {"checkout", "cancel"} \X Offers

-----------------------------------------------------------------------------
(* The backend.  A hold is live from its reservation; its payment is       *)
(* prepared in a second transaction, which may fail.                       *)

Live(q) == bookingOf[q] \in {"reserved", "prepared"}

(* recovery: the pending, unexpired booking of the quote.                  *)
Recovered(q) == q # None /\ Live(q)

(* The checkout of q is still being made, for a tab or for nobody.         *)
InHand(q) ==
  <<"checkout", q>> \in running \/ \E t \in Tabs : tab[t].pc = "wait" /\ tab[t].id = q

(* POST checkout under the key of the quote, billing included: reserves,   *)
(* then prepares what is reserved.                                         *)
Proceed(q) ==
  /\ InHand(q)
  /\ \/ bookingOf[q] = "none" /\ bookingOf' = [bookingOf EXCEPT ![q] = "reserved"]
     \/ bookingOf[q] = "reserved" /\ bookingOf' = [bookingOf EXCEPT ![q] = "prepared"]
  /\ UNCHANGED <<cookie, quoted, running, tab, left>>

(* cancel: any booking that is still pending, expired or not.              *)
Cancellable(q) == Live(q) \/ bookingOf[q] = "lapsed"

HoldLapses(q) ==
  /\ Live(q)
  /\ bookingOf' = [bookingOf EXCEPT ![q] = "lapsed"]
  /\ UNCHANGED <<cookie, quoted, running, tab, left>>

GuestPays(q) ==
  /\ bookingOf[q] = "prepared"
  /\ bookingOf' = [bookingOf EXCEPT ![q] = "paid"]
  /\ UNCHANGED <<cookie, quoted, running, tab, left>>

(* A cancellation nobody waits for any more, and the end of any request.   *)
CancelLate(q) ==
  /\ <<"cancel", q>> \in running /\ Cancellable(q)
  /\ bookingOf' = [bookingOf EXCEPT ![q] = "cancelled"]
  /\ UNCHANGED <<cookie, quoted, running, tab, left>>

Ends(r) ==
  /\ r \in running /\ running' = running \ {r}
  /\ UNCHANGED <<bookingOf, cookie, quoted, tab, left>>

-----------------------------------------------------------------------------
(* Pages.                                                                  *)

OnPage(t, page) == tab[t].page = page /\ tab[t].pc = "idle"

Show(t, page, q) ==
  tab' = [tab EXCEPT ![t] = [Blank EXCEPT !.page = page, !.id = q,
                               !.payable = page = "booking" /\ Live(q)]]

(* The guest leaves a page whose answer was lost.                          *)
Leave(t) == left' = IF tab[t].doubt THEN left \cup {tab[t].id} ELSE left

(* /booking: an earlier checkout that is still open is offered for review  *)
(* or cancelling; when that cannot be found out, nothing is.               *)
Loaded(t) ==
  \/ Recovered(cookie) /\ Show(t, "choice", cookie)
  \/ ~Recovered(cookie) /\ Show(t, "flow", None)
  \/ cookie # None /\ Show(t, "unavailable", None)

Load(t) ==
  /\ tab[t].pc = "idle" /\ Loaded(t) /\ Leave(t)
  /\ UNCHANGED <<bookingOf, cookie, quoted, running>>

(* /booking/confirmation of any of the guest's bookings, or its refresh.   *)
Open(t, q) ==
  /\ tab[t].pc = "idle" /\ bookingOf[q] # "none"
  /\ Show(t, "booking", q) /\ Leave(t)
  /\ UNCHANGED <<bookingOf, cookie, quoted, running>>

(* A fresh quote for what was selected.                                    *)
NewQuote(t) ==
  /\ OnPage(t, "flow") /\ Leave(t)
  /\ \E q \in Offers \ quoted :
       /\ quoted' = quoted \cup {q}
       /\ Show(t, "flow", q)
  /\ UNCHANGED <<bookingOf, cookie, running>>

-----------------------------------------------------------------------------
(* startPayment.                                                           *)

UnderWay(t) == tab[t].pc \in {"check", "wait", "answer"}

Busy(t) == \E u \in Tabs \ {t} : UnderWay(u)

(* Checkouts whose end is not known when t starts one: nobody waits for    *)
(* them any more, or another tab does or has lost their answer.  That tab's*)
(* answer may also come after the one to t.                                *)
Unsettled(t) ==
  {q \in Offers \ {tab[t].id} : <<"checkout", q>> \in running}
    \cup {tab[u].id : u \in {v \in Tabs \ {t} : UnderWay(v) \/ tab[v].doubt}}
    \cup (IF Busy(t) THEN {tab[t].id} ELSE {})

Start(t) ==
  /\ OnPage(t, "flow") /\ tab[t].id # None
  /\ tab' = [tab EXCEPT ![t].pc = "check", ![t].sent = cookie]
  /\ left' = left \cup Unsettled(t)
  /\ UNCHANGED <<bookingOf, cookie, quoted, running>>

Answering(t, a, sets) ==
  tab' = [tab EXCEPT ![t].pc = "answer", ![t].sent = None, ![t].answer = a,
                        ![t].sets = sets]

Earlier(t) == Recovered(tab[t].sent)

(* An earlier checkout that is live stops this one; it may be this one.    *)
(* Else the request is sent.                                               *)
Check(t) ==
  /\ tab[t].pc = "check"
  /\ \/ Earlier(t) /\ Answering(t, IF tab[t].sent = tab[t].id THEN "booking"
                                   ELSE "error", FALSE)
     \/ tab[t].sent # None /\ Answering(t, "error", FALSE)
     \/ ~Earlier(t) /\ tab' = [tab EXCEPT ![t].pc = "wait", ![t].sent = None]
  /\ UNCHANGED <<bookingOf, cookie, quoted, running, left>>

(* A likely slip: only a checkout that succeeded is remembered.            *)
SetsCookie_OnForm(a) == a = "form"

(* The cookie was set before the call, so it goes with any answer to it.   *)
SetsCookie(a) == TRUE

(* The backend answers: with a form when the payment is prepared.          *)
Post(t) ==
  /\ tab[t].pc = "wait"
  /\ \E a \in {"form", "error"} :
       /\ a = "form" => bookingOf[tab[t].id] = "prepared"
       /\ Answering(t, a, SetsCookie(a))
  /\ UNCHANGED <<bookingOf, cookie, quoted, running, left>>

(* After 20 seconds the action answers that "Checkout may still be         *)
(* preparing", and it may.                                                 *)
GiveUp(t) ==
  /\ tab[t].pc = "wait"
  /\ running' = running \cup {<<"checkout", tab[t].id>>}
  /\ Answering(t, "error", SetsCookie("error"))
  /\ UNCHANGED <<bookingOf, cookie, quoted, left>>

Names(t) == tab[t].id

OnFlow(t, doubt) ==
  tab' = [tab EXCEPT ![t] = [Blank EXCEPT !.page = "flow", !.id = tab[t].id,
                               !.doubt = doubt]]

(* Back in the tab: to PayHere's form, with the booking's page behind it,  *)
(* or to that page, or an error beside the selection.                      *)
Answer(t) ==
  /\ tab[t].pc = "answer"
  /\ cookie' = IF tab[t].sets THEN Names(t) ELSE cookie
  /\ IF tab[t].answer = "error" THEN OnFlow(t, tab[t].doubt /\ ~tab[t].sets)
     ELSE Show(t, "booking", tab[t].id)
  /\ UNCHANGED <<bookingOf, quoted, running, left>>

(* "Checkout could not be reached. Reload to recover your attempt."  What  *)
(* was sent goes on.  A tab lost during the check counts as lost after it. *)
Lost(t) ==
  /\ tab[t].pc \in {"wait", "answer"}
  /\ running' = IF tab[t].pc = "wait" THEN running \cup {<<"checkout", tab[t].id>>}
                ELSE running
  /\ OnFlow(t, TRUE)
  /\ UNCHANGED <<bookingOf, cookie, quoted, left>>

-----------------------------------------------------------------------------
(* resumePayment and cancelPayment.                                        *)

CanCancel(t) == OnPage(t, "choice") \/ (OnPage(t, "booking") /\ tab[t].payable)

(* A resume sends no billing, so it needs a prepared payment.              *)
Resumes(q) == bookingOf[q] = "prepared"

Resume(t) ==
  /\ OnPage(t, "booking") /\ tab[t].payable
  /\ Show(t, "booking", tab[t].id)
  /\ UNCHANGED <<bookingOf, cookie, quoted, running, left>>

AskCancel(t) ==
  /\ CanCancel(t)
  /\ tab' = [tab EXCEPT ![t].pc = "cancel"]
  /\ UNCHANGED <<bookingOf, cookie, quoted, running, left>>

(* The answer must say CANCELLED with nothing paid.                        *)
Verified(done) == done

(* The call may fail, be refused, or be lost with the booking cancelled;   *)
(* after 20 seconds it may still come to that.                             *)
CancelBackend(t) ==
  /\ tab[t].pc = "cancel"
  /\ \E done \in {Cancellable(tab[t].id), FALSE}, a \in {"ok", "error"}, late \in BOOLEAN :
       /\ a = "ok" => Verified(done)
       /\ late => ~done
       /\ bookingOf' = IF done THEN [bookingOf EXCEPT ![tab[t].id] = "cancelled"]
                     ELSE bookingOf
       /\ running' = IF late THEN running \cup {<<"cancel", tab[t].id>>} ELSE running
       /\ tab' = [tab EXCEPT ![t].pc = "cancelled", ![t].answer = a]
  /\ UNCHANGED <<cookie, quoted, left>>

(* The cookie goes, whichever checkout it names by now; or the answer is   *)
(* an error, or lost, and nothing changes.                                 *)
CancelAnswer(t) ==
  /\ tab[t].pc = "cancelled"
  /\ \/ /\ tab[t].answer = "ok"
        /\ cookie' = None
        /\ left' = left \cup ({cookie} \ {tab[t].id, None})
        /\ IF tab[t].page = "choice" THEN Show(t, "flow", None)
           ELSE Show(t, "booking", tab[t].id)
     \/ /\ tab' = [tab EXCEPT ![t].pc = "idle", ![t].answer = "none"]
        /\ UNCHANGED <<cookie, left>>
  /\ UNCHANGED <<bookingOf, quoted, running>>

-----------------------------------------------------------------------------
BrowserNext ==
  \/ \E q \in Offers : Proceed(q) \/ HoldLapses(q) \/ GuestPays(q) \/ CancelLate(q)
  \/ \E r \in Request : Ends(r)
  \/ \E t \in Tabs :
       \/ Load(t) \/ NewQuote(t) \/ Start(t) \/ Check(t) \/ Post(t) \/ GiveUp(t)
       \/ Answer(t) \/ Lost(t) \/ Resume(t)
       \/ AskCancel(t) \/ CancelBackend(t) \/ CancelAnswer(t)
       \/ \E q \in Offers : Open(t, q)

BrowserSpec == BrowserInit /\ [][BrowserNext]_browserVars

-----------------------------------------------------------------------------
(* Properties.                                                             *)

Tab ==
  [page : {"away", "flow", "choice", "unavailable", "booking"},
   id : Offers \cup {None}, payable : BOOLEAN,
   pc : {"idle", "check", "wait", "answer", "cancel", "cancelled"},
   sent : Offers \cup {None},
   answer : {"none", "form", "booking", "error", "ok"},
   sets : BOOLEAN, doubt : BOOLEAN]

(* The bookings, the cookie, the requests and the tabs hold what they may  *)
(* hold.                                                                   *)
BrowserTypeOK ==
  /\ bookingOf \in [Offers -> {"none", "reserved", "prepared", "lapsed", "paid",
                             "cancelled"}]
  /\ cookie \in Offers \cup {None} /\ quoted \subseteq Offers
  /\ running \subseteq Request /\ left \subseteq Offers
  /\ tab \in [Tabs -> Tab]

(* The guest went on from a checkout when she started another before she   *)
(* knew its end, left the page on which its answer was lost, or had the    *)
(* cookie cleared by cancelling a different booking.  Of all her other     *)
(* checkouts at most one holds a room unpaid.                              *)
OneHold == \A p, q \in Offers \ left : Live(p) /\ Live(q) => p = q

(* And that hold can be found again: the cookie names it, or the answer    *)
(* that will set the cookie is to come, or the page that lost the answer   *)
(* is still open, where the same quote is tried under the same key.        *)
Found(q) ==
  \/ cookie = q
  \/ \E t \in Tabs :
       /\ tab[t].id = q
       /\ tab[t].pc = "wait" \/ (tab[t].pc = "answer" /\ tab[t].sets) \/ tab[t].doubt

HoldFound == \A q \in Offers \ left : Live(q) => Found(q)

(* However late the backend commits, whatever answers are lost and however *)
(* many tabs there are: a guest who sees each checkout through holds one   *)
(* unpaid room at a time and finds it again.                               *)
CheckoutRecovers == BrowserTypeOK /\ OneHold /\ HoldFound

(* payhere-checkout.md: a resume reuses "frozen payment/hold/billing":     *)
(* a hold that is shown with "Resume existing checkout", and that no       *)
(* request is working on, can be resumed.                                  *)
ResumeWorks ==
  \A t \in Tabs : OnPage(t, "booking") /\ tab[t].payable /\ Live(tab[t].id)
                       /\ ~InHand(tab[t].id)
                    => Resumes(tab[t].id)

=============================================================================
