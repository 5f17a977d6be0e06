---------------------------- MODULE BookingFlow ----------------------------
(***************************************************************************)
(* The steps of a booking in one tab.  The stay and the step are in the    *)
(* URL, where back and forward change them at any time; the dates form     *)
(* keeps what the guest typed until it is mounted again; the quote on the  *)
(* screen, and the review of it, live in the component's memory.  A quote  *)
(* is answered later, when the guest may be somewhere else.                *)
(***************************************************************************)
EXTENDS Naturals

CONSTANTS
  Stays,        \* room, dates and guest count
  Texts,        \* special requests the guest may write
  MaxQuotes,    \* bound on the quotes given
  None          \* nothing, neither a stay nor a text

VARIABLES
  url,          \* the stay and the step in the URL
  visited,      \* what back and forward can return to
  form,         \* the stay the dates form shows; None when it is not mounted
  dirty,        \* dirtyKey
  preview,      \* the quote in memory
  reviewed,     \* the id of the quote that was reviewed, 0 for none
  text,         \* special requests, None while the guest's answers are invalid
  loading,      \* the URL a quote was asked for; None when not busy
  issued,       \* quotes given so far
  agreed,       \* what the guest last agreed to: a quote and its requests
  paying        \* what startPayment was last called with

screen == <<url, visited, form>>
memory == <<dirty, preview, reviewed, text>>
vars == <<screen, memory, loading, issued, agreed, paying>>

NoQuote == [id |-> 0, stay |-> None, live |-> FALSE]

Init ==
  /\ url \in [stay : Stays, step : {"select", "details"}]
  /\ visited = {url}
  /\ form = IF url.step = "select" THEN None ELSE url.stay
  /\ dirty = None /\ preview = NoQuote /\ reviewed = 0
  /\ text = None /\ loading = None /\ issued = 0
  /\ agreed = [quote |-> 0, text |-> None] /\ paying = agreed

-----------------------------------------------------------------------------
(* The form is mounted anew when its key, the stay, changes, or when the   *)
(* guest comes from the search; otherwise what was typed stays.            *)
Goto(u) ==
  /\ url' = u
  /\ visited' = visited \cup {u}
  /\ form' = IF u.step = "select" THEN None
             ELSE IF form = None \/ u.stay # url.stay THEN u.stay ELSE form

Navigate(step, s) == Goto([stay |-> s, step |-> step]) /\ dirty' = None

pending == loading # None

(* The quote on the screen, and whether it may still be used.              *)
quote == IF preview.stay = url.stay THEN preview ELSE NoQuote
fresh == quote.id # 0 /\ quote.live

handoffReady == fresh /\ reviewed = quote.id /\ text # None

-----------------------------------------------------------------------------
(* Back and forward, also while a quote is loading.                        *)
Browse ==
  /\ \E u \in visited : u # url /\ Goto(u)
  /\ UNCHANGED <<memory, loading, issued, agreed, paying>>

(* A room and dates chosen in the availability search.                     *)
Choose(s) ==
  /\ url.step = "select"
  /\ Goto([stay |-> s, step |-> "details"])
  /\ UNCHANGED <<memory, loading, issued, agreed, paying>>

(* Another room; the summary's two buttons; back from payment.             *)
Move ==
  /\ \/ url.step = "details" /\ ~pending /\ \E s \in Stays : Navigate("details", s)
     \/ url.step # "select" /\ ~pending
        /\ \E step \in {"details", "select"} : Navigate(step, url.stay)
     \/ url.step = "payment" /\ Navigate("guest", url.stay)
  /\ UNCHANGED <<preview, reviewed, text, loading, issued, agreed, paying>>

(* Typing in the dates form drops the quote.                               *)
EditStay(s) ==
  /\ url.step # "select" /\ ~pending
  /\ form' = s
  /\ dirty' = url.stay /\ preview' = NoQuote /\ reviewed' = 0
  /\ UNCHANGED <<url, visited, text, loading, issued, agreed, paying>>

(* "Update stay and recheck".                                              *)
ApplyStay ==
  /\ url.step # "select" /\ ~pending
  /\ Navigate("details", form)
  /\ preview' = NoQuote /\ reviewed' = 0
  /\ UNCHANGED <<text, loading, issued, agreed, paying>>

(* "Check price and continue" and "Refresh quote".                         *)
LoadQuote ==
  /\ url.step # "select" /\ ~pending /\ dirty # url.stay
  /\ loading' = url
  /\ preview' = NoQuote /\ reviewed' = 0
  /\ UNCHANGED <<screen, dirty, text, issued, agreed, paying>>

KeyOf(u) == u.stay

Awaited == loading = url

(* An answer for another stay or step is dropped; from the details it      *)
(* leads to the guest's information.                                       *)
QuoteAnswer ==
  /\ pending /\ loading' = None
  /\ \/ /\ Awaited /\ issued < MaxQuotes
        /\ issued' = issued + 1
        /\ preview' = [id |-> issued + 1, stay |-> KeyOf(loading), live |-> TRUE]
        /\ IF loading.step = "details" THEN Navigate("guest", loading.stay)
           ELSE UNCHANGED <<screen, dirty>>
     \/ UNCHANGED <<screen, dirty, preview, issued>>
  /\ UNCHANGED <<reviewed, text, agreed, paying>>

QuoteExpires ==
  /\ preview.live
  /\ preview' = [preview EXCEPT !.live = FALSE]
  /\ UNCHANGED <<screen, dirty, reviewed, text, loading, issued, agreed, paying>>

(* A likely slip: the special requests are not part of the review.         *)
TextReview_Kept == reviewed

TextReview == 0

(* Confirming the email and writing special requests.                      *)
EditText(x) ==
  /\ url.step = "guest"
  /\ text' = x /\ reviewed' = TextReview
  /\ UNCHANGED <<screen, dirty, preview, loading, issued, agreed, paying>>

(* "Review payment handoff".                                               *)
Continue ==
  /\ url.step = "guest" /\ ~pending /\ text # None /\ fresh
  /\ reviewed' = quote.id
  /\ agreed' = [quote |-> quote.id, text |-> text]
  /\ Navigate("payment", url.stay)
  /\ UNCHANGED <<preview, text, loading, issued, paying>>

(* PaymentStep is shown; "Continue to PayHere checkout".                   *)
StartPayment ==
  /\ url.step = "payment" /\ handoffReady
  /\ paying' = [quote |-> quote.id, text |-> text]
  /\ UNCHANGED <<screen, memory, loading, issued, agreed>>

Next ==
  \/ Browse \/ Move \/ ApplyStay \/ LoadQuote \/ QuoteAnswer \/ QuoteExpires
  \/ Continue \/ StartPayment
  \/ \E s \in Stays : Choose(s) \/ EditStay(s)
  \/ \E x \in Texts \cup {None} : EditText(x)

Spec == Init /\ [][Next]_vars

-----------------------------------------------------------------------------
(* Properties.                                                             *)

Steps == {"select", "details", "guest", "payment"}

(* The URL, the form, the memory of the component and what it started hold *)
(* what they may hold.                                                     *)
TypeOK ==
  /\ url \in [stay : Stays, step : Steps]
  /\ visited \subseteq [stay : Stays, step : Steps]
  /\ form \in Stays \cup {None} /\ dirty \in Stays \cup {None}
  /\ preview \in [id : 0..MaxQuotes, stay : Stays \cup {None}, live : BOOLEAN]
  /\ reviewed \in 0..MaxQuotes /\ text \in Texts \cup {None}
  /\ loading \in [stay : Stays, step : Steps] \cup {None}
  /\ issued \in 0..MaxQuotes
  /\ agreed \in [quote : 0..MaxQuotes, text : Texts \cup {None}]
  /\ paying \in [quote : 0..MaxQuotes, text : Texts \cup {None}]

(* What is paid for is what the guest agreed to: the very quote that was   *)
(* reviewed, not a refreshed one, with the special requests as reviewed,   *)
(* however the guest moved, edited and went back and forth in between.     *)
PaysAgreed == StartPayment => paying' = agreed

(* frontend-booking-flow.md: "Stale responses cannot move a guest who      *)
(* navigated to a different configuration."                                *)
StaleMoves == QuoteAnswer /\ loading # url => url' = url /\ ~quote'.live

=============================================================================
