-------------------------- MODULE ManagementPanel --------------------------
(***************************************************************************)
(* "Manage your booking" on one page of the site, against the backend's    *)
(* management of that booking (module BookingManagement).  The panel       *)
(* reviews a change or a cancellation, saves it under a key of its own,    *)
(* and, when it could not verify the result, retries that same request.    *)
(* The hotel and other pages of the guest change the booking meanwhile.    *)
(***************************************************************************)
EXTENDS Naturals, Sequences

CONSTANTS
  Keys,         \* keys the panel may generate
  SessionEnds,  \* whether the guest's session may end meanwhile
  MaxVersion,   \* bound: changes of the booking
  MaxSends,     \* bound: requests on their way
  Nothing       \* no key, no preview and no data

ASSUME PanelAssumption == MaxVersion \in Nat /\ Nothing \notin Keys

VARIABLES
  book,         \* the booking: its revision, its version, whether it is confirmed
  saved,        \* operations of this panel in the booking's history
  sent,         \* requests on their way to the backend, in order
  panel,        \* what the page shows and holds
  waits,        \* what the page waits for, or the answer on its way
  used,         \* keys generated so far
  shown,        \* history: keys whose operation was shown as saved
  doubt         \* history: keys whose result was never learned

panelVars == <<book, saved, sent, panel, waits, used, shown, doubt>>

(* A revision counts the guest's operations, a version every change.       *)
Fresh == [revision |-> 0, version |-> 0, confirmed |-> TRUE]

NoAttempt == [key |-> Nothing, kind |-> "none", base |-> Fresh]

NoWait == [for |-> "none", revision |-> 0]

Blank == [mode |-> "none", quote |-> Nothing, attempt |-> NoAttempt,
          uncertain |-> FALSE, told |-> "none", about |-> Nothing,
          outcome |-> 0, state |-> Fresh, refresh |-> FALSE]

PanelInit ==
  /\ book = Fresh /\ saved = {} /\ sent = <<>> /\ panel = Blank
  /\ waits = NoWait /\ used = {} /\ shown = {} /\ doubt = {}

-----------------------------------------------------------------------------
(* The backend.                                                            *)

Grow(revision, confirmed) ==
  book' = [revision |-> revision, version |-> book.version + 1,
           confirmed |-> confirmed]

(* A preview is bound to the whole booking, a cancellation to its revision.*)
Bound(a) ==
  IF a.kind = "MODIFIED" THEN a.base = book ELSE a.base.revision = book.revision

Replayed(a) == \E o \in saved : o.key = a.key

Apply(a) ==
  /\ book.confirmed /\ Bound(a) /\ book.version < MaxVersion
  /\ saved' = saved \cup {a}
  /\ Grow(book.revision + 1, a.kind = "MODIFIED")

(* The page hears of its last request only, while it waits for it.         *)
Reply(w) ==
  waits' = IF waits.for = "save" /\ Len(sent) = 1
           THEN [for |-> w, revision |-> book'.revision] ELSE waits

(* The session may have ended, and the room or the cutoff may be gone.     *)
Receive ==
  /\ sent # <<>> /\ sent' = Tail(sent)
  /\ LET a == Head(sent) IN
       \/ SessionEnds /\ UNCHANGED <<book, saved>> /\ Reply("refused")
       \/ Replayed(a) /\ UNCHANGED <<book, saved>> /\ Reply("ok")
       \/ ~Replayed(a) /\ Apply(a) /\ Reply("ok")
       \/ ~Replayed(a) /\ UNCHANGED <<book, saved>> /\ Reply("conflict")
  /\ UNCHANGED <<panel, used, shown, doubt>>

Lose ==
  /\ sent # <<>> /\ sent' = Tail(sent)
  /\ UNCHANGED <<book, saved, panel, waits, used, shown, doubt>>

(* The hotel, or the guest on another page.                                *)
Elsewhere ==
  /\ book.version < MaxVersion /\ book.confirmed
  /\ \E r \in {0, 1}, c \in BOOLEAN : Grow(book.revision + r, c)
  /\ UNCHANGED <<saved, sent, panel, waits, used, shown, doubt>>

-----------------------------------------------------------------------------
(* Reviewing.                                                              *)

Still == waits = NoWait

(* After a verified operation its refresh must arrive first.               *)
Refreshing ==
  panel.outcome > 0 /\ (panel.state = Nothing \/ panel.state.revision < panel.outcome)

Begun(mode) == [Blank EXCEPT !.mode = mode, !.state = panel.state,
                             !.refresh = panel.refresh]

Open(mode) ==
  /\ panel.mode = "none" /\ Still /\ ~panel.uncertain
  /\ panel.state # Nothing /\ panel.state.confirmed /\ ~Refreshing
  /\ panel' = Begun(mode)
  /\ UNCHANGED <<book, saved, sent, waits, used, shown, doubt>>

(* Closing, or going back to the form.                                     *)
Back(mode) ==
  /\ panel.mode # "none" /\ Still /\ ~panel.uncertain
  /\ mode = "change" => panel.quote # Nothing
  /\ panel' = Begun(mode)
  /\ UNCHANGED <<book, saved, sent, waits, used, shown, doubt>>

Preview ==
  /\ panel.mode = "change" /\ panel.quote = Nothing /\ Still /\ ~panel.uncertain
  /\ panel' = [panel EXCEPT !.told = "none"]
  /\ waits' = [NoWait EXCEPT !.for = "preview"]
  /\ UNCHANGED <<book, saved, sent, used, shown, doubt>>

Previewed ==
  /\ waits.for = "preview" /\ waits' = NoWait
  /\ \/ book.confirmed /\ panel' = [panel EXCEPT !.quote = book, !.attempt = NoAttempt]
     \/ panel' = [panel EXCEPT !.told = "refused"]
  /\ UNCHANGED <<book, saved, sent, used, shown, doubt>>

-----------------------------------------------------------------------------
(* Saving.                                                                 *)

SendOff(a) ==
  /\ Len(sent) < MaxSends /\ sent' = Append(sent, a)
  /\ panel' = [panel EXCEPT !.attempt = a, !.told = "none"]
  /\ waits' = [NoWait EXCEPT !.for = "save"]
  /\ UNCHANGED <<book, saved, shown, doubt>>

Read == panel.state # Nothing

(* Each confirmed review gets a key of its own.                            *)
Confirm ==
  /\ Still /\ Read /\ ~panel.uncertain /\ panel.attempt = NoAttempt
  /\ \E k \in Keys \ used :
       /\ used' = used \cup {k}
       /\ \/ /\ panel.mode = "change" /\ panel.quote # Nothing
             /\ SendOff([key |-> k, kind |-> "MODIFIED", base |-> panel.quote])
          \/ /\ panel.mode = "cancel"
             /\ SendOff([key |-> k, kind |-> "CANCELLED", base |-> panel.state])

QuoteExpires ==
  /\ panel.mode = "change" /\ panel.quote # Nothing
  /\ Still /\ Read /\ panel.attempt = NoAttempt
  /\ panel' = [panel EXCEPT !.quote = Nothing, !.told = "expired"]
  /\ UNCHANGED <<book, saved, sent, waits, used, shown, doubt>>

Retry ==
  /\ panel.uncertain /\ Still /\ Read
  /\ SendOff(panel.attempt) /\ UNCHANGED used

(* A likely slip: a timeout counts as a failure to save.                   *)
InDoubt_Never == FALSE

InDoubt == TRUE

(* A timeout, a 5xx or an answer that cannot be verified.                  *)
GiveUp ==
  /\ waits.for \notin {"none", "preview"} /\ waits' = NoWait
  /\ panel' = [panel EXCEPT !.uncertain = InDoubt, !.told = "uncertain",
                 !.attempt = IF InDoubt THEN @ ELSE NoAttempt]
  /\ doubt' = doubt \cup {panel.attempt.key}
  /\ UNCHANGED <<book, saved, sent, used, shown>>

(* A likely slip: only a conflict refreshes the page.                      *)
Refreshes_Conflict(w) == w = "conflict"

Refreshes(w) == w \in {"ok", "conflict"}

Told(w) ==
  [panel EXCEPT !.uncertain = FALSE, !.attempt = NoAttempt, !.told = w,
                !.about = panel.attempt.key,
                !.mode = IF w = "ok" THEN "none" ELSE @,
                !.quote = IF w = "refused" THEN @ ELSE Nothing,
                !.outcome = IF w = "ok" THEN waits.revision ELSE @,
                !.refresh = @ \/ Refreshes(w)]

Learn ==
  /\ waits.for \in {"ok", "conflict", "refused"} /\ waits' = NoWait
  /\ panel' = Told(waits.for)
  /\ shown' = IF waits.for = "ok" THEN shown \cup {panel.attempt.key} ELSE shown
  /\ doubt' = IF waits.for = "refused" THEN doubt ELSE doubt \ {panel.attempt.key}
  /\ UNCHANGED <<book, saved, sent, used>>

(* The page's data arrive anew; when they cannot be read, the guest is     *)
(* shown a button to ask again.                                            *)
Refresh ==
  /\ panel.refresh
  /\ \/ panel' = [panel EXCEPT !.state = book, !.refresh = FALSE]
     \/ panel' = [panel EXCEPT !.state = Nothing, !.refresh = FALSE]
  /\ UNCHANGED <<book, saved, sent, waits, used, shown, doubt>>

AskAgain ==
  /\ panel.state = Nothing /\ Still /\ ~panel.refresh
  /\ panel' = [panel EXCEPT !.refresh = TRUE]
  /\ UNCHANGED <<book, saved, sent, waits, used, shown, doubt>>

-----------------------------------------------------------------------------
PanelNext ==
  \/ Receive \/ Lose \/ Elsewhere
  \/ \E mode \in {"change", "cancel"} : Open(mode)
  \/ \E mode \in {"change", "none"} : Back(mode)
  \/ Preview \/ Previewed \/ Confirm \/ QuoteExpires \/ Retry
  \/ GiveUp \/ Learn \/ Refresh \/ AskAgain

PanelSpec == PanelInit /\ [][PanelNext]_panelVars

-----------------------------------------------------------------------------
(* Properties.                                                             *)

(* The booking, the page and its requests hold what they may hold.         *)
Book == [revision : 0..MaxVersion, version : 0..MaxVersion, confirmed : BOOLEAN]
Attempt == [key : Keys \cup {Nothing}, kind : {"none", "MODIFIED", "CANCELLED"},
            base : Book]

Page == [mode : {"none", "change", "cancel"}, quote : Book \cup {Nothing},
         attempt : Attempt, uncertain : BOOLEAN,
         told : {"none", "expired", "uncertain", "ok", "conflict", "refused"},
         about : Keys \cup {Nothing}, outcome : 0..MaxVersion,
         state : Book \cup {Nothing}, refresh : BOOLEAN]

PanelTypeOK ==
  /\ book \in Book /\ saved \subseteq Attempt /\ sent \in Seq(Attempt)
  /\ panel \in Page
  /\ waits \in [for : {"none", "preview", "save", "ok", "conflict", "refused"},
                revision : 0..MaxVersion]
  /\ used \subseteq Keys /\ shown \subseteq Keys /\ doubt \subseteq Keys

Held(k) == panel.attempt.key = k /\ (panel.uncertain \/ ~Still)

(* A guest who is told that the booking changed, or that nothing could be  *)
(* saved, has saved nothing: not by an earlier send of that request either.*)
ConflictIsUnsaved ==
  panel.told = "conflict" => \A o \in saved : o.key # panel.about

(* No saved operation goes unnoticed: it was shown as saved, or the page   *)
(* holds on to its request until the result is verified.                   *)
SavedIsKnown == \A o \in saved : o.key \in shown \/ Held(o.key)

(* What the page tells of a save is so, and no save escapes it.            *)
PanelKnows == PanelTypeOK /\ ConflictIsUnsaved /\ SavedIsKnown

(* Eventually: the page is not busy, and its buttons come back after a     *)
(* save, unless its data cannot be read.                                   *)
PanelFrees == ~Refreshing \/ panel.state = Nothing

(* booking-management-ui.md: "It never silently creates a new attempt":    *)
(* while the result of one request is in doubt, no other key is used.      *)
NoNewAttempt == [][used' # used => doubt = {}]_panelVars

=============================================================================
