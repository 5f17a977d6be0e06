---------------------------- MODULE VisitorProofs ----------------------------
(***************************************************************************)
(* What the website promises whoever uses it.  The management panel knows  *)
(* what it saved, for any number of keys, requests on their way and        *)
(* changes of the booking, however often answers are lost and requests     *)
(* sent again.  A visitor's account is his own, for any number of          *)
(* visitors, shared emails, registrations that race, and accounts that     *)
(* other subsystems write.  And a booking link of the availability search  *)
(* is of its last press, in whatever order the answers come.               *)
(***************************************************************************)
EXTENDS ManagementPanel, GuestAccounts, RoomSearch, TLAPS

-----------------------------------------------------------------------------
(* The panel.                                                              *)

Saving == {"save", "ok", "conflict", "refused"}

(* Every change of the booking counts one version, so nothing counts past  *)
(* the last one.                                                           *)
Counted == book.revision <= book.version

(* What is on its way is the request the page holds, sent once or often,   *)
(* and the page holds one exactly while its result is not known.           *)
OwnRequest ==
  /\ \A i \in 1 .. Len(sent) : sent[i] = panel.attempt
  /\ sent # <<>> => panel.attempt # NoAttempt
  /\ panel.attempt = NoAttempt <=> ~panel.uncertain /\ waits.for \notin Saving
  /\ panel.attempt # NoAttempt => panel.attempt.key \in used
  /\ waits.for \in {"ok", "conflict", "refused"} => sent = <<>>
  /\ waits.for = "refused" => SessionEnds
  /\ waits.for = "preview" => ~panel.uncertain

(* What was saved was asked for under its key, and unless a session may    *)
(* end, it was shown or its request is still held.                         *)
SavesTraced ==
  \A o \in saved :
    /\ o.key \in used
    /\ SessionEnds \/ o.key \in shown \/ o.key = panel.attempt.key

(* A conflict is told of a request that was not saved and will not be.     *)
ConflictsTrue ==
  /\ waits.for = "conflict" => \A o \in saved : o.key # panel.attempt.key
  /\ panel.told = "conflict" => sent = <<>> /\ \A o \in saved : o.key # panel.about

PanelInv ==
  PanelTypeOK /\ Counted /\ OwnRequest /\ SavesTraced /\ ConflictsTrue

LEMMA FreshIs == Fresh \in Book /\ NoAttempt \in Attempt /\ NoWait.for = "none"
BY PanelAssumption DEF Fresh, Book, NoAttempt, Attempt, NoWait

LEMMA InitPanelInv == PanelInit => PanelInv
<1> SUFFICES ASSUME PanelInit PROVE PanelInv
  OBVIOUS
<1>1. Blank \in Page
  BY FreshIs, PanelAssumption DEF Blank, Page
<1>2. /\ panel.attempt = NoAttempt /\ ~panel.uncertain /\ panel.told = "none"
      /\ waits.for = "none"
  BY FreshIs DEF PanelInit, Blank
<1>3. waits \in [for : {"none", "preview", "save", "ok", "conflict", "refused"},
                 revision : 0 .. MaxVersion]
  BY PanelAssumption DEF PanelInit, NoWait
<1>4. PanelTypeOK
  BY <1>1, <1>3, FreshIs DEF PanelInit, PanelTypeOK
<1>5. Counted
  BY DEF PanelInit, Fresh, Counted
<1>6. OwnRequest
  BY <1>2 DEF PanelInit, OwnRequest, Saving
<1>7. SavesTraced /\ ConflictsTrue
  BY <1>2 DEF PanelInit, SavesTraced, ConflictsTrue
<1> QED
  BY <1>4, <1>5, <1>6, <1>7 DEF PanelInv

-----------------------------------------------------------------------------
(* The backend's steps.                                                    *)

LEMMA ShorterIsOwn ==
  ASSUME PanelInv, sent # <<>>, sent' = Tail(sent)
  PROVE  /\ sent' \in Seq(Attempt)
         /\ Head(sent) = panel.attempt /\ Head(sent) \in Attempt
         /\ panel.attempt # NoAttempt
         /\ \A i \in 1 .. Len(sent') : sent'[i] = panel.attempt
         /\ Len(sent) = 1 => sent' = <<>>
<1>1. sent \in Seq(Attempt) /\ \A i \in 1 .. Len(sent) : sent[i] = panel.attempt
  BY DEF PanelInv, PanelTypeOK, OwnRequest
<1>2. /\ Len(sent) \in Nat /\ Len(sent) >= 1
      /\ Head(sent) = sent[1] /\ Head(sent) \in Attempt
      /\ Tail(sent) \in Seq(Attempt)
      /\ Len(Tail(sent)) = Len(sent) - 1
  BY <1>1
<1>3. \A i \in 1 .. Len(Tail(sent)) : Tail(sent)[i] = sent[i + 1]
  BY <1>1, <1>2
<1>4. \A i \in 1 .. Len(Tail(sent)) : Tail(sent)[i] = panel.attempt
  BY <1>1, <1>2, <1>3
<1>5. Len(sent) = 1 => Tail(sent) = <<>>
  BY <1>1, <1>2
<1> QED
  BY <1>1, <1>2, <1>4, <1>5 DEF PanelInv, OwnRequest

LEMMA GrowCounts ==
  ASSUME PanelInv, NEW n \in {0, 1}, NEW c \in BOOLEAN, book.version < MaxVersion,
         Grow(book.revision + n, c)
  PROVE  book' \in Book /\ Counted'
<1>1. /\ book.revision \in 0 .. MaxVersion /\ book.version \in 0 .. MaxVersion
      /\ book.revision <= book.version
  BY DEF PanelInv, PanelTypeOK, Book, Counted
<1>2. /\ book.revision + n \in 0 .. MaxVersion /\ book.version + 1 \in 0 .. MaxVersion
      /\ book.revision + n <= book.version + 1
  BY <1>1, PanelAssumption
<1>3. book' = [revision |-> book.revision + n, version |-> book.version + 1,
               confirmed |-> c]
  BY DEF Grow
<1>4. book' \in Book
  BY <1>2, <1>3 DEF Book
<1>5. book'.revision = book.revision + n /\ book'.version = book.version + 1
  BY <1>3
<1> QED
  BY <1>2, <1>4, <1>5 DEF Counted

LEMMA ApplySaves ==
  ASSUME PanelInv, NEW a \in Attempt, Apply(a)
  PROVE  saved' = saved \cup {a} /\ book' \in Book /\ Counted'
<1>1. (a.kind = "MODIFIED") \in BOOLEAN
  OBVIOUS
<1> DEFINE c == a.kind = "MODIFIED"
<1>2. saved' = saved \cup {a} /\ book.version < MaxVersion /\ Grow(book.revision + 1, c)
  BY DEF Apply
<1> QED
  BY <1>1, <1>2, GrowCounts

LEMMA ReceiveKeeps == PanelInv /\ Receive => PanelInv'
<1> SUFFICES ASSUME PanelInv, Receive PROVE PanelInv'
  OBVIOUS
<1> DEFINE a == Head(sent)
<1>1. /\ sent # <<>> /\ sent' = Tail(sent)
      /\ UNCHANGED <<panel, used, shown, doubt>>
  BY DEF Receive
<1>2. /\ sent' \in Seq(Attempt) /\ a = panel.attempt /\ a \in Attempt
      /\ panel.attempt # NoAttempt
      /\ \A i \in 1 .. Len(sent') : sent'[i] = panel.attempt
      /\ Len(sent) = 1 => sent' = <<>>
  BY <1>1, ShorterIsOwn
<1>3. PICK w \in {"ok", "conflict", "refused"} :
        /\ Reply(w)
        /\ w = "refused" => SessionEnds
        /\ w = "conflict" => ~Replayed(a)
        /\ UNCHANGED <<book, saved>> \/ (Apply(a) /\ w = "ok")
  BY DEF Receive
<1> HIDE DEF a
<1>4. /\ book' \in Book /\ Counted'
      /\ saved' = saved \/ saved' = saved \cup {a}
      /\ w = "conflict" => saved' = saved
  BY <1>2, <1>3, ApplySaves DEF PanelInv, PanelTypeOK, Counted
<1>5. waits.for \notin {"ok", "conflict", "refused"} /\ panel.told # "conflict"
  BY <1>1 DEF PanelInv, OwnRequest, ConflictsTrue
<1>6. \/ waits' = waits
      \/ /\ waits.for = "save" /\ sent' = <<>>
         /\ waits' = [for |-> w, revision |-> (book').revision] /\ (waits').for = w
  BY <1>2, <1>3 DEF Reply
<1>7. PanelTypeOK'
  <2>1. waits' \in [for : {"none", "preview", "save", "ok", "conflict", "refused"},
                    revision : 0 .. MaxVersion]
    BY <1>4, <1>6 DEF PanelInv, PanelTypeOK, Book
  <2>2. saved' \subseteq Attempt
    BY <1>2, <1>4 DEF PanelInv, PanelTypeOK
  <2> QED
    BY <1>1, <1>2, <1>4, <2>1, <2>2 DEF PanelInv, PanelTypeOK
<1>8. OwnRequest'
  BY <1>1, <1>2, <1>3, <1>5, <1>6 DEF PanelInv, OwnRequest, Saving
<1>9. SavesTraced'
  BY <1>1, <1>2, <1>4 DEF PanelInv, OwnRequest, SavesTraced
<1>10. ConflictsTrue'
  <2>1. (panel').told # "conflict"
    BY <1>1, <1>5
  <2>2. ASSUME (waits').for = "conflict"
        PROVE  \A o \in saved' : o.key # (panel').attempt.key
    <3>1. w = "conflict"
      BY <1>5, <1>6, <2>2
    <3>2. saved' = saved /\ \A o \in saved : o.key # a.key
      BY <1>3, <1>4, <3>1 DEF Replayed
    <3> QED
      BY <1>1, <1>2, <3>2
  <2> QED
    BY <2>1, <2>2 DEF ConflictsTrue
<1> QED
  BY <1>4, <1>7, <1>8, <1>9, <1>10 DEF PanelInv

LEMMA LoseKeeps == PanelInv /\ Lose => PanelInv'
<1> SUFFICES ASSUME PanelInv, Lose PROVE PanelInv'
  OBVIOUS
<1>1. /\ sent # <<>> /\ sent' = Tail(sent)
      /\ UNCHANGED <<book, saved, panel, waits, used, shown, doubt>>
  BY DEF Lose
<1>2. /\ sent' \in Seq(Attempt)
      /\ panel.attempt # NoAttempt
      /\ \A i \in 1 .. Len(sent') : sent'[i] = panel.attempt
  BY <1>1, ShorterIsOwn
<1>3. PanelTypeOK' /\ Counted' /\ SavesTraced'
  BY <1>1, <1>2 DEF PanelInv, PanelTypeOK, Counted, SavesTraced
<1>4. OwnRequest' /\ ConflictsTrue'
  BY <1>1, <1>2 DEF PanelInv, OwnRequest, ConflictsTrue
<1> QED
  BY <1>3, <1>4 DEF PanelInv

LEMMA ElsewhereKeeps == PanelInv /\ Elsewhere => PanelInv'
<1> SUFFICES ASSUME PanelInv, Elsewhere PROVE PanelInv'
  OBVIOUS
<1>1. UNCHANGED <<saved, sent, panel, waits, used, shown, doubt>>
  BY DEF Elsewhere
<1>2. book' \in Book /\ Counted'
  BY GrowCounts DEF Elsewhere
<1>3. PanelTypeOK'
  BY <1>1, <1>2 DEF PanelInv, PanelTypeOK
<1>4. OwnRequest' /\ SavesTraced' /\ ConflictsTrue'
  BY <1>1 DEF PanelInv, OwnRequest, SavesTraced, ConflictsTrue
<1> QED
  BY <1>2, <1>3, <1>4 DEF PanelInv

-----------------------------------------------------------------------------
(* The page's steps.                                                       *)

Waits == [for : {"none", "preview", "save", "ok", "conflict", "refused"},
          revision : 0 .. MaxVersion]

LEMMA WaitsAre ==
  /\ NoWait \in Waits /\ NoWait.for = "none"
  /\ \A w \in {"preview", "save"} :
       [NoWait EXCEPT !.for = w] \in Waits /\ [NoWait EXCEPT !.for = w].for = w
<1>1. 0 \in 0 .. MaxVersion
  BY PanelAssumption
<1> QED
  BY <1>1 DEF NoWait, Waits

(* A step that neither sends a request nor learns of one.                  *)
LEMMA QuietKeeps ==
  ASSUME PanelInv, UNCHANGED <<book, saved, sent, used, shown, doubt>>,
         panel' \in Page, waits' \in Waits,
         panel'.attempt = panel.attempt, panel'.uncertain = panel.uncertain,
         panel'.told = "conflict" => panel.told = "conflict" /\ panel'.about = panel.about,
         \/ waits' = waits
         \/ /\ waits.for \notin Saving /\ waits'.for \notin Saving
            /\ waits'.for = "preview" => ~panel.uncertain
  PROVE  PanelInv'
<1>1. PanelTypeOK' /\ Counted'
  BY DEF PanelInv, PanelTypeOK, Counted, Waits
<1>2. OwnRequest'
  BY DEF PanelInv, OwnRequest, Saving
<1>3. SavesTraced' /\ ConflictsTrue'
  BY DEF PanelInv, SavesTraced, ConflictsTrue, Saving
<1> QED
  BY <1>1, <1>2, <1>3 DEF PanelInv

LEMMA WaitsOK == PanelInv => waits \in Waits /\ panel \in Page
BY DEF PanelInv, PanelTypeOK, Waits

LEMMA BegunKeeps ==
  ASSUME PanelInv, NEW mode \in {"none", "change", "cancel"}, Still, ~panel.uncertain,
         panel' = Begun(mode), UNCHANGED <<book, saved, sent, waits, used, shown, doubt>>
  PROVE  PanelInv'
<1>1. panel.attempt = NoAttempt /\ panel.state \in Book \cup {Nothing}
      /\ panel.refresh \in BOOLEAN
  BY WaitsAre, WaitsOK DEF PanelInv, OwnRequest, Still, Saving, Page
<1>2. Blank \in Page
  BY FreshIs, PanelAssumption DEF Blank, Page
<1>3. /\ panel' \in Page
      /\ panel'.attempt = NoAttempt /\ panel'.uncertain = FALSE /\ panel'.told = "none"
  <2> DEFINE open == [Blank EXCEPT !.mode = mode]
             read == [open EXCEPT !.state = panel.state]
  <2>1. /\ open \in Page /\ open.attempt = NoAttempt
        /\ open.uncertain = FALSE /\ open.told = "none"
    BY <1>2 DEF Blank, Page
  <2> HIDE DEF open
  <2>2. /\ read \in Page /\ read.attempt = NoAttempt
        /\ read.uncertain = FALSE /\ read.told = "none"
    BY <1>1, <2>1 DEF Page
  <2>3. panel' = [read EXCEPT !.refresh = panel.refresh]
    BY DEF Begun, open
  <2> HIDE DEF read
  <2> QED
    BY <1>1, <2>2, <2>3 DEF Page
<1>4. panel.uncertain = FALSE
  BY WaitsOK DEF Page
<1> QED
  BY <1>1, <1>3, <1>4, WaitsOK, QuietKeeps

LEMMA OpenKeeps == ASSUME PanelInv, NEW mode \in {"change", "cancel"}, Open(mode)
                   PROVE  PanelInv'
BY BegunKeeps DEF Open

LEMMA BackKeeps == ASSUME PanelInv, NEW mode \in {"change", "none"}, Back(mode)
                   PROVE  PanelInv'
BY BegunKeeps DEF Back

LEMMA PreviewKeeps == PanelInv /\ Preview => PanelInv'
<1> SUFFICES ASSUME PanelInv, Preview PROVE PanelInv'
  OBVIOUS
<1>1. /\ UNCHANGED <<book, saved, sent, used, shown, doubt>>
      /\ panel' = [panel EXCEPT !.told = "none"]
      /\ waits.for = "none"
      /\ waits' \in Waits /\ waits'.for = "preview"
      /\ ~panel.uncertain
  BY WaitsAre DEF Preview, Still
<1>2. /\ panel' \in Page /\ panel'.told = "none"
      /\ panel'.attempt = panel.attempt /\ panel'.uncertain = panel.uncertain
  BY <1>1, WaitsOK DEF Page
<1> QED
  BY <1>1, <1>2, QuietKeeps DEF Saving

LEMMA PreviewedKeeps == PanelInv /\ Previewed => PanelInv'
<1> SUFFICES ASSUME PanelInv, Previewed PROVE PanelInv'
  OBVIOUS
<1>1. /\ UNCHANGED <<book, saved, sent, used, shown, doubt>>
      /\ waits.for = "preview"
      /\ waits' \in Waits /\ waits'.for = "none"
  BY WaitsAre DEF Previewed
<1>2. panel.attempt = NoAttempt
  BY <1>1 DEF PanelInv, OwnRequest, Saving
<1>3. /\ panel' \in Page
      /\ panel'.told = "conflict" => panel.told = "conflict"
      /\ panel'.uncertain = panel.uncertain /\ panel'.about = panel.about
      /\ panel'.attempt = panel.attempt
  <2>1. CASE panel' = [panel EXCEPT !.quote = book, !.attempt = NoAttempt]
    <3> DEFINE quoted == [panel EXCEPT !.quote = book]
    <3>1. /\ quoted \in Page /\ quoted.told = panel.told
          /\ quoted.uncertain = panel.uncertain /\ quoted.about = panel.about
      BY WaitsOK DEF Page, PanelInv, PanelTypeOK
    <3>2. panel' = [quoted EXCEPT !.attempt = NoAttempt]
      BY <2>1
    <3> HIDE DEF quoted
    <3> QED
      BY <1>2, <3>1, <3>2, FreshIs DEF Page
  <2>2. CASE panel' = [panel EXCEPT !.told = "refused"]
    BY <2>2, WaitsOK DEF Page
  <2> QED
    BY <2>1, <2>2 DEF Previewed
<1> QED
  BY <1>1, <1>3, QuietKeeps DEF Saving

LEMMA QuoteExpiresKeeps == PanelInv /\ QuoteExpires => PanelInv'
<1> SUFFICES ASSUME PanelInv, QuoteExpires PROVE PanelInv'
  OBVIOUS
<1>1. /\ UNCHANGED <<book, saved, sent, waits, used, shown, doubt>>
      /\ panel' = [panel EXCEPT !.quote = Nothing, !.told = "expired"]
  BY DEF QuoteExpires
<1>2. /\ panel' \in Page /\ panel'.told = "expired"
      /\ panel'.attempt = panel.attempt /\ panel'.uncertain = panel.uncertain
  <2> DEFINE bare == [panel EXCEPT !.quote = Nothing]
  <2>1. /\ bare \in Page
        /\ bare.attempt = panel.attempt /\ bare.uncertain = panel.uncertain
    BY WaitsOK DEF Page
  <2>2. panel' = [bare EXCEPT !.told = "expired"]
    BY <1>1
  <2> HIDE DEF bare
  <2> QED
    BY <2>1, <2>2 DEF Page
<1> QED
  BY <1>1, <1>2, WaitsOK, QuietKeeps

LEMMA LooksKeep ==
  ASSUME PanelInv, NEW state \in Book \cup {Nothing}, NEW refresh \in BOOLEAN,
         panel' = [panel EXCEPT !.state = state, !.refresh = refresh],
         UNCHANGED <<book, saved, sent, waits, used, shown, doubt>>
  PROVE  PanelInv'
<1> DEFINE seen == [panel EXCEPT !.state = state]
<1>1. /\ seen \in Page /\ seen.told = panel.told /\ seen.about = panel.about
      /\ seen.attempt = panel.attempt /\ seen.uncertain = panel.uncertain
  BY WaitsOK DEF Page
<1>2. panel' = [seen EXCEPT !.refresh = refresh]
  OBVIOUS
<1> HIDE DEF seen
<1>3. /\ panel' \in Page /\ panel'.told = panel.told /\ panel'.about = panel.about
      /\ panel'.attempt = panel.attempt /\ panel'.uncertain = panel.uncertain
  BY <1>1, <1>2 DEF Page
<1> QED
  BY <1>3, WaitsOK, QuietKeeps

LEMMA RefreshKeeps == PanelInv /\ Refresh => PanelInv'
<1> SUFFICES ASSUME PanelInv, Refresh PROVE PanelInv'
  OBVIOUS
<1>1. book \in Book /\ UNCHANGED <<book, saved, sent, waits, used, shown, doubt>>
  BY DEF Refresh, PanelInv, PanelTypeOK
<1>2. CASE panel' = [panel EXCEPT !.state = book, !.refresh = FALSE]
  BY <1>1, <1>2, LooksKeep
<1>3. CASE panel' = [panel EXCEPT !.state = Nothing, !.refresh = FALSE]
  BY <1>1, <1>3, LooksKeep
<1> QED
  BY <1>2, <1>3 DEF Refresh

LEMMA AskAgainKeeps == PanelInv /\ AskAgain => PanelInv'
<1> SUFFICES ASSUME PanelInv, AskAgain PROVE PanelInv'
  OBVIOUS
<1>1. /\ panel' = [panel EXCEPT !.refresh = TRUE]
      /\ UNCHANGED <<book, saved, sent, waits, used, shown, doubt>>
  BY DEF AskAgain
<1>2. /\ panel' \in Page /\ panel'.told = panel.told /\ panel'.about = panel.about
      /\ panel'.attempt = panel.attempt /\ panel'.uncertain = panel.uncertain
  BY <1>1, WaitsOK DEF Page
<1> QED
  BY <1>1, <1>2, WaitsOK, QuietKeeps

(* A request is sent: a new one, when the page held none, or the one held. *)
LEMMA SendKeeps ==
  ASSUME PanelInv, NEW a \in Attempt, Still, SendOff(a), used' \subseteq Keys,
         used \subseteq used', a.key \in used', a # NoAttempt,
         panel.attempt = NoAttempt \/ a = panel.attempt
  PROVE  PanelInv'
<1>1. /\ sent' = Append(sent, a)
      /\ UNCHANGED <<book, saved, shown, doubt>>
      /\ panel' = [panel EXCEPT !.attempt = a, !.told = "none"]
      /\ waits' \in Waits /\ waits'.for = "save"
  BY WaitsAre DEF SendOff
<1>2. /\ panel' \in Page /\ panel'.attempt = a /\ panel'.told = "none"
  <2> DEFINE held == [panel EXCEPT !.attempt = a]
  <2>1. held \in Page /\ held.attempt = a
    BY WaitsOK DEF Page
  <2>2. panel' = [held EXCEPT !.told = "none"]
    BY <1>1
  <2> HIDE DEF held
  <2> QED
    BY <2>1, <2>2 DEF Page
<1>3. sent \in Seq(Attempt) /\ \A i \in 1 .. Len(sent) : sent[i] = panel.attempt
  BY DEF PanelInv, PanelTypeOK, OwnRequest
<1>4. panel.attempt = NoAttempt => sent = <<>>
  BY DEF PanelInv, OwnRequest
<1>5. /\ sent' \in Seq(Attempt)
      /\ \A i \in 1 .. Len(sent') : sent'[i] = a
  <2>1. \A i \in 1 .. Len(sent) : sent[i] = a
    BY <1>3, <1>4
  <2>2. /\ Append(sent, a) \in Seq(Attempt)
        /\ Len(Append(sent, a)) = Len(sent) + 1
        /\ Append(sent, a)[Len(sent) + 1] = a
        /\ \A i \in 1 .. Len(sent) : Append(sent, a)[i] = sent[i]
    BY <1>3
  <2>3. Len(sent) \in Nat
    BY <1>3
  <2> QED
    BY <1>1, <2>1, <2>2, <2>3
<1>6. PanelTypeOK' /\ Counted'
  BY <1>1, <1>2, <1>5 DEF PanelInv, PanelTypeOK, Counted, Waits
<1>7. OwnRequest'
  BY <1>1, <1>2, <1>5 DEF OwnRequest, Saving
<1>8. SavesTraced'
  <2>1. \A o \in saved : o.key \in used /\ o.key \in Keys
    BY DEF PanelInv, PanelTypeOK, SavesTraced
  <2>2. panel.attempt = NoAttempt => panel.attempt.key \notin Keys
    BY PanelAssumption DEF NoAttempt
  <2> QED
    BY <1>1, <1>2, <2>1, <2>2 DEF PanelInv, SavesTraced
<1>9. ConflictsTrue'
  BY <1>1, <1>2 DEF ConflictsTrue
<1> QED
  BY <1>6, <1>7, <1>8, <1>9 DEF PanelInv

LEMMA ConfirmKeeps == PanelInv /\ Confirm => PanelInv'
<1> SUFFICES ASSUME PanelInv, Confirm PROVE PanelInv'
  OBVIOUS
<1>1. Still /\ Read /\ panel.attempt = NoAttempt
  BY DEF Confirm
<1>2. PICK k \in Keys \ used :
        /\ used' = used \cup {k}
        /\ \/ /\ panel.mode = "change" /\ panel.quote # Nothing
              /\ SendOff([key |-> k, kind |-> "MODIFIED", base |-> panel.quote])
           \/ /\ panel.mode = "cancel"
              /\ SendOff([key |-> k, kind |-> "CANCELLED", base |-> panel.state])
  BY DEF Confirm
<1>3. used' \subseteq Keys /\ used \subseteq used' /\ k \in used'
  BY <1>2 DEF PanelInv, PanelTypeOK
<1>4. \A kind \in {"MODIFIED", "CANCELLED"}, base \in Book :
        /\ [key |-> k, kind |-> kind, base |-> base] \in Attempt
        /\ [key |-> k, kind |-> kind, base |-> base] # NoAttempt
  BY <1>2, PanelAssumption DEF Attempt, NoAttempt
<1>5. CASE /\ panel.quote # Nothing
           /\ SendOff([key |-> k, kind |-> "MODIFIED", base |-> panel.quote])
  <2> DEFINE a == [key |-> k, kind |-> "MODIFIED", base |-> panel.quote]
  <2>1. a \in Attempt /\ a # NoAttempt /\ a.key = k /\ SendOff(a)
    BY <1>4, <1>5, WaitsOK DEF Page
  <2> HIDE DEF a
  <2> QED
    BY <1>1, <1>3, <2>1, SendKeeps
<1>6. CASE SendOff([key |-> k, kind |-> "CANCELLED", base |-> panel.state])
  <2> DEFINE a == [key |-> k, kind |-> "CANCELLED", base |-> panel.state]
  <2>1. a \in Attempt /\ a # NoAttempt /\ a.key = k /\ SendOff(a)
    BY <1>1, <1>4, <1>6, WaitsOK DEF Page, Read
  <2> HIDE DEF a
  <2> QED
    BY <1>1, <1>3, <2>1, SendKeeps
<1> QED
  BY <1>2, <1>5, <1>6

LEMMA RetryKeeps == PanelInv /\ Retry => PanelInv'
<1> SUFFICES ASSUME PanelInv, Retry PROVE PanelInv'
  OBVIOUS
<1>1. panel.uncertain /\ Still /\ SendOff(panel.attempt) /\ used' = used
  BY DEF Retry
<1>2. /\ panel.attempt \in Attempt /\ panel.attempt # NoAttempt
      /\ panel.attempt.key \in used /\ used \subseteq Keys
  BY <1>1, WaitsOK DEF PanelInv, PanelTypeOK, OwnRequest, Page
<1> QED
  BY <1>1, <1>2, SendKeeps

LEMMA GiveUpKeeps == PanelInv /\ GiveUp => PanelInv'
<1> SUFFICES ASSUME PanelInv, GiveUp PROVE PanelInv'
  OBVIOUS
<1>1. /\ waits.for \in Saving /\ waits' \in Waits /\ waits'.for = "none"
      /\ doubt' = doubt \cup {panel.attempt.key}
      /\ UNCHANGED <<book, saved, sent, used, shown>>
  BY WaitsAre, WaitsOK DEF GiveUp, Waits, Saving
<1>2. panel.attempt # NoAttempt /\ panel.attempt.key \in used
  BY <1>1 DEF PanelInv, OwnRequest
<1>3. /\ panel' \in Page /\ panel'.attempt = panel.attempt
      /\ panel'.uncertain /\ panel'.told = "uncertain"
  <2> DEFINE unsure == [panel EXCEPT !.uncertain = TRUE]
             said == [unsure EXCEPT !.told = "uncertain"]
  <2>1. unsure \in Page /\ unsure.attempt = panel.attempt /\ unsure.uncertain
    BY WaitsOK DEF Page
  <2> HIDE DEF unsure
  <2>2. /\ said \in Page /\ said.attempt = panel.attempt /\ said.uncertain
        /\ said.told = "uncertain"
    BY <2>1 DEF Page
  <2>3. panel' = [said EXCEPT !.attempt = panel.attempt]
    BY DEF GiveUp, InDoubt, said, unsure
  <2> HIDE DEF said
  <2> QED
    BY <2>2, <2>3, WaitsOK DEF Page
<1>4. PanelTypeOK' /\ Counted'
  BY <1>1, <1>2, <1>3 DEF PanelInv, PanelTypeOK, Counted, Waits
<1>5. OwnRequest'
  BY <1>1, <1>2, <1>3 DEF PanelInv, OwnRequest, Saving
<1>6. SavesTraced' /\ ConflictsTrue'
  BY <1>1, <1>3 DEF PanelInv, SavesTraced, ConflictsTrue
<1> QED
  BY <1>4, <1>5, <1>6 DEF PanelInv

(* What the page makes of an answer.                                       *)
LEMMA ToldIs ==
  ASSUME PanelInv, NEW w \in {"ok", "conflict", "refused"}, waits.for = w
  PROVE  /\ Told(w) \in Page /\ Told(w).attempt = NoAttempt
         /\ Told(w).uncertain = FALSE /\ Told(w).told = w
         /\ Told(w).about = panel.attempt.key
<1> DEFINE a == [panel EXCEPT !.uncertain = FALSE]
           b == [a EXCEPT !.attempt = NoAttempt]
           c == [b EXCEPT !.told = w]
           d == [c EXCEPT !.about = panel.attempt.key]
           e == [d EXCEPT !.mode = IF w = "ok" THEN "none" ELSE @]
           f == [e EXCEPT !.quote = IF w = "refused" THEN @ ELSE Nothing]
           g == [f EXCEPT !.outcome = IF w = "ok" THEN waits.revision ELSE @]
           h == [g EXCEPT !.refresh = @ \/ Refreshes(w)]
<1>1. panel \in Page /\ panel.attempt \in Attempt /\ panel.attempt.key \in Keys \cup {Nothing}
  BY WaitsOK DEF Page, Attempt
<1>2. waits.revision \in 0 .. MaxVersion
  BY WaitsOK DEF Waits
<1>3. Told(w) = h
  BY DEF Told
<1>4. a \in Page /\ a.uncertain = FALSE
  BY <1>1 DEF Page
<1> HIDE DEF a
<1>5. b \in Page /\ b.uncertain = FALSE /\ b.attempt = NoAttempt
  BY <1>4, FreshIs DEF Page
<1> HIDE DEF b
<1>6. c \in Page /\ c.uncertain = FALSE /\ c.attempt = NoAttempt /\ c.told = w
  BY <1>5 DEF Page
<1> HIDE DEF c
<1>7. /\ d \in Page /\ d.uncertain = FALSE /\ d.attempt = NoAttempt /\ d.told = w
      /\ d.about = panel.attempt.key
  BY <1>1, <1>6 DEF Page
<1> HIDE DEF d
<1>8. /\ e \in Page /\ e.uncertain = FALSE /\ e.attempt = NoAttempt /\ e.told = w
      /\ e.about = panel.attempt.key
  BY <1>7 DEF Page
<1> HIDE DEF e
<1>9. /\ f \in Page /\ f.uncertain = FALSE /\ f.attempt = NoAttempt /\ f.told = w
      /\ f.about = panel.attempt.key
  BY <1>8 DEF Page
<1> HIDE DEF f
<1>10. /\ g \in Page /\ g.uncertain = FALSE /\ g.attempt = NoAttempt /\ g.told = w
       /\ g.about = panel.attempt.key
  BY <1>2, <1>9 DEF Page
<1> HIDE DEF g
<1>11. /\ h \in Page /\ h.uncertain = FALSE /\ h.attempt = NoAttempt /\ h.told = w
       /\ h.about = panel.attempt.key
  <2>1. (g.refresh \/ Refreshes(w)) \in BOOLEAN
    BY DEF Refreshes
  <2> QED
    BY <1>10, <2>1 DEF Page
<1> HIDE DEF h
<1> QED
  BY <1>3, <1>11

LEMMA LearnKeeps == PanelInv /\ Learn => PanelInv'
<1> SUFFICES ASSUME PanelInv, Learn PROVE PanelInv'
  OBVIOUS
<1>1. PICK w \in {"ok", "conflict", "refused"} : waits.for = w /\ panel' = Told(w)
  BY DEF Learn
<1>2. /\ panel' \in Page /\ panel'.attempt = NoAttempt /\ panel'.uncertain = FALSE
      /\ panel'.told = w /\ panel'.about = panel.attempt.key
  BY <1>1, ToldIs
<1>3. /\ waits' \in Waits /\ waits'.for = "none"
      /\ UNCHANGED <<book, saved, sent, used>>
      /\ doubt' \subseteq doubt
      /\ shown' = IF w = "ok" THEN shown \cup {panel.attempt.key} ELSE shown
  BY <1>1, WaitsAre DEF Learn
<1>4. sent = <<>> /\ panel.attempt.key \in used /\ used \subseteq Keys
  BY <1>1 DEF PanelInv, PanelTypeOK, OwnRequest, Saving
<1>5. PanelTypeOK' /\ Counted'
  BY <1>2, <1>3, <1>4 DEF PanelInv, PanelTypeOK, Counted, Waits
<1>6. OwnRequest'
  BY <1>2, <1>3, <1>4 DEF OwnRequest, Saving
<1>7. SavesTraced'
  <2> SUFFICES ASSUME NEW o \in saved PROVE o.key \in used /\ (SessionEnds \/ o.key \in shown')
    BY <1>3 DEF SavesTraced
  <2>1. o.key \in used /\ (SessionEnds \/ o.key \in shown \/ o.key = panel.attempt.key)
    BY DEF PanelInv, SavesTraced
  <2>2. CASE w = "ok"
    BY <1>3, <2>1, <2>2
  <2>3. CASE w = "conflict"
    BY <1>1, <1>3, <2>1, <2>3 DEF PanelInv, ConflictsTrue
  <2>4. CASE w = "refused"
    BY <1>1, <2>1, <2>4 DEF PanelInv, OwnRequest
  <2> QED
    BY <2>2, <2>3, <2>4
<1>8. ConflictsTrue'
  BY <1>1, <1>2, <1>3, <1>4 DEF PanelInv, ConflictsTrue
<1> QED
  BY <1>5, <1>6, <1>7, <1>8 DEF PanelInv

LEMMA NextPanelInv == PanelInv /\ [PanelNext]_panelVars => PanelInv'
<1> SUFFICES ASSUME PanelInv, [PanelNext]_panelVars PROVE PanelInv'
  OBVIOUS
<1>1. CASE UNCHANGED panelVars
  BY <1>1 DEF panelVars, PanelInv, PanelTypeOK, Counted, OwnRequest, SavesTraced,
              ConflictsTrue
<1>2. CASE PanelNext
  BY <1>2, ReceiveKeeps, LoseKeeps, ElsewhereKeeps, OpenKeeps, BackKeeps, PreviewKeeps,
     PreviewedKeeps, ConfirmKeeps, QuoteExpiresKeeps, RetryKeeps, GiveUpKeeps, LearnKeeps,
     RefreshKeeps, AskAgainKeeps DEF PanelNext
<1> QED
  BY <1>1, <1>2

LEMMA PanelInvHolds == PanelSpec => []PanelInv
<1>1. PanelInit => PanelInv
  BY InitPanelInv
<1>2. PanelInv /\ [PanelNext]_panelVars => PanelInv'
  BY NextPanelInv
<1> QED
  BY <1>1, <1>2, PTL DEF PanelSpec

-----------------------------------------------------------------------------
(* What follows.                                                           *)

(* Whoever is told of a conflict saved nothing by that request, also when  *)
(* an earlier send of it was thought lost and his session may have ended.  *)
THEOREM ConflictsAreUnsaved == PanelSpec => [](PanelTypeOK /\ ConflictIsUnsaved)
<1>1. PanelInv => PanelTypeOK /\ ConflictIsUnsaved
  BY DEF PanelInv, ConflictsTrue, ConflictIsUnsaved
<1> QED
  BY <1>1, PanelInvHolds, PTL

(* While the session lasts, every saved operation was shown as saved, or   *)
(* its request is held until it is: none is lost with an answer.           *)
THEOREM PanelKnowsItsSaves ==
  ASSUME ~SessionEnds
  PROVE  PanelSpec => []PanelKnows
<1>1. PanelInv => PanelKnows
  <2> SUFFICES ASSUME PanelInv PROVE PanelKnows
    OBVIOUS
  <2>1. SavedIsKnown
    <3> SUFFICES ASSUME NEW o \in saved, o.key = panel.attempt.key PROVE Held(o.key)
      BY DEF PanelInv, SavesTraced, SavedIsKnown
    <3>1. o.key \in Keys
      BY DEF PanelInv, PanelTypeOK, SavesTraced
    <3>2. panel.attempt # NoAttempt
      BY <3>1, PanelAssumption DEF NoAttempt
    <3>3. panel.uncertain \/ waits.for \in Saving
      BY <3>2 DEF PanelInv, OwnRequest
    <3> QED
      BY <3>3, WaitsAre DEF Held, Still, Saving
  <2> QED
    BY <2>1 DEF PanelInv, ConflictsTrue, ConflictIsUnsaved, PanelKnows
<1> QED
  BY <1>1, PanelInvHolds, PTL

-----------------------------------------------------------------------------
(* Accounts.  The table, its locks and the registrations; the invariant    *)
(* that holds a registration's check good until its insert is the last     *)
(* conjunct but one.                                                       *)
Row(i) == guests[i].saw < i

(* Between check and insert nobody else makes an account of the email, and *)
(* what another subsystem writes comes after all the check could see.      *)
CheckHolds(r) ==
  /\ register[r].saw <= Len(guests)
  /\ \A i \in DOMAIN guests :
       guests[i].email = EmailOf[register[r].browser] =>
         ~Service(i) /\ i > register[r].saw

Holder(r) == locked[EmailOf[register[r].browser]] = r

TableInv ==
  /\ guests \in Seq(Account)
  /\ locked \in [Emails -> Registrations \cup {Nobody}]
  /\ register \in [Registrations -> Registration]
  /\ \A r \in Registrations :
       /\ register[r].pc # "none" => register[r].browser \in Browsers
       /\ register[r].pc \in {"check", "insert"} => Holder(r)
       /\ register[r].pc = "insert" => CheckHolds(r)
  /\ \A i \in DOMAIN guests : Row(i)
  /\ AccountsApart

(* The browsers; a session is of an account that is there.                 *)
PagesInv ==
  /\ visitor \in [Browsers -> Visitor]
  /\ \A b \in Browsers : visitor[b].session \in {0} \cup DOMAIN guests
  /\ OwnSession /\ ReturnKept

AccountsInv == TableInv /\ PagesInv /\ lost \in Nat

LEMMA AccountsInvIsSafe == AccountsInv => AccountsSafe
BY DEF AccountsInv, TableInv, PagesInv, Holder, AccountsSafe, AccountsTypeOK

LEMMA SafeTwice ==
  ASSUME NEW place
  PROVE  Safe(Safe(place)) = Safe(place) /\ Safe(place) \in {place, Profile}
BY DEF Safe

LEMMA InitAccounts == AccountsInit => AccountsInv
<1> SUFFICES ASSUME AccountsInit PROVE AccountsInv
  OBVIOUS
<1>1. guests = <<>> /\ DOMAIN guests = {} /\ guests \in Seq(Account)
  BY DEF AccountsInit
<1>2. locked \in [Emails -> Registrations \cup {Nobody}]
  BY DEF AccountsInit
<1>3. \A r \in Registrations : register[r] = [pc |-> "none", browser |-> Nobody, saw |-> 0]
  BY DEF AccountsInit
<1>4. register \in [Registrations -> Registration]
  BY DEF AccountsInit, Registration
<1>5. \A r \in Registrations : register[r].pc = "none"
  BY <1>3
<1>6. TableInv
  BY <1>1, <1>2, <1>4, <1>5 DEF TableInv, AccountsApart
<1>7. \A b \in Browsers :
        visitor[b] = [at |-> "page", origin |-> Profile, dest |-> Profile, waits |-> 0,
                      error |-> "none", session |-> 0, rivals |-> {}]
  BY DEF AccountsInit
<1>8. visitor \in [Browsers -> Visitor]
  BY DEF AccountsInit, Visitor
<1>9. \A b \in Browsers : /\ visitor[b].session = 0 /\ visitor[b].at = "page"
                          /\ visitor[b].dest = visitor[b].origin
  <2> SUFFICES ASSUME NEW b \in Browsers
               PROVE  /\ visitor[b].session = 0 /\ visitor[b].at = "page"
                      /\ visitor[b].dest = visitor[b].origin
    OBVIOUS
  <2>1. visitor[b] = [at |-> "page", origin |-> Profile, dest |-> Profile, waits |-> 0,
                      error |-> "none", session |-> 0, rivals |-> {}]
    BY <1>7
  <2> QED
    BY <2>1
<1>10. PagesInv
  BY <1>8, <1>9 DEF PagesInv, OwnSession, ReturnKept
<1> QED
  BY <1>6, <1>10 DEF AccountsInit, AccountsInv

(* A step of one registration, whose browser and sight stay its own.       *)
LEMMA StepsIs ==
  ASSUME TableInv, NEW r \in Registrations,
         NEW pc \in {"check", "created", "exists", "stopped"}, Pc(r, pc)
  PROVE  /\ register' \in [Registrations -> Registration]
         /\ (register'[r]).pc = pc
         /\ (register'[r]).browser = register[r].browser
         /\ (register'[r]).saw = register[r].saw
         /\ \A q \in Registrations \ {r} : register'[q] = register[q]
<1>1. register \in [Registrations -> Registration] /\ register[r] \in Registration
  BY DEF TableInv
<1> DEFINE new == [register[r] EXCEPT !.pc = pc]
<1>2. new \in Registration
  BY <1>1 DEF Registration
<1>3. new.pc = pc /\ new.browser = register[r].browser /\ new.saw = register[r].saw
  BY <1>1 DEF Registration
<1>4. register' = [register EXCEPT ![r] = new]
  BY DEF Pc
<1> HIDE DEF new
<1> QED
  BY <1>1, <1>2, <1>3, <1>4

(* The lock of an email has one holder, and a registration under way has   *)
(* an email.                                                               *)
LEMMA OneHolder ==
  ASSUME TableInv, NEW r \in Registrations, NEW q \in Registrations,
         register[r].pc \in {"check", "insert"}, register[q].pc \in {"check", "insert"},
         EmailOf[register[r].browser] = EmailOf[register[q].browser]
  PROVE  r = q
BY DEF TableInv, Holder

LEMMA HasEmail ==
  ASSUME TableInv, NEW r \in Registrations, register[r].pc # "none"
  PROVE  register[r].browser \in Browsers /\ EmailOf[register[r].browser] \in Emails
BY DEF TableInv, Emails

LEMMA LockKeeps ==
  ASSUME TableInv, NEW r \in Registrations, Lock(r)
  PROVE  TableInv'
<1> DEFINE e == EmailOf[register[r].browser]
<1>1. /\ register[r].pc = "lock" /\ locked[e] = Nobody
      /\ locked' = [locked EXCEPT ![e] = r] /\ Pc(r, "check") /\ guests' = guests
  BY DEF Lock, Unlocked
<1>2. register[r].browser \in Browsers /\ e \in Emails
  BY <1>1, HasEmail
<1>3. /\ register' \in [Registrations -> Registration]
      /\ (register'[r]).pc = "check" /\ (register'[r]).browser = register[r].browser
      /\ \A q \in Registrations \ {r} : register'[q] = register[q]
  BY <1>1, StepsIs
<1>4. /\ locked' \in [Emails -> Registrations \cup {Nobody}]
      /\ locked'[e] = r
      /\ \A f \in Emails \ {e} : locked'[f] = locked[f]
  BY <1>1, <1>2 DEF TableInv
<1>5. ASSUME NEW q \in Registrations, (register'[q]).pc \in {"check", "insert"}
      PROVE  Holder(q)'
  <2>1. CASE q = r
    BY <2>1, <1>3, <1>4 DEF Holder
  <2>2. CASE q # r
    <3>1. register'[q] = register[q] /\ locked[EmailOf[register[q].browser]] = q
      BY <1>3, <1>5, <2>2 DEF TableInv, Holder
    <3>2. EmailOf[register[q].browser] \in Emails \ {e}
      BY <1>1, <1>3, <1>5, <3>1, HasEmail, AccountsAssumption
    <3> QED
      BY <1>4, <3>1, <3>2 DEF Holder
  <2> QED
    BY <2>1, <2>2
<1>6. \A q \in Registrations : (register'[q]).pc = "insert" => CheckHolds(q)'
  BY <1>1, <1>3 DEF TableInv, CheckHolds, Service
<1>7. \A q \in Registrations : (register'[q]).pc # "none" => (register'[q]).browser \in Browsers
  BY <1>2, <1>3 DEF TableInv
<1>8. guests' \in Seq(Account) /\ (\A i \in DOMAIN guests' : Row(i)') /\ AccountsApart'
  BY <1>1 DEF TableInv, Row, AccountsApart, Service
<1> QED
  BY <1>3, <1>4, <1>5, <1>6, <1>7, <1>8 DEF TableInv

(* A registration that ends, with or without an account, frees its email.  *)
LEMMA FreesKeep ==
  ASSUME TableInv, NEW r \in Registrations, NEW pc \in {"created", "exists", "stopped"},
         register[r].pc # "none", Pc(r, pc),
         locked' \in [Emails -> Registrations \cup {Nobody}],
         \A q \in Registrations \ {r} :
           register[q].pc \in {"check", "insert"} =>
             locked'[EmailOf[register[q].browser]] = locked[EmailOf[register[q].browser]]
  PROVE  /\ register' \in [Registrations -> Registration]
         /\ \A q \in Registrations :
              /\ (register'[q]).pc # "none" => (register'[q]).browser \in Browsers
              /\ (register'[q]).pc \in {"check", "insert"} =>
                   q # r /\ register'[q] = register[q] /\ Holder(q)'
<1>1. /\ register' \in [Registrations -> Registration]
      /\ (register'[r]).pc = pc /\ (register'[r]).browser = register[r].browser
      /\ \A q \in Registrations \ {r} : register'[q] = register[q]
  BY StepsIs
<1>2. register[r].browser \in Browsers
  BY HasEmail
<1>3. ASSUME NEW q \in Registrations, (register'[q]).pc \in {"check", "insert"}
      PROVE  q # r /\ register'[q] = register[q] /\ Holder(q)'
  <2>1. q # r /\ register'[q] = register[q]
    BY <1>1, <1>3
  <2>2. locked[EmailOf[register[q].browser]] = q
    BY <1>3, <2>1 DEF TableInv, Holder
  <2> QED
    BY <1>3, <2>1, <2>2 DEF Holder
<1>4. \A q \in Registrations : (register'[q]).pc # "none" => (register'[q]).browser \in Browsers
  BY <1>1, <1>2 DEF TableInv
<1> QED
  BY <1>1, <1>3, <1>4

(* The same when the table stays as it is.                                 *)
LEMMA EndsKeep ==
  ASSUME TableInv, NEW r \in Registrations, NEW pc \in {"created", "exists", "stopped"},
         register[r].pc # "none", Pc(r, pc), guests' = guests,
         locked' \in [Emails -> Registrations \cup {Nobody}],
         \A q \in Registrations \ {r} :
           register[q].pc \in {"check", "insert"} =>
             locked'[EmailOf[register[q].browser]] = locked[EmailOf[register[q].browser]]
  PROVE  TableInv'
<1>1. /\ register' \in [Registrations -> Registration]
      /\ \A q \in Registrations :
           /\ (register'[q]).pc # "none" => (register'[q]).browser \in Browsers
           /\ (register'[q]).pc \in {"check", "insert"} =>
                q # r /\ register'[q] = register[q] /\ Holder(q)'
  BY FreesKeep
<1>2. \A q \in Registrations : (register'[q]).pc = "insert" => CheckHolds(q)'
  BY <1>1 DEF TableInv, CheckHolds, Service
<1>3. guests' \in Seq(Account) /\ (\A i \in DOMAIN guests' : Row(i)') /\ AccountsApart'
  BY DEF TableInv, Row, AccountsApart, Service
<1> QED
  BY <1>1, <1>2, <1>3 DEF TableInv

(* Who frees the email of r frees nobody else's.                           *)
LEMMA Frees ==
  ASSUME TableInv, NEW r \in Registrations, register[r].pc \in {"check", "insert"},
         locked' = [locked EXCEPT ![EmailOf[register[r].browser]] = Nobody]
  PROVE  /\ locked' \in [Emails -> Registrations \cup {Nobody}]
         /\ \A q \in Registrations \ {r} :
              register[q].pc \in {"check", "insert"} =>
                locked'[EmailOf[register[q].browser]] = locked[EmailOf[register[q].browser]]
<1>1. locked \in [Emails -> Registrations \cup {Nobody}]
  BY DEF TableInv
<1>2. \A q \in Registrations \ {r} :
        register[q].pc \in {"check", "insert"} =>
          /\ EmailOf[register[q].browser] # EmailOf[register[r].browser]
          /\ EmailOf[register[q].browser] \in Emails
  BY OneHolder, HasEmail
<1> QED
  BY <1>1, <1>2

LEMMA CheckKeeps ==
  ASSUME TableInv, NEW r \in Registrations, Check(r)
  PROVE  TableInv'
<1> DEFINE e == EmailOf[register[r].browser]
<1>1. register[r].pc = "check" /\ guests' = guests
  BY DEF Check
<1>2. CASE Taken(e)
  <2>1. Pc(r, "exists") /\ locked' = [locked EXCEPT ![e] = Nobody]
    BY <1>2 DEF Check
  <2>2. /\ locked' \in [Emails -> Registrations \cup {Nobody}]
        /\ \A q \in Registrations \ {r} :
             register[q].pc \in {"check", "insert"} =>
               locked'[EmailOf[register[q].browser]] = locked[EmailOf[register[q].browser]]
    BY <1>1, <2>1, Frees
  <2> QED
    BY <1>1, <2>1, <2>2, EndsKeep
<1>3. CASE ~Taken(e)
  <2>1. /\ register' = [register EXCEPT ![r].pc = "insert", ![r].saw = Len(guests)]
        /\ locked' = locked
    BY <1>3 DEF Check
  <2> DEFINE here == [register[r] EXCEPT !.pc = "insert"]
             new == [here EXCEPT !.saw = Len(guests)]
  <2>2. Len(guests) \in Nat /\ register[r] \in Registration
    BY DEF TableInv
  <2>3. new \in Registration /\ new.pc = "insert" /\ new.saw = Len(guests)
        /\ new.browser = register[r].browser
    <3>1. here \in Registration /\ here.pc = "insert" /\ here.browser = register[r].browser
      BY <2>2 DEF Registration
    <3> HIDE DEF here
    <3> QED
      BY <2>2, <3>1 DEF Registration
  <2>4. register' = [register EXCEPT ![r] = new]
    BY <2>1
  <2> HIDE DEF here, new
  <2>5. /\ register' \in [Registrations -> Registration] /\ register'[r] = new
        /\ \A q \in Registrations \ {r} : register'[q] = register[q]
    BY <2>3, <2>4 DEF TableInv
  <2>6. CheckHolds(r)'
    <3>1. \A i \in DOMAIN guests : guests[i].email # e
      BY <1>3 DEF Taken, Accounts
    <3> QED
      BY <1>1, <2>2, <2>3, <2>5, <3>1 DEF CheckHolds
  <2>7. \A q \in Registrations : (register'[q]).pc = "insert" => CheckHolds(q)'
    <3>1. \A q \in Registrations \ {r} : (register'[q]).pc = "insert" => CheckHolds(q)'
      BY <1>1, <2>5 DEF TableInv, CheckHolds, Service
    <3> QED
      BY <2>6, <3>1
  <2>8. \A q \in Registrations :
          /\ (register'[q]).pc # "none" => (register'[q]).browser \in Browsers
          /\ (register'[q]).pc \in {"check", "insert"} => Holder(q)'
    BY <1>1, <2>1, <2>3, <2>5 DEF TableInv, Holder
  <2>9. guests' \in Seq(Account) /\ (\A i \in DOMAIN guests' : Row(i)') /\ AccountsApart'
    BY <1>1 DEF TableInv, Row, AccountsApart, Service
  <2> QED
    BY <2>1, <2>5, <2>7, <2>8, <2>9 DEF TableInv
<1> QED
  BY <1>2, <1>3

(* A new account leaves the others where they are.                         *)
LEMMA Appended ==
  ASSUME guests \in Seq(Account), NEW new \in Account, guests' = Append(guests, new)
  PROVE  /\ guests' \in Seq(Account) /\ Len(guests') = Len(guests) + 1
         /\ DOMAIN guests' = DOMAIN guests \cup {Len(guests) + 1}
         /\ DOMAIN guests = 1 .. Len(guests) /\ Len(guests) \in Nat
         /\ guests'[Len(guests) + 1] = new
         /\ \A i \in DOMAIN guests : guests'[i] = guests[i]
OBVIOUS

LEMMA InsertKeeps ==
  ASSUME TableInv, NEW r \in Registrations, Insert(r)
  PROVE  TableInv'
<1> DEFINE b == register[r].browser
           e == EmailOf[b]
           n == Len(guests)
<1>1. register[r].pc = "insert" /\ locked' = [locked EXCEPT ![e] = Nobody]
  BY DEF Insert
<1>2. b \in Browsers /\ e \in Emails
  BY <1>1, HasEmail
<1>3. /\ locked' \in [Emails -> Registrations \cup {Nobody}]
      /\ \A q \in Registrations \ {r} :
           register[q].pc \in {"check", "insert"} =>
             locked'[EmailOf[register[q].browser]] = locked[EmailOf[register[q].browser]]
  BY <1>1, Frees
<1>4. CASE Violates(e)
  <2>1. Pc(r, "exists") /\ guests' = guests
    BY <1>4 DEF Insert
  <2> QED
    BY <1>1, <1>3, <2>1, EndsKeep
<1>5. CASE ~Violates(e)
  <2> DEFINE new == [email |-> e, normal |-> TRUE, password |-> b, saw |-> register[r].saw]
  <2>1. Pc(r, "created") /\ guests' = Append(guests, new)
    BY <1>5 DEF Insert
  <2>2. CheckHolds(r) /\ register[r].saw \in Nat
    BY <1>1 DEF TableInv, Registration
  <2>3. /\ new \in Account /\ new.email = e /\ new.password = b
        /\ new.saw = register[r].saw
    BY <1>2, <2>2 DEF Account
  <2> HIDE DEF new
  <2>4. /\ guests' \in Seq(Account) /\ Len(guests') = n + 1
        /\ DOMAIN guests' = DOMAIN guests \cup {n + 1} /\ DOMAIN guests = 1 .. n
        /\ n \in Nat /\ guests'[n + 1] = new
        /\ \A i \in DOMAIN guests : guests'[i] = guests[i]
    BY <2>1, <2>3, Appended DEF TableInv
  <2>5. /\ register' \in [Registrations -> Registration]
        /\ \A q \in Registrations :
             /\ (register'[q]).pc # "none" => (register'[q]).browser \in Browsers
             /\ (register'[q]).pc \in {"check", "insert"} =>
                  q # r /\ register'[q] = register[q] /\ Holder(q)'
    BY <1>1, <1>3, <2>1, FreesKeep
  <2>6. ASSUME NEW q \in Registrations, (register'[q]).pc = "insert"
        PROVE  CheckHolds(q)'
    <3>1. q # r /\ register'[q] = register[q] /\ register[q].pc = "insert"
      BY <2>5, <2>6
    <3>2. CheckHolds(q) /\ EmailOf[register[q].browser] # e
      BY <1>1, <3>1, OneHolder DEF TableInv
    <3>3. register[q].saw \in Nat
      BY DEF TableInv, Registration
    <3> QED
      BY <2>3, <2>4, <3>1, <3>2, <3>3 DEF CheckHolds, Service
  <2>7. ASSUME NEW i \in DOMAIN guests' PROVE Row(i)'
    BY <2>2, <2>3, <2>4 DEF TableInv, Row, CheckHolds
  <2>8. AccountsApart'
    <3> SUFFICES ASSUME NEW i \in DOMAIN guests', NEW j \in DOMAIN guests', i # j,
                        (guests'[i]).email = (guests'[j]).email, Service(i)'
                 PROVE  ~(Service(j)') /\ j > (guests'[i]).saw
      BY DEF AccountsApart
    <3>1. CASE i = n + 1
      <4>1. j \in DOMAIN guests /\ guests'[j] = guests[j] /\ guests[j].email = e
        BY <2>3, <2>4, <3>1
      <4> QED
        BY <2>2, <2>3, <2>4, <3>1, <4>1 DEF CheckHolds, Service
    <3>2. CASE i # n + 1 /\ j = n + 1
      <4>1. i \in DOMAIN guests /\ guests'[i] = guests[i] /\ guests[i].email = e
        BY <2>3, <2>4, <3>2
      <4> QED
        BY <2>2, <4>1 DEF CheckHolds, Service
    <3>3. CASE i # n + 1 /\ j # n + 1
      BY <2>4, <3>3 DEF TableInv, AccountsApart, Service
    <3> QED
      BY <3>1, <3>2, <3>3
  <2> QED
    BY <1>3, <2>4, <2>5, <2>6, <2>7, <2>8 DEF TableInv
<1> QED
  BY <1>4, <1>5

LEMMA StopKeeps ==
  ASSUME TableInv, NEW r \in Registrations, Stop(r)
  PROVE  TableInv'
<1>1. /\ register[r].pc \in {"lock", "check", "insert"} /\ Pc(r, "stopped")
      /\ locked' = [e \in DOMAIN locked |-> IF locked[e] = r THEN Nobody ELSE locked[e]]
      /\ guests' = guests
  BY DEF Stop
<1>2. locked \in [Emails -> Registrations \cup {Nobody}]
  BY DEF TableInv
<1>3. locked' \in [Emails -> Registrations \cup {Nobody}]
  BY <1>1, <1>2
<1>4. ASSUME NEW q \in Registrations \ {r}, register[q].pc \in {"check", "insert"}
      PROVE  locked'[EmailOf[register[q].browser]] = locked[EmailOf[register[q].browser]]
  <2>1. locked[EmailOf[register[q].browser]] = q
    BY <1>4 DEF TableInv, Holder
  <2>2. EmailOf[register[q].browser] \in Emails
    BY <1>4, HasEmail
  <2> QED
    BY <1>1, <1>2, <2>1, <2>2
<1> QED
  BY <1>1, <1>3, <1>4, EndsKeep

LEMMA OutsideKeeps == TableInv /\ Outside => TableInv'
<1> SUFFICES ASSUME TableInv, Outside PROVE TableInv'
  OBVIOUS
<1>1. PICK b \in Browsers, normal \in BOOLEAN :
        /\ guests' = Append(guests, [email |-> EmailOf[b], normal |-> normal,
                                     password |-> Nobody, saw |-> Len(guests)])
        /\ UNCHANGED <<locked, register>>
  BY DEF Outside
<1> DEFINE new == [email |-> EmailOf[b], normal |-> normal, password |-> Nobody,
                   saw |-> Len(guests)]
           n == Len(guests)
<1>2. /\ new \in Account /\ new.password = Nobody /\ new.saw = n
  <2>1. Len(guests) \in Nat
    BY DEF TableInv
  <2> QED
    BY <2>1 DEF Account, Emails
<1>3. guests' = Append(guests, new)
  BY <1>1
<1> HIDE DEF new
<1>4. /\ guests' \in Seq(Account) /\ Len(guests') = n + 1
      /\ DOMAIN guests' = DOMAIN guests \cup {n + 1} /\ DOMAIN guests = 1 .. n
      /\ n \in Nat /\ guests'[n + 1] = new
      /\ \A i \in DOMAIN guests : guests'[i] = guests[i]
  BY <1>2, <1>3, Appended DEF TableInv
<1>5. ASSUME NEW q \in Registrations, (register'[q]).pc = "insert"
      PROVE  CheckHolds(q)'
  <2>1. CheckHolds(q) /\ register'[q] = register[q] /\ register[q].saw \in Nat
    BY <1>1, <1>5 DEF TableInv, Registration
  <2> QED
    BY <1>2, <1>4, <2>1 DEF CheckHolds, Service
<1>6. \A i \in DOMAIN guests' : Row(i)'
  BY <1>2, <1>4 DEF TableInv, Row
<1>7. AccountsApart'
  <2> SUFFICES ASSUME NEW i \in DOMAIN guests', NEW j \in DOMAIN guests', i # j,
                      (guests'[i]).email = (guests'[j]).email, Service(i)'
               PROVE  ~(Service(j)') /\ j > (guests'[i]).saw
    BY DEF AccountsApart
  <2>1. i \in DOMAIN guests /\ guests'[i] = guests[i]
    BY <1>2, <1>4 DEF Service
  <2>2. CASE j = n + 1
    <3>1. guests[i].saw < i /\ guests[i].saw \in Nat /\ i \in 1 .. n
      <4>1. i \in 1 .. Len(guests) /\ guests[i] \in Account
        BY <1>4, <2>1 DEF TableInv
      <4> QED
        BY <1>4, <2>1, <4>1 DEF TableInv, Row, Account
    <3> QED
      BY <1>2, <1>4, <2>1, <2>2, <3>1 DEF Service
  <2>3. CASE j # n + 1
    BY <1>4, <2>1, <2>3 DEF TableInv, AccountsApart, Service
  <2> QED
    BY <2>2, <2>3
<1> QED
  BY <1>1, <1>4, <1>5, <1>6, <1>7 DEF TableInv, Holder

-----------------------------------------------------------------------------
(* The pages.                                                              *)

(* Accounts are only added, so no session loses its account.               *)
LEMMA PagesStay ==
  ASSUME PagesInv, guests \in Seq(Account), visitor' = visitor,
         guests' = guests \/ \E new \in Account : guests' = Append(guests, new)
  PROVE  PagesInv'
<1>1. DOMAIN guests \subseteq DOMAIN guests' /\ \A i \in DOMAIN guests : guests'[i] = guests[i]
  <2>1. CASE guests' = guests
    BY <2>1
  <2>2. CASE \E new \in Account : guests' = Append(guests, new)
    BY <2>2, Appended
  <2> QED
    BY <2>1, <2>2
<1>2. \A b \in Browsers : (visitor'[b]).session \in {0} \cup DOMAIN guests'
  BY <1>1 DEF PagesInv
<1>3. OwnSession'
  BY <1>1 DEF PagesInv, OwnSession
<1>4. ReturnKept'
  BY DEF PagesInv, ReturnKept
<1> QED
  BY <1>2, <1>3, <1>4 DEF PagesInv

(* What one browser may become.                                            *)
Fits(b, v) ==
  /\ v \in Visitor
  /\ v.session # 0 =>
       /\ v.session \in DOMAIN guests
       /\ guests[v.session].password = b /\ v.rivals = {}
  /\ v.dest = Safe(v.origin) \/ (v.at = "page" /\ v.dest = v.origin)

LEMMA FitsNow ==
  ASSUME PagesInv, NEW b \in Browsers
  PROVE  Fits(b, visitor[b])
BY DEF PagesInv, OwnSession, ReturnKept, Fits

LEMMA PageMoves ==
  ASSUME PagesInv, NEW b \in Browsers, NEW v, Fits(b, v), guests' = guests,
         visitor' = [visitor EXCEPT ![b] = v]
  PROVE  PagesInv'
<1>1. /\ visitor' \in [Browsers -> Visitor] /\ visitor'[b] = v
      /\ \A c \in Browsers \ {b} : visitor'[c] = visitor[c]
  BY DEF PagesInv, Fits
<1>2. \A c \in Browsers : (visitor'[c]).session \in {0} \cup DOMAIN guests'
  BY <1>1 DEF PagesInv, Fits
<1>3. OwnSession'
  BY <1>1 DEF PagesInv, OwnSession, Fits
<1>4. ReturnKept'
  BY <1>1 DEF PagesInv, ReturnKept, Fits
<1> QED
  BY <1>1, <1>2, <1>3, <1>4 DEF PagesInv

LEMMA VisitKeeps ==
  ASSUME PagesInv, NEW b \in Browsers, Visit(b)
  PROVE  PagesInv'
<1>1. PICK o \in Origins :
        visitor' = [visitor EXCEPT ![b] =
          IF @.session # 0 THEN [@ EXCEPT !.dest = o, !.origin = o]
          ELSE [@ EXCEPT !.at = "signIn", !.dest = Safe(o), !.origin = o, !.error = "none"]]
  BY DEF Visit
<1>2. /\ visitor[b].at = "page" /\ guests' = guests /\ Fits(b, visitor[b])
      /\ visitor \in [Browsers -> Visitor] /\ visitor[b] \in Visitor
  BY FitsNow DEF Visit, PagesInv
<1>3. CASE visitor[b].session # 0
  <2> DEFINE led == [visitor[b] EXCEPT !.dest = o]
             new == [led EXCEPT !.origin = o]
  <2>1. visitor' = [visitor EXCEPT ![b] = new]
    BY <1>1, <1>2, <1>3
  <2>2. led \in Visitor /\ led.dest = o /\ led.at = "page"
        /\ led.session = visitor[b].session /\ led.rivals = visitor[b].rivals
    BY <1>2 DEF Visitor
  <2> HIDE DEF led
  <2>3. new \in Visitor /\ new.dest = o /\ new.at = "page" /\ new.origin = o
        /\ new.session = visitor[b].session /\ new.rivals = visitor[b].rivals
    BY <2>2 DEF Visitor
  <2> HIDE DEF new
  <2>4. Fits(b, new)
    BY <1>2, <2>3 DEF Fits
  <2> QED
    BY <1>2, <2>1, <2>4, PageMoves
<1>4. CASE visitor[b].session = 0
  <2> DEFINE turned == [visitor[b] EXCEPT !.at = "signIn"]
             led == [turned EXCEPT !.dest = Safe(o)]
             from == [led EXCEPT !.origin = o]
             new == [from EXCEPT !.error = "none"]
  <2>1. visitor' = [visitor EXCEPT ![b] = new]
    BY <1>1, <1>2, <1>4
  <2>2. turned \in Visitor /\ turned.session = 0
    BY <1>2, <1>4 DEF Visitor
  <2> HIDE DEF turned
  <2>3. led \in Visitor /\ led.session = 0 /\ led.dest = Safe(o)
    BY <2>2, SafeTwice DEF Visitor
  <2> HIDE DEF led
  <2>4. from \in Visitor /\ from.session = 0 /\ from.dest = Safe(o) /\ from.origin = o
    BY <2>3 DEF Visitor
  <2> HIDE DEF from
  <2>5. new \in Visitor /\ new.session = 0 /\ new.dest = Safe(o) /\ new.origin = o
    BY <2>4 DEF Visitor
  <2> HIDE DEF new
  <2>6. Fits(b, new)
    BY <2>5 DEF Fits
  <2> QED
    BY <1>2, <2>1, <2>6, PageMoves
<1> QED
  BY <1>3, <1>4

(* A link between the two forms keeps where the guest wants to go.         *)
LEMMA GoesKeeps ==
  ASSUME PagesInv, NEW b \in Browsers, NEW at \in {"signIn", "signUp"},
         visitor[b].at # "page", Goes(b, at, Safe(visitor[b].dest)), guests' = guests
  PROVE  PagesInv'
<1> DEFINE turned == [visitor[b] EXCEPT !.at = at]
           led == [turned EXCEPT !.dest = Safe(visitor[b].dest)]
           new == [led EXCEPT !.error = "none"]
<1>1. /\ Fits(b, visitor[b]) /\ visitor[b] \in Visitor
      /\ visitor \in [Browsers -> Visitor]
  BY FitsNow DEF PagesInv
<1>2. visitor' = [visitor EXCEPT ![b] = new]
  BY <1>1 DEF Goes
<1>3. Safe(visitor[b].dest) = Safe(visitor[b].origin)
  BY <1>1, SafeTwice DEF Fits
<1>4. turned \in Visitor /\ turned.session = visitor[b].session
      /\ turned.rivals = visitor[b].rivals /\ turned.origin = visitor[b].origin
  BY <1>1 DEF Visitor
<1> HIDE DEF turned
<1>5. led \in Visitor /\ led.session = visitor[b].session /\ led.rivals = visitor[b].rivals
      /\ led.origin = visitor[b].origin /\ led.dest = Safe(visitor[b].dest)
  <2>1. visitor[b].dest \in Origins \cup {Profile}
    BY <1>1 DEF Visitor
  <2> QED
    BY <1>4, <2>1, SafeTwice DEF Visitor
<1> HIDE DEF led
<1>6. new \in Visitor /\ new.session = visitor[b].session /\ new.rivals = visitor[b].rivals
      /\ new.origin = visitor[b].origin /\ new.dest = Safe(visitor[b].dest)
  BY <1>5 DEF Visitor
<1> HIDE DEF new
<1>7. Fits(b, new)
  BY <1>1, <1>3, <1>6 DEF Fits
<1> QED
  BY <1>2, <1>7, PageMoves

(* Waiting for a registration, and giving up on it, leads nowhere.         *)
LEMMA WaitsKeep ==
  ASSUME PagesInv, NEW b \in Browsers, guests' = guests,
         NEW r \in Registrations \cup {0},
         NEW error \in {"none", "exists", "unavailable", "credentials"},
         \/ visitor' = [visitor EXCEPT ![b] = [@ EXCEPT !.waits = r, !.error = error]]
         \/ visitor' = [visitor EXCEPT ![b] = [@ EXCEPT !.error = error]]
  PROVE  PagesInv'
<1>1. /\ Fits(b, visitor[b]) /\ visitor[b] \in Visitor
      /\ visitor \in [Browsers -> Visitor]
  BY FitsNow DEF PagesInv
<1>2. PICK w \in Registrations \cup {0} :
        visitor' = [visitor EXCEPT ![b] = [[visitor[b] EXCEPT !.waits = w] EXCEPT !.error = error]]
  <2>1. CASE visitor' = [visitor EXCEPT ![b] = [@ EXCEPT !.waits = r, !.error = error]]
    BY <1>1, <2>1
  <2>2. CASE visitor' = [visitor EXCEPT ![b] = [@ EXCEPT !.error = error]]
    <3>1. visitor[b] = [visitor[b] EXCEPT !.waits = visitor[b].waits]
      BY <1>1 DEF Visitor
    <3>2. visitor[b].waits \in Registrations \cup {0}
      BY <1>1 DEF Visitor
    <3> QED
      BY <1>1, <2>2, <3>1, <3>2
  <2> QED
    BY <2>1, <2>2
<1> DEFINE held == [visitor[b] EXCEPT !.waits = w]
           new == [held EXCEPT !.error = error]
<1>3. visitor' = [visitor EXCEPT ![b] = new]
  BY <1>2
<1>4. held \in Visitor /\ held.session = visitor[b].session /\ held.rivals = visitor[b].rivals
      /\ held.origin = visitor[b].origin /\ held.dest = visitor[b].dest
      /\ held.at = visitor[b].at
  BY <1>1 DEF Visitor
<1> HIDE DEF held
<1>5. new \in Visitor /\ new.session = visitor[b].session /\ new.rivals = visitor[b].rivals
      /\ new.origin = visitor[b].origin /\ new.dest = visitor[b].dest
      /\ new.at = visitor[b].at
  BY <1>4 DEF Visitor
<1> HIDE DEF new
<1>6. Fits(b, new)
  BY <1>1, <1>5 DEF Fits
<1> QED
  BY <1>3, <1>6, PageMoves

LEMMA SignedUpKeeps ==
  ASSUME PagesInv, NEW b \in Browsers, SignedUp(b)
  PROVE  PagesInv'
<1>1. /\ Fits(b, visitor[b]) /\ visitor[b] \in Visitor
      /\ visitor \in [Browsers -> Visitor] /\ guests' = guests
  BY FitsNow DEF PagesInv, SignedUp
<1>2. CASE register[visitor[b].waits].pc = "created"
  <2> DEFINE unheld == [visitor[b] EXCEPT !.waits = 0]
             turned == [unheld EXCEPT !.at = "signIn"]
             new == [turned EXCEPT !.dest = Registered(b)]
  <2>1. visitor' = [visitor EXCEPT ![b] = new]
    BY <1>1, <1>2 DEF SignedUp
  <2>2. unheld \in Visitor /\ unheld.session = visitor[b].session
        /\ unheld.rivals = visitor[b].rivals /\ unheld.origin = visitor[b].origin
    BY <1>1 DEF Visitor
  <2> HIDE DEF unheld
  <2>3. turned \in Visitor /\ turned.session = visitor[b].session
        /\ turned.rivals = visitor[b].rivals /\ turned.origin = visitor[b].origin
    BY <2>2 DEF Visitor
  <2> HIDE DEF turned
  <2>4. new \in Visitor /\ new.session = visitor[b].session
        /\ new.rivals = visitor[b].rivals /\ new.origin = visitor[b].origin
        /\ new.dest = Safe(visitor[b].dest)
    <3>1. visitor[b].dest \in Origins \cup {Profile}
      BY <1>1 DEF Visitor
    <3> QED
      BY <2>3, <3>1, SafeTwice DEF Visitor, Registered
  <2> HIDE DEF new
  <2>5. Safe(visitor[b].dest) = Safe(visitor[b].origin)
    BY <1>1, SafeTwice DEF Fits
  <2>6. Fits(b, new)
    BY <1>1, <2>4, <2>5 DEF Fits
  <2> QED
    BY <1>1, <2>1, <2>6, PageMoves
<1>3. CASE register[visitor[b].waits].pc # "created"
  <2>1. visitor' = [visitor EXCEPT ![b] = [@ EXCEPT !.waits = 0, !.error = "exists"]]
    BY <1>1, <1>3 DEF SignedUp
  <2> QED
    BY <1>1, <2>1, WaitsKeep
<1> QED
  BY <1>2, <1>3

LEMMA SignInKeeps ==
  ASSUME PagesInv, guests \in Seq(Account), NEW b \in Browsers, SignIn(b)
  PROVE  PagesInv'
<1> DEFINE own == {i \in Match(EmailOf[b]) : guests[i].password = b}
<1>1. /\ Fits(b, visitor[b]) /\ visitor[b] \in Visitor /\ visitor[b].at = "signIn"
      /\ visitor \in [Browsers -> Visitor] /\ guests' = guests
  BY FitsNow DEF PagesInv, SignIn, Ready
<1>2. CASE own = {}
  <2>1. visitor' = [visitor EXCEPT ![b] = [@ EXCEPT !.error = "credentials"]]
    BY <1>1, <1>2 DEF SignIn
  <2> QED
    BY <1>1, <2>1, WaitsKeep
<1>3. CASE own # {}
  <2> DEFINE mine == CHOOSE i \in own : TRUE
             to == Safe(visitor[b].dest)
             turned == [visitor[b] EXCEPT !.at = "page"]
             led == [turned EXCEPT !.dest = to]
             clean == [led EXCEPT !.error = "none"]
             in == [clean EXCEPT !.session = mine]
             new == [in EXCEPT !.rivals = Accounts(EmailOf[b]) \ own]
  <2>1. visitor' = [visitor EXCEPT ![b] = new]
    <3>1. visitor' = [visitor EXCEPT ![b] =
            [@ EXCEPT !.at = "page", !.dest = Safe(visitor[b].dest), !.error = "none",
                      !.session = mine, !.rivals = Accounts(EmailOf[b]) \ own]]
      BY <1>1, <1>3 DEF SignIn
    <3> HIDE DEF mine, own
    <3> QED
      BY <1>1, <3>1 DEF Visitor
  <2>2. mine \in own
    BY <1>3
  <2> HIDE DEF mine
  <2>3. /\ Accounts(EmailOf[b]) = {mine} /\ mine \in DOMAIN guests /\ guests[mine].password = b
    BY <2>2 DEF Match, Accounts
  <2>4. Accounts(EmailOf[b]) \ own = {} /\ mine \in Nat
    <3>1. Accounts(EmailOf[b]) \ own = {}
      BY <2>2, <2>3
    <3>2. DOMAIN guests \subseteq Nat
      OBVIOUS
    <3> QED
      BY <2>3, <3>1, <3>2
  <2> HIDE DEF own
  <2>5. to = Safe(visitor[b].origin) /\ to \in Origins \cup {Profile}
    <3>1. visitor[b].dest \in Origins \cup {Profile} /\ visitor[b].at # "page"
      BY <1>1 DEF Visitor
    <3> QED
      BY <1>1, <3>1, SafeTwice DEF Fits
  <2> HIDE DEF to
  <2>6. turned \in Visitor /\ turned.origin = visitor[b].origin
    BY <1>1 DEF Visitor
  <2> HIDE DEF turned
  <2>7. led \in Visitor /\ led.origin = visitor[b].origin /\ led.dest = to
    BY <2>5, <2>6 DEF Visitor
  <2> HIDE DEF led
  <2>8. clean \in Visitor /\ clean.origin = visitor[b].origin /\ clean.dest = to
    BY <2>7 DEF Visitor
  <2> HIDE DEF clean
  <2>9. in \in Visitor /\ in.origin = visitor[b].origin /\ in.dest = to /\ in.session = mine
    BY <2>4, <2>8 DEF Visitor
  <2> HIDE DEF in
  <2>10. new \in Visitor /\ new.origin = visitor[b].origin /\ new.dest = to
         /\ new.session = mine /\ new.rivals = {}
    BY <2>4, <2>9 DEF Visitor
  <2> HIDE DEF new
  <2>11. Fits(b, new)
    BY <2>3, <2>5, <2>10 DEF Fits
  <2> QED
    BY <1>1, <2>1, <2>11, PageMoves
<1> QED
  BY <1>2, <1>3

LEMMA SignOutKeeps ==
  ASSUME PagesInv, NEW b \in Browsers, SignOut(b)
  PROVE  PagesInv'
<1> DEFINE out == [visitor[b] EXCEPT !.session = 0]
           led == [out EXCEPT !.dest = Profile]
           from == [led EXCEPT !.origin = Profile]
           new == [from EXCEPT !.rivals = {}]
<1>1. /\ visitor[b] \in Visitor /\ visitor \in [Browsers -> Visitor] /\ guests' = guests
  BY DEF PagesInv, SignOut
<1>2. visitor' = [visitor EXCEPT ![b] = new]
  BY <1>1 DEF SignOut
<1>3. out \in Visitor /\ out.session = 0
  BY <1>1 DEF Visitor
<1> HIDE DEF out
<1>4. led \in Visitor /\ led.session = 0 /\ led.dest = Profile
  BY <1>3 DEF Visitor
<1> HIDE DEF led
<1>5. from \in Visitor /\ from.session = 0 /\ from.dest = Profile /\ from.origin = Profile
  BY <1>4 DEF Visitor
<1> HIDE DEF from
<1>6. new \in Visitor /\ new.session = 0 /\ new.dest = Profile /\ new.origin = Profile
  BY <1>5 DEF Visitor
<1> HIDE DEF new
<1>7. Fits(b, new)
  BY <1>6 DEF Fits, Safe
<1> QED
  BY <1>1, <1>2, <1>7, PageMoves

(* A registration that is sent is the visitor's own.                       *)
LEMMA SignUpKeeps ==
  ASSUME AccountsInv, NEW b \in Browsers, SignUp(b)
  PROVE  TableInv' /\ PagesInv'
<1>1. PICK r \in Registrations :
        /\ register[r].pc = "none"
        /\ register' = [register EXCEPT ![r].pc = "lock", ![r].browser = b]
        /\ visitor' = [visitor EXCEPT ![b].waits = r, ![b].error = "none"]
  BY DEF SignUp
<1>2. guests' = guests /\ locked' = locked
  BY DEF SignUp
<1>3. PagesInv'
  <2>1. visitor' = [visitor EXCEPT ![b] = [@ EXCEPT !.waits = r, !.error = "none"]]
    BY <1>1 DEF AccountsInv, PagesInv
  <2> QED
    BY <1>2, <2>1, WaitsKeep DEF AccountsInv
<1> DEFINE here == [register[r] EXCEPT !.pc = "lock"]
           new == [here EXCEPT !.browser = b]
<1>4. /\ register \in [Registrations -> Registration] /\ register[r] \in Registration
  BY DEF AccountsInv, TableInv
<1>5. register' = [register EXCEPT ![r] = new]
  BY <1>1, <1>4
<1>6. here \in Registration /\ here.pc = "lock"
  BY <1>4 DEF Registration
<1> HIDE DEF here
<1>7. new \in Registration /\ new.pc = "lock" /\ new.browser = b
  BY <1>6 DEF Registration
<1> HIDE DEF new
<1>8. /\ register' \in [Registrations -> Registration] /\ register'[r] = new
      /\ \A q \in Registrations \ {r} : register'[q] = register[q]
  BY <1>4, <1>5, <1>7
<1>9. \A q \in Registrations :
        /\ (register'[q]).pc # "none" => (register'[q]).browser \in Browsers
        /\ (register'[q]).pc \in {"check", "insert"} => Holder(q)'
        /\ (register'[q]).pc = "insert" => CheckHolds(q)'
  BY <1>2, <1>7, <1>8 DEF AccountsInv, TableInv, Holder, CheckHolds, Service
<1>10. guests' \in Seq(Account) /\ (\A i \in DOMAIN guests' : Row(i)') /\ AccountsApart'
  BY <1>2 DEF AccountsInv, TableInv, Row, AccountsApart, Service
<1>11. TableInv'
  BY <1>2, <1>8, <1>9, <1>10 DEF AccountsInv, TableInv
<1> QED
  BY <1>3, <1>11

LEMMA TableStays ==
  ASSUME TableInv, UNCHANGED <<guests, locked, register>>
  PROVE  TableInv'
BY DEF TableInv, Holder, CheckHolds, Row, Service, AccountsApart

LEMMA RegistrationKeeps ==
  ASSUME AccountsInv, NEW r \in Registrations, Lock(r) \/ Check(r) \/ Insert(r) \/ Stop(r)
  PROVE  AccountsInv'
<1>1. TableInv'
  BY LockKeeps, CheckKeeps, InsertKeeps, StopKeeps DEF AccountsInv
<1>2. visitor' = visitor /\ lost' \in {lost, lost + 1}
  BY DEF Lock, Check, Insert, Stop
<1>3. guests' = guests \/ \E new \in Account : guests' = Append(guests, new)
  <2>1. CASE Lock(r) \/ Check(r) \/ Stop(r)
    BY <2>1 DEF Lock, Check, Stop
  <2>2. CASE Insert(r)
    <3>1. register[r].pc = "insert"
      BY <2>2 DEF Insert
    <3>2. /\ register[r].browser \in Browsers /\ EmailOf[register[r].browser] \in Emails
          /\ register[r].saw \in Nat
      BY <3>1, HasEmail DEF AccountsInv, TableInv, Registration
    <3>3. [email |-> EmailOf[register[r].browser], normal |-> TRUE,
           password |-> register[r].browser, saw |-> register[r].saw] \in Account
      BY <3>2 DEF Account
    <3> QED
      BY <2>2, <3>3 DEF Insert
  <2> QED
    BY <2>1, <2>2
<1>4. PagesInv'
  BY <1>2, <1>3, PagesStay DEF AccountsInv, TableInv
<1> QED
  BY <1>1, <1>2, <1>4 DEF AccountsInv

LEMMA BrowserKeeps ==
  ASSUME AccountsInv, NEW b \in Browsers,
         \/ Visit(b) \/ ToSignUp(b) \/ ToSignIn(b) \/ SignUp(b)
         \/ SignedUp(b) \/ LostAnswer(b) \/ SignIn(b) \/ SignOut(b)
  PROVE  AccountsInv'
<1>1. lost' \in {lost, lost + 1}
  BY DEF Visit, ToSignUp, ToSignIn, SignUp, SignedUp, LostAnswer, SignIn, SignOut
<1>2. CASE SignUp(b)
  BY <1>1, <1>2, SignUpKeeps DEF AccountsInv
<1>3. CASE \/ Visit(b) \/ ToSignUp(b) \/ ToSignIn(b)
           \/ SignedUp(b) \/ LostAnswer(b) \/ SignIn(b) \/ SignOut(b)
  <2>1. UNCHANGED <<guests, locked, register>>
    BY <1>3 DEF Visit, ToSignUp, ToSignIn, SignedUp, LostAnswer, SignIn, SignOut
  <2>2. TableInv'
    BY <2>1, TableStays DEF AccountsInv
  <2>3. PagesInv /\ guests \in Seq(Account)
    BY DEF AccountsInv, TableInv
  <2>4. CASE Visit(b) \/ SignedUp(b) \/ SignIn(b) \/ SignOut(b)
    <3>1. PagesInv'
      BY <2>3, <2>4, VisitKeeps, SignedUpKeeps, SignInKeeps, SignOutKeeps
    <3> QED
      BY <1>1, <2>2, <3>1 DEF AccountsInv
  <2>5. CASE ToSignUp(b) \/ ToSignIn(b)
    <3>1. visitor[b].at # "page" /\ \E at \in {"signIn", "signUp"} :
            Goes(b, at, Safe(visitor[b].dest))
      BY <2>5 DEF ToSignUp, ToSignIn, Ready
    <3>2. PagesInv'
      BY <2>1, <2>3, <3>1, GoesKeeps
    <3> QED
      BY <1>1, <2>2, <3>2 DEF AccountsInv
  <2>6. CASE LostAnswer(b)
    <3>1. visitor' = [visitor EXCEPT ![b] = [@ EXCEPT !.waits = 0, !.error = "unavailable"]]
      BY <2>3, <2>6 DEF LostAnswer, PagesInv
    <3>2. PagesInv'
      BY <2>1, <2>3, <3>1, WaitsKeep
    <3> QED
      BY <1>1, <2>2, <3>2 DEF AccountsInv
  <2> QED
    BY <1>3, <2>4, <2>5, <2>6
<1> QED
  BY <1>2, <1>3

LEMMA OutsideKeepsAll == AccountsInv /\ Outside => AccountsInv'
<1> SUFFICES ASSUME AccountsInv, Outside PROVE AccountsInv'
  OBVIOUS
<1>1. TableInv'
  BY OutsideKeeps DEF AccountsInv
<1>2. PICK b \in Browsers, normal \in BOOLEAN :
        guests' = Append(guests, [email |-> EmailOf[b], normal |-> normal,
                                  password |-> Nobody, saw |-> Len(guests)])
  BY DEF Outside
<1>3. [email |-> EmailOf[b], normal |-> normal, password |-> Nobody, saw |-> Len(guests)]
        \in Account
  <2>1. Len(guests) \in Nat
    BY DEF AccountsInv, TableInv
  <2> QED
    BY <2>1 DEF Account, Emails
<1>4. visitor' = visitor /\ lost' = lost
  BY DEF Outside
<1>5. PagesInv'
  BY <1>2, <1>3, <1>4, PagesStay DEF AccountsInv, TableInv
<1> QED
  BY <1>1, <1>4, <1>5 DEF AccountsInv

LEMMA NextAccounts == AccountsInv /\ [AccountsNext]_accountVars => AccountsInv'
<1> SUFFICES ASSUME AccountsInv, [AccountsNext]_accountVars PROVE AccountsInv'
  OBVIOUS
<1>1. CASE UNCHANGED accountVars
  <2>1. UNCHANGED <<guests, locked, register, visitor, lost>>
    BY <1>1 DEF accountVars
  <2>2. TableInv' /\ PagesInv'
    BY <2>1, TableStays, PagesStay DEF AccountsInv, TableInv
  <2> QED
    BY <2>1, <2>2 DEF AccountsInv
<1>2. CASE AccountsNext
  BY <1>2, RegistrationKeeps, BrowserKeeps, OutsideKeepsAll DEF AccountsNext
<1> QED
  BY <1>1, <1>2

(* A registration that checked while no account of its email was there     *)
(* makes the only one of the website, with or without the table's          *)
(* constraint; nobody has a session of another one's account, or of an     *)
(* email that was another one's too; and every way through sign-in and     *)
(* sign-up leads back to where the guest wanted to go.                     *)
THEOREM AccountsAreSafe == AccountsSpec => []AccountsSafe
<1>1. AccountsInit => AccountsInv
  BY InitAccounts
<1>2. AccountsInv /\ [AccountsNext]_accountVars => AccountsInv'
  BY NextAccounts
<1>3. AccountsInv => AccountsSafe
  BY AccountsInvIsSafe
<1> QED
  BY <1>1, <1>2, <1>3, PTL DEF AccountsSpec

-----------------------------------------------------------------------------
(* The search.  Counts are honest to a search when each is unknown, zero   *)
(* or one the server had since the last press, and nothing is counted that *)
(* cannot sleep the guests.                                                *)
Honest(counts, s) ==
  \A t \in DOMAIN counts :
    /\ TooSmall(t, s) => counts[t] = 0
    /\ counts[t] \in {Unknown, Waiting, 0} \cup had[t]

LoadOf == [form : Forms \cup {Nil}, aborted : BOOLEAN, got : Counts]

(* The requests of an earlier press are aborted, those of the last one are *)
(* about what is still wanted.                                             *)
Abandoned(n) == load[n] = NoLoad \/ load[n].aborted

LoadsInv ==
  /\ \A n \in Numbers : n > retry => load[n] = NoLoad
  /\ \A n \in Numbers : n < retry => Abandoned(n)
  /\ \/ Abandoned(retry)
     \/ /\ submitted # Nil /\ load[retry].form = submitted
        /\ Honest(load[retry].got, submitted)

(* What was shown for the last press is honest to it, while it is wanted.  *)
ResultInv ==
  result # Nil =>
    /\ result.key[2] <= retry
    /\ \A t \in DOMAIN result.counts : result.counts[t] # Waiting
    /\ submitted # Nil /\ result.key[2] = retry => Honest(result.counts, submitted)

(* The history has what the server says now.                               *)
HadInv ==
  /\ had \in [Types -> SUBSET (0 .. MaxFree)]
  /\ submitted # Nil => \A t \in Types : free[<<t, submitted.stay>>] \in had[t]

SearchInv ==
  SearchTypeOK /\ load \in [Numbers -> LoadOf] /\ LoadsInv /\ ResultInv /\ HadInv

LEMMA SearchInvIsHonest == SearchInv => SearchHonest
<1> SUFFICES ASSUME SearchInv PROVE LinksFresh
  BY DEF SearchInv, SearchHonest
<1> SUFFICES ASSUME NEW t \in Links
             PROVE  (\E k \in had[t] : k > 0) /\ ~TooSmall(t, submitted)
  BY DEF LinksFresh
<1>1. /\ Current /\ t \in DOMAIN result.counts /\ t \in Types
      /\ result.counts[t] \notin {Unknown, 0}
  BY DEF Links, Display, Chosen, Confirmed
<1>2. submitted # Nil /\ result # Nil /\ result.key[2] = retry
  BY <1>1 DEF Current, Key
<1>3. result.counts[t] \in had[t] /\ ~TooSmall(t, submitted)
  BY <1>1, <1>2 DEF SearchInv, ResultInv, Honest
<1>4. result.counts[t] \in 0 .. MaxFree
  BY <1>1, <1>3 DEF SearchInv, HadInv
<1> QED
  BY <1>1, <1>3, <1>4

LEMMA NoLoadIs == NoLoad \in LoadOf /\ NoLoad.got = [t \in {} |-> 0] /\ DOMAIN NoLoad.got = {}
<1>1. [t \in {} |-> 0] \in Counts
  <2>1. [t \in {} |-> 0] \in [{} -> 0 .. MaxFree \cup {Unknown, Waiting}]
    OBVIOUS
  <2> QED
    BY <2>1 DEF Counts
<1> QED
  BY <1>1 DEF NoLoad, LoadOf

(* A search that is sent asks only of rooms that sleep the guests.         *)
LEMMA SentIs ==
  ASSUME NEW s \in Forms
  PROVE  /\ Sent(s) \in LoadOf /\ Sent(s).form = s /\ Honest(Sent(s).got, s)
<1> DEFINE asked == [t \in Chosen(s) |-> IF TooSmall(t, s) THEN 0 ELSE Waiting]
<1>1. /\ asked \in [Chosen(s) -> 0 .. MaxFree \cup {Unknown, Waiting}]
      /\ Chosen(s) \in SUBSET Types
  BY SearchAssumption DEF Chosen
<1>2. asked \in Counts
  BY <1>1 DEF Counts
<1>3. /\ DOMAIN asked = Chosen(s)
      /\ \A t \in Chosen(s) : asked[t] = IF TooSmall(t, s) THEN 0 ELSE Waiting
  OBVIOUS
<1>4. Sent(s) = [form |-> s, aborted |-> FALSE, got |-> asked]
  BY DEF Sent
<1> HIDE DEF asked
<1>5. Sent(s) \in LoadOf /\ Sent(s).form = s /\ Sent(s).got = asked
  BY <1>2, <1>4 DEF LoadOf
<1>6. Honest(asked, s)
  BY <1>3 DEF Honest
<1> QED
  BY <1>5, <1>6

LEMMA AbortedIs ==
  ASSUME NEW l \in LoadOf
  PROVE  Aborted(l) \in LoadOf /\ (Aborted(l) = NoLoad \/ Aborted(l).aborted)
<1>1. CASE l = NoLoad
  BY <1>1 DEF Aborted
<1>2. CASE l # NoLoad
  <2>1. Aborted(l) = [l EXCEPT !.aborted = TRUE]
    BY <1>2 DEF Aborted
  <2> QED
    BY <2>1 DEF LoadOf
<1> QED
  BY <1>1, <1>2

LEMMA HistoryIs ==
  ASSUME SearchTypeOK, NEW s \in Forms, s.stay \in Dates
  PROVE  /\ CountsOf(s) \in [Types -> SUBSET (0 .. MaxFree)]
         /\ \A t \in Types : free[<<t, s.stay>>] \in CountsOf(s)[t]
<1>1. \A t \in Types : free[<<t, s.stay>>] \in 0 .. MaxFree
  BY DEF SearchTypeOK
<1>2. CASE s # Nil
  <2>1. CountsOf(s) = [t \in Types |-> {free[<<t, s.stay>>]}]
    BY <1>2 DEF CountsOf
  <2> QED
    BY <1>1, <2>1
<1> QED
  BY <1>2, SearchAssumption

LEMMA InitSearch == SearchInit => SearchInv
<1> SUFFICES ASSUME SearchInit PROVE SearchInv
  OBVIOUS
<1>1. /\ search \in Forms /\ retry = 0 /\ result = Nil
      /\ free \in [Types \X Dates -> 0..MaxFree]
      /\ 0 \in Numbers
  BY SearchAssumption DEF SearchInit, Numbers
<1>2. submitted # Nil => /\ submitted = search /\ submitted \in Forms
                         /\ submitted.stay \in Dates /\ submitted.guests > 0
                         /\ ValidStay(search)
  BY <1>1 DEF SearchInit, ValidStay, Forms
<1>3. /\ load \in [Numbers -> LoadOf]
      /\ load[0] = IF ValidStay(search) THEN Sent(search) ELSE NoLoad
      /\ \A n \in Numbers : n > 0 => load[n] = NoLoad
  BY <1>1, SentIs, NoLoadIs DEF SearchInit, Numbers
<1>4. SearchTypeOK
  BY <1>1, <1>2, <1>3 DEF SearchTypeOK, LoadOf
<1>5. HadInv
  <2>1. CASE submitted = Nil
    BY <2>1 DEF SearchInit, CountsOf, HadInv
  <2>2. CASE submitted # Nil
    BY <1>2, <1>4, <2>2, HistoryIs DEF SearchInit, HadInv
  <2> QED
    BY <2>1, <2>2
<1>6. LoadsInv
  <2>1. Abandoned(0) \/ /\ submitted # Nil /\ load[0].form = submitted
                        /\ Honest(load[0].got, submitted)
    <3>1. CASE ValidStay(search)
      <4>1. submitted = search /\ load[0] = Sent(search)
        BY <1>3, <3>1 DEF SearchInit
      <4>2. search # Nil
        BY <1>1, SearchAssumption
      <4> QED
        BY <1>1, <4>1, <4>2, SentIs
    <3>2. CASE ~ValidStay(search)
      BY <1>3, <3>2 DEF Abandoned
    <3> QED
      BY <3>1, <3>2
  <2>2. \A n \in Numbers : ~(n < 0)
    BY SearchAssumption DEF Numbers
  <2> QED
    BY <1>1, <1>3, <2>1, <2>2 DEF LoadsInv, Abandoned, Honest
<1>7. ResultInv
  BY <1>1 DEF ResultInv
<1> QED
  BY <1>3, <1>4, <1>5, <1>6, <1>7 DEF SearchInv

(* Editing the form leaves the search before; nothing is wanted then.      *)
LEMMA LeftLoad ==
  ASSUME SearchInv, NEW n \in Numbers, NEW l \in LoadOf, n # retry,
         load' = [load EXCEPT ![retry] = Aborted(@), ![n] = l]
  PROVE  /\ load' \in [Numbers -> LoadOf] /\ load'[n] = l
         /\ load'[retry] = NoLoad \/ (load'[retry]).aborted
         /\ \A m \in Numbers \ {retry, n} : load'[m] = load[m]
<1>1. retry \in Numbers /\ load \in [Numbers -> LoadOf] /\ load[retry] \in LoadOf
  BY DEF SearchInv, SearchTypeOK
<1> DEFINE left == Aborted(load[retry])
<1>2. left \in LoadOf /\ (left = NoLoad \/ left.aborted)
  BY <1>1, AbortedIs
<1>3. load' = [[load EXCEPT ![retry] = left] EXCEPT ![n] = l]
  BY <1>1
<1> HIDE DEF left
<1> QED
  BY <1>1, <1>2, <1>3

LEMMA LeaveKeeps ==
  ASSUME SearchInv, Leave, search' \in Forms, UNCHANGED <<retry, result, free>>
  PROVE  SearchInv'
<1>1. retry \in Numbers /\ load \in [Numbers -> LoadOf] /\ load[retry] \in LoadOf
  BY DEF SearchInv, SearchTypeOK
<1> DEFINE left == Aborted(load[retry])
<1>2. left \in LoadOf /\ (left = NoLoad \/ left.aborted)
  BY <1>1, AbortedIs
<1>3. load' = [load EXCEPT ![retry] = left] /\ submitted' = Nil /\ had' = CountsOf(Nil)
  BY <1>1 DEF Leave
<1> HIDE DEF left
<1>4. /\ load' \in [Numbers -> LoadOf] /\ load'[retry] = left
      /\ \A n \in Numbers \ {retry} : load'[n] = load[n]
  BY <1>1, <1>2, <1>3
<1>5. SearchTypeOK'
  BY <1>3, <1>4 DEF SearchInv, SearchTypeOK, LoadOf
<1>6. LoadsInv'
  <2>1. \A n \in Numbers : n > retry => n # retry
    BY <1>1, SearchAssumption DEF Numbers
  <2>2. \A n \in Numbers : n > retry => load'[n] = NoLoad
    BY <1>4, <2>1 DEF SearchInv, LoadsInv
  <2>3. \A n \in Numbers : Abandoned(n) \/ n = retry => Abandoned(n)'
    BY <1>2, <1>4 DEF Abandoned
  <2> QED
    BY <1>1, <2>2, <2>3 DEF SearchInv, LoadsInv, Abandoned, Honest
<1>7. ResultInv'
  BY <1>3 DEF SearchInv, ResultInv
<1>8. HadInv'
  BY <1>3 DEF HadInv, CountsOf
<1> QED
  BY <1>4, <1>5, <1>6, <1>7, <1>8 DEF SearchInv

LEMMA EditKeeps == SearchInv /\ Edit => SearchInv'
<1> SUFFICES ASSUME SearchInv, Edit PROVE SearchInv'
  OBVIOUS
<1>1. search \in Forms
  BY DEF SearchInv, SearchTypeOK
<1>2. search' \in Forms
  BY <1>1 DEF Edit, Forms
<1>3. Leave /\ UNCHANGED <<retry, result, free>>
  BY DEF Edit
<1> QED
  BY <1>2, <1>3, LeaveKeeps

(* A press leaves the search before and counts anew.                       *)
LEMMA PressKeeps ==
  ASSUME SearchInv, NEW s \in Forms, s.stay \in Dates, s.guests > 0, retry < MaxPresses,
         AskFor(s, retry + 1), UNCHANGED <<search, result, free>>
  PROVE  SearchInv'
<1> DEFINE n == retry + 1
<1>1. retry \in Nat /\ n \in Numbers /\ n # retry
  BY SearchAssumption DEF SearchInv, SearchTypeOK, Numbers
<1>2. submitted' = s /\ retry' = n /\ had' = CountsOf(s)
  BY DEF AskFor
<1>3. Sent(s) \in LoadOf /\ Sent(s).form = s
  BY SentIs
<1>4. /\ load' \in [Numbers -> LoadOf] /\ load'[n] = Sent(s)
      /\ load'[retry] = NoLoad \/ (load'[retry]).aborted
      /\ \A m \in Numbers \ {retry, n} : load'[m] = load[m]
  BY <1>1, <1>3, LeftLoad DEF AskFor
<1>5. s # Nil
  BY SearchAssumption
<1>6. SearchTypeOK'
  BY <1>1, <1>2, <1>4, <1>5 DEF SearchInv, SearchTypeOK, LoadOf
<1>7. Honest(Sent(s).got, s)'
  <2>1. \A t \in DOMAIN Sent(s).got :
          /\ TooSmall(t, s) => Sent(s).got[t] = 0
          /\ Sent(s).got[t] \in {Waiting, 0}
    BY DEF Sent
  <2> QED
    BY <2>1 DEF Honest, Sent, TooSmall, Chosen
<1>8. LoadsInv'
  <2>1. \A m \in Numbers : m > n => load'[m] = NoLoad
    BY <1>1, <1>4, SearchAssumption DEF SearchInv, LoadsInv, Numbers
  <2>2. \A m \in Numbers : m < n => Abandoned(m)'
    BY <1>1, <1>4, SearchAssumption DEF SearchInv, LoadsInv, Abandoned, Numbers
  <2>3. Honest(load[retry].got, submitted)'
    BY <1>2, <1>4, <1>7 DEF Honest
  <2> QED
    BY <1>2, <1>3, <1>4, <1>5, <2>1, <2>2, <2>3 DEF LoadsInv
<1>9. ResultInv'
  BY <1>1, <1>2 DEF SearchInv, SearchTypeOK, ResultInv, Numbers
<1>10. HadInv'
  BY <1>2, <1>5, HistoryIs DEF SearchInv, HadInv
<1> QED
  BY <1>4, <1>6, <1>8, <1>9, <1>10 DEF SearchInv

LEMMA SubmitKeeps == SearchInv /\ SubmitSearch => SearchInv'
<1> SUFFICES ASSUME SearchInv, SubmitSearch PROVE SearchInv'
  OBVIOUS
<1>1. retry \in Nat /\ search \in Forms
  BY SearchAssumption DEF SearchInv, SearchTypeOK, Numbers
<1>2. retry < MaxPresses /\ search.stay \in Dates /\ search.guests > 0
  BY <1>1, SearchAssumption DEF SubmitSearch, Pressed, ValidStay, Forms
<1> QED
  BY <1>1, <1>2, PressKeeps DEF SubmitSearch, Pressed

LEMMA RetryKeepsSearch == SearchInv /\ RetrySearch => SearchInv'
<1> SUFFICES ASSUME SearchInv, RetrySearch PROVE SearchInv'
  OBVIOUS
<1>1. submitted \in Forms /\ submitted.stay \in Dates /\ submitted.guests > 0
  BY DEF RetrySearch, Current, SearchInv, SearchTypeOK
<1> QED
  BY <1>1, PressKeeps DEF RetrySearch

LEMMA AnswerKeeps ==
  ASSUME SearchInv, NEW n \in Numbers, NEW t \in Types, AnswerCount(n, t)
  PROVE  SearchInv'
<1>1. PICK a \in {Unknown} \cup CountOf(load[n], t) : load' = [load EXCEPT ![n].got[t] = a]
  BY DEF AnswerCount
<1>2. /\ t \in DOMAIN load[n].got /\ load[n].got[t] = Waiting
      /\ UNCHANGED <<search, submitted, retry, result, free, had>>
  BY DEF AnswerCount
<1>3. load \in [Numbers -> LoadOf] /\ load[n] \in LoadOf
  BY DEF SearchInv
<1>4. load[n] # NoLoad
  BY <1>2, NoLoadIs
<1>5. \/ load[n].aborted /\ a = Unknown
      \/ /\ n = retry /\ submitted # Nil /\ load[n].form = submitted
         /\ Honest(load[n].got, submitted) /\ a \in {Unknown, free[<<t, submitted.stay>>]}
  <2>1. CASE load[n].aborted
    BY <2>1 DEF CountOf
  <2>2. CASE ~load[n].aborted
    <3>1. n = retry
      BY <1>4, <2>2, SearchAssumption
        DEF SearchInv, SearchTypeOK, LoadsInv, Abandoned, Numbers
    <3>2. /\ submitted # Nil /\ load[n].form = submitted
          /\ Honest(load[n].got, submitted)
      BY <1>4, <2>2, <3>1 DEF SearchInv, LoadsInv, Abandoned
    <3> QED
      BY <2>2, <3>1, <3>2 DEF CountOf
  <2> QED
    BY <2>1, <2>2
<1>6. a \in 0 .. MaxFree \cup {Unknown, Waiting}
  BY <1>5 DEF SearchInv, SearchTypeOK
<1> DEFINE got == [load[n].got EXCEPT ![t] = a]
           new == [load[n] EXCEPT !.got = got]
<1>7. load' = [load EXCEPT ![n] = new]
  BY <1>1, <1>3
<1>8. got \in Counts /\ DOMAIN got = DOMAIN load[n].got /\ got[t] = a
      /\ \A u \in DOMAIN got \ {t} : got[u] = load[n].got[u]
  <2>1. load[n].got \in Counts
    BY <1>3 DEF LoadOf
  <2>2. PICK T \in SUBSET Types :
          load[n].got \in [T -> 0 .. MaxFree \cup {Unknown, Waiting}]
    BY <2>1 DEF Counts
  <2>3. got \in [T -> 0 .. MaxFree \cup {Unknown, Waiting}]
    BY <1>6, <2>2
  <2> QED
    BY <1>2, <2>2, <2>3 DEF Counts
<1> HIDE DEF got
<1>9. new \in LoadOf /\ new.form = load[n].form /\ new.aborted = load[n].aborted
      /\ new.got = got
  BY <1>3, <1>8 DEF LoadOf
<1> HIDE DEF new
<1>10. /\ load' \in [Numbers -> LoadOf] /\ load'[n] = new
       /\ \A m \in Numbers \ {n} : load'[m] = load[m]
  BY <1>3, <1>7, <1>9
<1>11. SearchTypeOK'
  BY <1>2, <1>10 DEF SearchInv, SearchTypeOK, LoadOf
<1>12. ResultInv' /\ HadInv'
  BY <1>2 DEF SearchInv, ResultInv, HadInv, Honest
<1>13. LoadsInv'
  <2>1. retry \in Numbers
    BY DEF SearchInv, SearchTypeOK
  <2>2. n <= retry
    BY <1>4, SearchAssumption, <2>1 DEF SearchInv, LoadsInv, Numbers
  <2>3. \A m \in Numbers : m > retry => load'[m] = NoLoad
    BY <1>10, <2>1, <2>2, SearchAssumption DEF SearchInv, LoadsInv, Numbers
  <2>4. CASE load[n].aborted
    <3>1. \A m \in Numbers : Abandoned(m) => Abandoned(m)'
      BY <1>9, <1>10, <2>4 DEF Abandoned
    <3>2. n # retry => UNCHANGED load[retry]
      BY <1>2, <1>10, <2>1
    <3>3. n = retry => Abandoned(retry)'
      BY <1>2, <1>9, <1>10, <2>4 DEF Abandoned
    <3> QED
      BY <1>2, <2>3, <3>1, <3>2, <3>3 DEF SearchInv, LoadsInv, Abandoned, Honest
  <2>5. CASE ~load[n].aborted
    <3>1. /\ n = retry /\ submitted # Nil /\ load[n].form = submitted
          /\ Honest(load[n].got, submitted) /\ a \in {Unknown, free[<<t, submitted.stay>>]}
      BY <1>5, <2>5
    <3>2. ~TooSmall(t, submitted)
      BY <1>2, <3>1, SearchAssumption DEF Honest
    <3>3. a \in {Unknown} \cup had[t]
      BY <3>1 DEF SearchInv, HadInv
    <3>4. Honest(got, submitted)
      BY <1>8, <3>1, <3>2, <3>3 DEF Honest
    <3>5. /\ submitted' # Nil /\ (load'[retry]).form = submitted'
          /\ Honest(load[retry].got, submitted)'
      BY <1>2, <1>9, <1>10, <3>1, <3>4 DEF Honest
    <3>6. \A m \in Numbers : m < retry => Abandoned(m)'
      BY <1>10, <2>1, <3>1, SearchAssumption DEF SearchInv, LoadsInv, Abandoned, Numbers
    <3> QED
      BY <1>2, <2>3, <3>5, <3>6 DEF LoadsInv
  <2> QED
    BY <2>4, <2>5
<1> QED
  BY <1>10, <1>11, <1>12, <1>13 DEF SearchInv

LEMMA ShowKeeps ==
  ASSUME SearchInv, NEW n \in Numbers, Show(n)
  PROVE  SearchInv'
<1>1. /\ load[n] # NoLoad /\ \A t \in DOMAIN load[n].got : load[n].got[t] # Waiting
      /\ load' = [load EXCEPT ![n] = NoLoad]
      /\ UNCHANGED <<search, submitted, retry, free, had>>
  BY DEF Show
<1>2. load \in [Numbers -> LoadOf] /\ load[n] \in LoadOf /\ retry \in Numbers
  BY DEF SearchInv, SearchTypeOK
<1>3. /\ load' \in [Numbers -> LoadOf] /\ load'[n] = NoLoad
      /\ \A m \in Numbers \ {n} : load'[m] = load[m]
  BY <1>1, <1>2, NoLoadIs
<1>4. LoadsInv'
  <2>1. \A m \in Numbers : Abandoned(m) => Abandoned(m)'
    BY <1>3 DEF Abandoned
  <2>2. n # retry => UNCHANGED load[retry]
    BY <1>1, <1>2, <1>3
  <2>3. n = retry => Abandoned(retry)'
    BY <1>1, <1>3 DEF Abandoned
  <2> QED
    BY <1>1, <1>3, <2>1, <2>2, <2>3 DEF SearchInv, LoadsInv, Abandoned, Honest
<1>5. HadInv'
  BY <1>1 DEF SearchInv, HadInv
<1>6. CASE load[n].aborted
  <2>1. result' = result
    BY <1>6 DEF Show, Wanted
  <2>2. SearchTypeOK'
    BY <1>1, <1>3, <2>1 DEF SearchInv, SearchTypeOK, LoadOf
  <2>3. ResultInv'
    BY <1>1, <2>1 DEF SearchInv, ResultInv, Honest
  <2> QED
    BY <1>3, <1>4, <1>5, <2>2, <2>3 DEF SearchInv
<1>7. CASE ~load[n].aborted
  <2>1. result' = [key |-> Key(load[n].form, n), counts |-> load[n].got]
    BY <1>7 DEF Show, Wanted
  <2>2. n = retry
    BY <1>1, <1>2, <1>7, SearchAssumption DEF SearchInv, LoadsInv, Abandoned, Numbers
  <2>3. Honest(load[n].got, submitted)
    BY <1>1, <1>7, <2>2 DEF SearchInv, LoadsInv, Abandoned
  <2>4. (result').key[2] = n /\ (result').counts = load[n].got
    BY <2>1 DEF Key
  <2>5. load[n].got \in Counts
    BY <1>2 DEF LoadOf
  <2>6. SearchTypeOK'
    BY <1>1, <1>3, <2>4, <2>5 DEF SearchInv, SearchTypeOK, LoadOf
  <2>7. ResultInv'
    <3>1. Honest(result.counts, submitted)'
      BY <1>1, <2>3, <2>4 DEF Honest
    <3>2. n <= retry
      BY <2>2, SearchAssumption DEF Numbers
    <3> QED
      BY <1>1, <2>4, <3>1, <3>2 DEF ResultInv
  <2> QED
    BY <1>3, <1>4, <1>5, <2>6, <2>7 DEF SearchInv
<1> QED
  BY <1>6, <1>7

LEMMA SellKeeps ==
  ASSUME SearchInv, NEW t \in Types, NEW s \in Dates, Sell(t, s)
  PROVE  SearchInv'
<1>1. PICK k \in 0 .. MaxFree :
        /\ free' = [free EXCEPT ![<<t, s>>] = k]
        /\ had' = IF submitted # Nil /\ submitted.stay = s
                  THEN [had EXCEPT ![t] = @ \cup {k}] ELSE had
  BY DEF Sell
<1>2. UNCHANGED <<search, submitted, retry, result, load>>
  BY DEF Sell
<1>3. /\ free' \in [Types \X Dates -> 0 .. MaxFree]
      /\ free'[<<t, s>>] = k
      /\ \A u \in Types, d \in Dates : <<u, d>> # <<t, s>> => free'[<<u, d>>] = free[<<u, d>>]
  BY <1>1 DEF SearchInv, SearchTypeOK
<1>4. /\ had' \in [Types -> SUBSET (0 .. MaxFree)]
      /\ \A u \in Types : had[u] \subseteq had'[u]
      /\ submitted # Nil /\ submitted.stay = s => k \in had'[t]
  <2>1. had \in [Types -> SUBSET (0 .. MaxFree)] /\ had[t] \cup {k} \in SUBSET (0 .. MaxFree)
    BY DEF SearchInv, HadInv
  <2>2. CASE submitted # Nil /\ submitted.stay = s
    <3>1. had' = [had EXCEPT ![t] = had[t] \cup {k}]
      BY <1>1, <2>1, <2>2
    <3> QED
      BY <2>1, <3>1
  <2>3. CASE ~(submitted # Nil /\ submitted.stay = s)
    BY <1>1, <2>1, <2>3
  <2> QED
    BY <2>2, <2>3
<1>5. SearchTypeOK'
  BY <1>2, <1>3 DEF SearchInv, SearchTypeOK
<1>6. HadInv'
  <2> SUFFICES ASSUME submitted # Nil, NEW u \in Types
               PROVE  free'[<<u, submitted.stay>>] \in had'[u]
    BY <1>2, <1>4 DEF HadInv
  <2>1. submitted.stay \in Dates /\ free[<<u, submitted.stay>>] \in had[u]
    BY DEF SearchInv, SearchTypeOK, HadInv
  <2>2. CASE u = t /\ submitted.stay = s
    BY <1>3, <1>4, <2>2
  <2>3. CASE ~(u = t /\ submitted.stay = s)
    <3>1. <<u, submitted.stay>> # <<t, s>>
      BY <2>3
    <3> QED
      BY <1>3, <1>4, <2>1, <3>1
  <2> QED
    BY <2>2, <2>3
<1>7. ASSUME NEW counts, NEW form, DOMAIN counts \subseteq Types, Honest(counts, form)
      PROVE  \A u \in DOMAIN counts :
               /\ TooSmall(u, form) => counts[u] = 0
               /\ counts[u] \in {Unknown, Waiting, 0} \cup had'[u]
  BY <1>4, <1>7 DEF Honest
<1>8. LoadsInv'
  <2>1. retry \in Numbers /\ DOMAIN load[retry].got \subseteq Types
    BY DEF SearchInv, SearchTypeOK, Counts
  <2> QED
    BY <1>2, <1>7, <2>1 DEF SearchInv, LoadsInv, Abandoned, Honest
<1>9. ResultInv'
  <2>1. result # Nil => DOMAIN result.counts \subseteq Types
    BY DEF SearchInv, SearchTypeOK, Counts
  <2> QED
    BY <1>2, <1>7, <2>1 DEF SearchInv, ResultInv, Honest
<1> QED
  BY <1>2, <1>5, <1>6, <1>8, <1>9 DEF SearchInv

LEMMA NextSearch == SearchInv /\ [SearchNext]_searchVars => SearchInv'
<1> SUFFICES ASSUME SearchInv, [SearchNext]_searchVars PROVE SearchInv'
  OBVIOUS
<1>1. CASE UNCHANGED searchVars
  BY <1>1 DEF searchVars, SearchInv, SearchTypeOK, LoadsInv, Abandoned, ResultInv, HadInv,
              Honest
<1>2. CASE SearchNext
  BY <1>2, EditKeeps, SubmitKeeps, RetryKeepsSearch, AnswerKeeps, ShowKeeps, SellKeeps
    DEF SearchNext
<1> QED
  BY <1>1, <1>2

(* A booking link is of the last press: the server had a free room of that *)
(* type for just those dates since then, and it sleeps the guests, in      *)
(* whatever order answers come, late ones of earlier searches included.    *)
THEOREM SearchIsHonest == SearchSpec => []SearchHonest
<1>1. SearchInit => SearchInv
  BY InitSearch
<1>2. SearchInv /\ [SearchNext]_searchVars => SearchInv'
  BY NextSearch
<1>3. SearchInv => SearchHonest
  BY SearchInvIsHonest
<1> QED
  BY <1>1, <1>2, <1>3, PTL DEF SearchSpec

=============================================================================
