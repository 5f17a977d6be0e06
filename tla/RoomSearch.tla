----------------------------- MODULE RoomSearch -----------------------------
(***************************************************************************)
(* The availability search of one page: a form, the searches it sent, and  *)
(* the counts and booking links shown.  A search asks the server once for  *)
(* each room type, and its answers come back in any order, also after the  *)
(* guest has edited the form or searched again.                            *)
(***************************************************************************)
EXTENDS Naturals

CONSTANTS
  Types,        \* room types
  Capacity,     \* guests a room of each type sleeps
  Dates,        \* valid date ranges
  Parties,      \* guest counts a form may hold; 0 is not a valid one
  MaxFree,      \* bound: rooms of a type
  MaxPresses,   \* bound: searches and retries
  All, Nil, Unknown, Waiting   \* no type, no stay, no counts

VARIABLES
  search,       \* the form
  submitted,    \* the search whose results are wanted
  retry,        \* the number of the last search or retry
  result,       \* the last set of answers, under the key of its search
  load,         \* the requests of each number
  free,         \* the server's count for each type and stay
  had           \* history: the counts of the submitted stay since the last press

searchVars == <<search, submitted, retry, result, load, free, had>>

Forms == [type : Types \cup {All}, stay : Dates \cup {Nil}, guests : Parties]

ASSUME SearchAssumption ==
  MaxPresses \in Nat /\ MaxFree \in Nat /\ Waiting # 0 /\ Nil \notin Forms

ValidStay(s) == s.stay # Nil /\ s.guests > 0

Chosen(s) == {t \in Types : s.type \in {All, t}}

TooSmall(t, s) == Capacity[t] < s.guests

NoLoad == [form |-> Nil, aborted |-> FALSE, got |-> [t \in {} |-> 0]]

(* A search asks nothing of a type that cannot sleep the guests.           *)
Sent(s) ==
  [form |-> s, aborted |-> FALSE,
   got |-> [t \in Chosen(s) |-> IF TooSmall(t, s) THEN 0 ELSE Waiting]]

Aborted(l) == IF l = NoLoad THEN l ELSE [l EXCEPT !.aborted = TRUE]

Key(s, n) == <<s, n>>

(* The counts of the wanted stay so far.                                   *)
CountsOf(s) == [t \in Types |-> IF s = Nil THEN {} ELSE {free[<<t, s.stay>>]}]

(* The effect of the page: leave the search before, ask for the next.      *)
AskFor(s, n) ==
  /\ submitted' = s /\ retry' = n
  /\ load' = [load EXCEPT ![retry] = Aborted(@), ![n] = Sent(s)]
  /\ had' = CountsOf(s)

Leave ==
  /\ submitted' = Nil /\ had' = CountsOf(Nil)
  /\ load' = [load EXCEPT ![retry] = Aborted(@)]

SearchInit ==
  /\ search \in Forms
  /\ submitted = IF ValidStay(search) THEN search ELSE Nil
  /\ retry = 0 /\ result = Nil
  /\ load = [n \in 0..MaxPresses |->
               IF n = 0 /\ ValidStay(search) THEN Sent(search) ELSE NoLoad]
  /\ free \in [Types \X Dates -> 0..MaxFree]
  /\ had = CountsOf(submitted)

-----------------------------------------------------------------------------
(* What is shown.                                                          *)

(* A likely slip: the last answers are shown, whatever they answer.        *)
Current_Last == submitted # Nil /\ result # Nil

Current ==
  submitted # Nil /\ result # Nil /\ result.key = Key(submitted, retry)

Display == Chosen(search)

Confirmed(n) == n \notin {Unknown, 0}

(* A booking link goes to the stay that was searched.                      *)
Links ==
  IF Current
  THEN {t \in Display : t \in DOMAIN result.counts /\ Confirmed(result.counts[t])}
  ELSE {}

-----------------------------------------------------------------------------
(* The guest.                                                              *)

(* Any field, the calendar's dates included.                               *)
Edit ==
  /\ \/ \E t \in Types \cup {All} : search' = [search EXCEPT !.type = t]
     \/ \E s \in Dates \cup {Nil} : search' = [search EXCEPT !.stay = s]
     \/ \E g \in Parties : search' = [search EXCEPT !.guests = g]
  /\ Leave
  /\ UNCHANGED <<retry, result, free>>

Pressed == retry + 1

SubmitSearch ==
  /\ ValidStay(search) /\ Pressed <= MaxPresses
  /\ AskFor(search, Pressed)
  /\ UNCHANGED <<search, result, free>>

RetrySearch ==
  /\ Current /\ \E t \in DOMAIN result.counts : result.counts[t] = Unknown
  /\ retry < MaxPresses
  /\ AskFor(submitted, retry + 1)
  /\ UNCHANGED <<search, result, free>>

-----------------------------------------------------------------------------
(* The answers.                                                            *)

(* The server counts.  The call may fail; it does once it was aborted.     *)
CountOf(l, t) == IF l.aborted THEN {} ELSE {free[<<t, l.form.stay>>]}

AnswerCount(n, t) ==
  /\ t \in DOMAIN load[n].got /\ load[n].got[t] = Waiting
  /\ \E a \in {Unknown} \cup CountOf(load[n], t) :
       load' = [load EXCEPT ![n].got[t] = a]
  /\ UNCHANGED <<search, submitted, retry, result, free, had>>

Wanted(l) == ~l.aborted

(* All answers of a search are in.                                         *)
Show(n) ==
  /\ load[n] # NoLoad /\ \A t \in DOMAIN load[n].got : load[n].got[t] # Waiting
  /\ result' = IF Wanted(load[n])
               THEN [key |-> Key(load[n].form, n), counts |-> load[n].got]
               ELSE result
  /\ load' = [load EXCEPT ![n] = NoLoad]
  /\ UNCHANGED <<search, submitted, retry, free, had>>

(* The hotel sells or frees rooms meanwhile.                               *)
Sell(t, s) ==
  /\ \E k \in 0..MaxFree \ {free[<<t, s>>]} :
       /\ free' = [free EXCEPT ![<<t, s>>] = k]
       /\ had' = IF submitted # Nil /\ submitted.stay = s
                 THEN [had EXCEPT ![t] = @ \cup {k}] ELSE had
  /\ UNCHANGED <<search, submitted, retry, result, load>>

-----------------------------------------------------------------------------
Numbers == 0..MaxPresses

SearchNext ==
  \/ Edit \/ SubmitSearch \/ RetrySearch
  \/ \E n \in Numbers : Show(n) \/ \E t \in Types : AnswerCount(n, t)
  \/ \E t \in Types, s \in Dates : Sell(t, s)

SearchSpec == SearchInit /\ [][SearchNext]_searchVars

-----------------------------------------------------------------------------
(* Properties.                                                             *)

Counts == UNION {[T -> 0..MaxFree \cup {Unknown, Waiting}] : T \in SUBSET Types}

(* The form, the requests and the shown counts hold what they may hold,    *)
(* and only a valid stay is searched.                                      *)
SearchTypeOK ==
  /\ search \in Forms /\ retry \in Numbers
  /\ \/ submitted = Nil
     \/ submitted \in Forms /\ submitted.stay \in Dates /\ submitted.guests > 0
  /\ result # Nil => result.counts \in Counts /\ result.key[2] \in Numbers
  /\ \A n \in Numbers : load[n].form \in Forms \cup {Nil} /\ load[n].got \in Counts
  /\ free \in [Types \X Dates -> 0..MaxFree]

(* A booking link is never left from another search or an earlier press:   *)
(* the server had a free room of that type, for just those dates, since    *)
(* the guest last pressed Search or Retry, and it sleeps the guests.       *)
LinksFresh ==
  \A t \in Links :
    /\ \E k \in had[t] : k > 0
    /\ ~TooSmall(t, submitted)

(* What the search shows of rooms it may be asked for.                     *)
SearchHonest == SearchTypeOK /\ LinksFresh

(* Eventually: no late answer leaves a search loading for ever; it is      *)
(* answered unless the guest moves on.                                     *)
SearchEnds == submitted = Nil \/ Current

=============================================================================
