---------------------------- MODULE StayCalendar ----------------------------
(***************************************************************************)
(* The availability calendar of one room type, from its mounting on.  It   *)
(* loads the counts of the month shown, and of the nights since the chosen *)
(* check-in (the anchor) when that lies in an earlier month, and lets the  *)
(* guest choose a stay only over nights it knows to be free.  The hotel    *)
(* sells nights meanwhile and answers come late.  Days are numbered.       *)
(***************************************************************************)
EXTENDS Integers

CONSTANTS
  LastMonth,    \* bound: months 1..LastMonth can be shown
  First,        \* the first day of each month, and the day after the last
  MaxNights,    \* nights the server counts in one request, and of a stay
  Reach,        \* days an anchor may lie from the first day shown: with a month's
                \*   days it does not exceed MaxNights
  Unsure,       \* bound: nights the hotel may fill or free
  Closed,       \* nights without a room throughout
  MaxRetries,   \* bound: retries of a failed load
  None

Months == 1..LastMonth

VARIABLES
  month,        \* the month shown
  anchor,       \* the check-in chosen so far
  attempt,      \* retries
  failed,       \* the month that could not be loaded
  result,       \* the last counts, under the key they were asked for
  load,         \* the request under way
  late,         \* the last request that was aborted after its answer
  full,         \* the server's nights without a room
  seen,         \* history: nights that were free since the anchor was chosen
  stay          \* the dates of the search form, when the calendar set both

vars == <<month, anchor, attempt, failed, result, load, late, full, seen, stay>>

Days(m) == First[m]..(First[m + 1] - 1)
AllDays == First[1]..(First[LastMonth + 1] - 1)
Nights(from, to) == from..(to - 1)

Key == <<month, anchor, attempt>>

-----------------------------------------------------------------------------
(* Loading.                                                                *)

(* A likely slip: only the month shown is loaded.                          *)
From_Month(m, a) == First[m]

From(m, a) == IF a # None /\ a < First[m] THEN a ELSE First[m]

Asked(m, a, n) ==
  [key |-> <<m, a, n>>, from |-> From(m, a), to |-> First[m + 1],
   pc |-> "sent", full |-> {}]

NoLoad == [key |-> <<>>, from |-> 0, to |-> 0, pc |-> "none", full |-> {}]

(* The effect of a change of the key: abort, and ask again.                *)
Reload ==
  IF Key' = Key THEN UNCHANGED <<load, late>>
  ELSE /\ load' = Asked(month', anchor', attempt')
       /\ late' = IF load.pc \in {"sent", "none"} THEN late ELSE load

(* The server counts each night of the range, or refuses it.               *)
Answer ==
  /\ load.pc = "sent"
  /\ \/ /\ load.to - load.from \in 1..MaxNights
        /\ load' = [load EXCEPT !.pc = "ok", !.full = full \cap Nights(load.from, load.to)]
     \/ load' = [load EXCEPT !.pc = "failed"]
  /\ UNCHANGED <<month, anchor, attempt, failed, result, late, full, seen, stay>>

HandIn(l) ==
  IF l.pc = "ok" THEN result' = l /\ failed' = None
                 ELSE failed' = l.key[1] /\ UNCHANGED result

Show ==
  /\ load.pc \in {"ok", "failed"}
  /\ HandIn(load) /\ load' = NoLoad
  /\ UNCHANGED <<month, anchor, attempt, late, full, seen, stay>>

Dropped(l) == UNCHANGED <<result, failed>>

ShowLate ==
  /\ late # NoLoad /\ late' = NoLoad /\ Dropped(late)
  /\ UNCHANGED <<month, anchor, attempt, load, full, seen, stay>>

(* The counts on screen.                                                   *)
Shown == result # None /\ result.key = Key /\ failed # month

-----------------------------------------------------------------------------
(* The guest.                                                              *)

Blocked(d) == d \in result.full

(* A new check-in starts a new history.                                    *)
Anchored(a) ==
  /\ anchor' = a
  /\ seen' = IF a = anchor THEN seen ELSE AllDays \ full

ChooseCheckIn(d) ==
  /\ Shown /\ d \in Days(month) /\ ~Blocked(d)
  /\ anchor # None => d <= anchor
  /\ Anchored(d) /\ stay' = None
  /\ UNCHANGED <<month, attempt, failed, result, full>> /\ Reload

ChooseCheckOut(d) ==
  /\ Shown /\ d \in Days(month) /\ anchor # None /\ d > anchor
  /\ d - anchor <= MaxNights
  /\ \A n \in result.full : ~(n >= anchor /\ n < d)
  /\ stay' = [from |-> anchor, to |-> d] /\ Anchored(None)
  /\ UNCHANGED <<month, attempt, failed, result, full>> /\ Reload

Far(m) ==
  LET d == First[m] - anchor IN d > Reach \/ -d > Reach

Navigate(m) ==
  /\ m \in {month - 1, month + 1}
  /\ month' = m
  /\ IF anchor # None /\ Far(m) THEN Anchored(None) ELSE UNCHANGED <<anchor, seen>>
  /\ UNCHANGED <<attempt, failed, result, full, stay>> /\ Reload

Retry ==
  /\ failed = month /\ attempt < MaxRetries
  /\ failed' = None /\ result' = None /\ attempt' = attempt + 1
  /\ UNCHANGED <<month, anchor, full, seen, stay>> /\ Reload

(* The hotel fills or frees a night.                                       *)
Turn(n) ==
  /\ full' = IF n \in full THEN full \ {n} ELSE full \cup {n}
  /\ seen' = seen \cup (AllDays \ full')
  /\ UNCHANGED <<month, anchor, attempt, failed, result, load, late, stay>>

-----------------------------------------------------------------------------
Init ==
  /\ month \in Months /\ anchor = None /\ attempt = 0 /\ failed = None
  /\ result = None /\ load = Asked(month, None, 0) /\ late = NoLoad
  /\ full \in {Closed \cup u : u \in SUBSET Unsure} /\ seen = AllDays \ full /\ stay = None

Next ==
  \/ Answer \/ Show \/ ShowLate \/ Retry
  \/ \E d \in AllDays : ChooseCheckIn(d) \/ ChooseCheckOut(d)
  \/ \E m \in Months : Navigate(m)
  \/ \E n \in Unsure : Turn(n)

Spec == Init /\ [][Next]_vars

-----------------------------------------------------------------------------
(* Properties.                                                             *)

(* The state of the calendar and its requests hold what they may hold.     *)
LoadKeys == Months \X (AllDays \cup {None}) \X (0..MaxRetries)

Load == [key : LoadKeys \cup {<<>>},
         from : Int, to : Int, pc : {"none", "sent", "ok", "failed"},
         full : SUBSET AllDays]

TypeOK ==
  /\ month \in Months /\ anchor \in AllDays \cup {None}
  /\ attempt \in 0..MaxRetries /\ failed \in Months \cup {None}
  /\ result \in Load \cup {None} /\ load \in Load /\ late \in Load
  /\ full \subseteq AllDays /\ seen \subseteq AllDays
  /\ stay \in [from : AllDays, to : AllDays] \cup {None}

(* A stay chosen on the calendar spans no night that was never free since  *)
(* its check-in was chosen, over whatever months the guest went meanwhile. *)
PicksOpen ==
  stay' # stay /\ stay' # None => Nights(stay'.from, stay'.to) \subseteq seen

(* The calendar never asks for more nights than the server counts.         *)
WithinLimit == load.pc # "none" => load.to - load.from \in 1..MaxNights

(* Eventually: the calendar does not stay loading; what is shown at last   *)
(* is loaded or said to be unavailable, whatever late answers come in.     *)
CalendarSettles == Shown \/ failed = month

=============================================================================
