---------------------------- MODULE GuestAccounts ----------------------------
(***************************************************************************)
(* Guest accounts: registration under an advisory lock on the normal form  *)
(* of an email, in a table other subsystems write too; sign-in, which      *)
(* picks nobody among duplicates; and the pages a visitor is sent through  *)
(* when a page asks him to sign in, with the place he wants to return to.  *)
(***************************************************************************)
EXTENDS Integers, Sequences

CONSTANTS
  Browsers,       \* visitors, each with a password of his own
  EmailOf,        \* [Browsers -> the normal form of his email]
  Registrations,  \* bound: registrations sent, by number
  Unique,         \* whether guests.email has its unique constraint
  Origins,        \* pages that ask for a session
  Allowed,        \* the ones a return destination may name
  Profile,        \* the page for any other
  MaxOutside,     \* bound: accounts other subsystems make
  MaxLost,        \* bound: answers that never reach a browser
  Nobody

ASSUME AccountsAssumption ==
  Registrations \subseteq Nat \ {0} /\ Nobody \notin Browsers \cup Registrations

VARIABLES
  guests,       \* the table: [email, normal, password, saw] of each account
  locked,       \* who holds the lock of an email
  register,     \* each registration: [pc, browser]
  visitor,      \* what each browser shows and waits for
  lost

accountVars == <<guests, locked, register, visitor, lost>>

Emails == {EmailOf[b] : b \in Browsers}

(* Outside accounts have the password Nobody; "saw" counts, for the         *)
(* properties, the accounts a registration's check could see, and "rivals" *)
(* the other accounts of an email at its last sign-in.                     *)
Accounts(e) == {i \in DOMAIN guests : guests[i].email = e}

Service(i) == guests[i].password # Nobody

-----------------------------------------------------------------------------
(* Registration.                                                           *)

Pc(r, pc) == register' = [register EXCEPT ![r].pc = pc]

(* A likely slip: two registrations of one email do not wait for another.  *)
Unlocked_Always(e) == TRUE

Unlocked(e) == locked[e] = Nobody

Lock(r) ==
  LET e == EmailOf[register[r].browser] IN
  /\ register[r].pc = "lock" /\ Unlocked(e)
  /\ locked' = [locked EXCEPT ![e] = r]
  /\ Pc(r, "check")
  /\ UNCHANGED <<guests, visitor, lost>>

(* lower(btrim(email)) = the normal form.                                  *)
Taken(e) == Accounts(e) # {}

(* A statement sees the accounts that are committed by then.               *)
Check(r) ==
  LET e == EmailOf[register[r].browser] IN
  /\ register[r].pc = "check"
  /\ IF Taken(e) THEN Pc(r, "exists") /\ locked' = [locked EXCEPT ![e] = Nobody]
     ELSE /\ register' = [register EXCEPT ![r].pc = "insert", ![r].saw = Len(guests)]
          /\ UNCHANGED locked
  /\ UNCHANGED <<guests, visitor, lost>>

Violates(e) == Unique /\ \E i \in Accounts(e) : guests[i].normal

(* The insert and the commit, which ends the lock.                         *)
Insert(r) ==
  LET b == register[r].browser IN
  /\ register[r].pc = "insert"
  /\ IF Violates(EmailOf[b]) THEN Pc(r, "exists") /\ UNCHANGED guests
     ELSE /\ Pc(r, "created")
          /\ guests' = Append(guests, [email |-> EmailOf[b], normal |-> TRUE,
                                       password |-> b, saw |-> register[r].saw])
  /\ locked' = [locked EXCEPT ![EmailOf[b]] = Nobody]
  /\ UNCHANGED <<visitor, lost>>

(* The server stops, or the transaction fails: it is rolled back.          *)
Stop(r) ==
  /\ register[r].pc \in {"lock", "check", "insert"} /\ lost < MaxLost /\ lost' = lost + 1
  /\ Pc(r, "stopped")
  /\ locked' = [e \in DOMAIN locked |-> IF locked[e] = r THEN Nobody ELSE locked[e]]
  /\ UNCHANGED <<guests, visitor>>

(* Another subsystem writes an email as it likes.                          *)
Outside ==
  \E b \in Browsers, normal \in BOOLEAN :
    /\ Len(SelectSeq(guests, LAMBDA g : g.password = Nobody)) < MaxOutside
    /\ ~(normal /\ Violates(EmailOf[b]))
    /\ guests' = Append(guests, [email |-> EmailOf[b], normal |-> normal,
                                 password |-> Nobody, saw |-> Len(guests)])
    /\ UNCHANGED <<locked, register, visitor, lost>>

-----------------------------------------------------------------------------
(* The pages.                                                              *)

Safe(place) == IF place \in Allowed THEN place ELSE Profile

Goes(b, at, to) ==
  visitor' = [visitor EXCEPT ![b].at = at, ![b].dest = to, ![b].error = "none"]

(* A page is asked for, with a session or without a usable one.            *)
Visit(b) ==
  /\ visitor[b].at = "page"
  /\ \E o \in Origins :
       visitor' = [visitor EXCEPT ![b] =
         IF @.session # 0 THEN [@ EXCEPT !.dest = o, !.origin = o]
         ELSE [@ EXCEPT !.at = "signIn", !.dest = Safe(o), !.origin = o, !.error = "none"]]
  /\ UNCHANGED <<guests, locked, register, lost>>

Ready(b, at) == visitor[b].at = at /\ visitor[b].waits = 0

ToSignUp(b) ==
  Ready(b, "signIn") /\ Goes(b, "signUp", Safe(visitor[b].dest))
  /\ UNCHANGED <<guests, locked, register, lost>>

ToSignIn(b) ==
  Ready(b, "signUp") /\ Goes(b, "signIn", Safe(visitor[b].dest))
  /\ UNCHANGED <<guests, locked, register, lost>>

SignUp(b) ==
  /\ Ready(b, "signUp")
  /\ \E r \in Registrations :
       /\ register[r].pc = "none" /\ \A q \in Registrations : register[q].pc = "none" => r <= q
       /\ register' = [register EXCEPT ![r].pc = "lock", ![r].browser = b]
       /\ visitor' = [visitor EXCEPT ![b].waits = r, ![b].error = "none"]
  /\ UNCHANGED <<guests, locked, lost>>

Registered(b) == Safe(visitor[b].dest)

SignedUp(b) ==
  /\ visitor[b].waits # 0 /\ register[visitor[b].waits].pc \in {"created", "exists"}
  /\ visitor' = [visitor EXCEPT ![b] =
       IF register[@.waits].pc = "created"
       THEN [@ EXCEPT !.waits = 0, !.at = "signIn", !.dest = Registered(b)]
       ELSE [@ EXCEPT !.waits = 0, !.error = "exists"]]
  /\ UNCHANGED <<guests, locked, register, lost>>

(* The website gives up after ten seconds, the registration goes on.       *)
LostAnswer(b) ==
  /\ visitor[b].waits # 0
  /\ \/ register[visitor[b].waits].pc = "stopped" /\ UNCHANGED lost
     \/ lost < MaxLost /\ lost' = lost + 1
  /\ visitor' = [visitor EXCEPT ![b].waits = 0, ![b].error = "unavailable"]
  /\ UNCHANGED <<guests, locked, register>>

(* The account of an email, when there is exactly one.                     *)
Match(e) == {i \in Accounts(e) : Accounts(e) = {i}}

SignIn(b) ==
  /\ Ready(b, "signIn")
  /\ LET own == {i \in Match(EmailOf[b]) : guests[i].password = b} IN
     visitor' = [visitor EXCEPT ![b] =
       IF own = {} THEN [@ EXCEPT !.error = "credentials"]
       ELSE [@ EXCEPT !.at = "page", !.dest = Safe(visitor[b].dest), !.error = "none",
                      !.session = CHOOSE i \in own : TRUE,
                      !.rivals = Accounts(EmailOf[b]) \ own]]
  /\ UNCHANGED <<guests, locked, register, lost>>

(* The token is over, or the guest signs out.                              *)
SignOut(b) ==
  /\ visitor[b].at = "page" /\ visitor[b].session # 0
  /\ visitor' = [visitor EXCEPT ![b].session = 0, ![b].dest = Profile, ![b].origin = Profile,
                                  ![b].rivals = {}]
  /\ UNCHANGED <<guests, locked, register, lost>>

AccountsInit ==
  /\ guests = <<>> /\ lost = 0
  /\ locked = [e \in Emails |-> Nobody]
  /\ register = [r \in Registrations |-> [pc |-> "none", browser |-> Nobody, saw |-> 0]]
  /\ visitor = [b \in Browsers |-> [at |-> "page", origin |-> Profile, dest |-> Profile,
                                    waits |-> 0, error |-> "none", session |-> 0,
                                    rivals |-> {}]]

AccountsNext ==
  \/ \E r \in Registrations : Lock(r) \/ Check(r) \/ Insert(r) \/ Stop(r)
  \/ \E b \in Browsers : \/ Visit(b) \/ ToSignUp(b) \/ ToSignIn(b) \/ SignUp(b)
                         \/ SignedUp(b) \/ LostAnswer(b) \/ SignIn(b) \/ SignOut(b)
  \/ Outside

AccountsSpec == AccountsInit /\ [][AccountsNext]_accountVars

-----------------------------------------------------------------------------
(* Properties.                                                             *)

Account == [email : Emails, normal : BOOLEAN, password : Browsers \cup {Nobody}, saw : Nat]

Registration ==
  [pc : {"none", "lock", "check", "insert", "created", "exists", "stopped"},
   browser : Browsers \cup {Nobody}, saw : Nat]

Visitor ==
  [at : {"page", "signIn", "signUp"}, origin : Origins \cup {Profile},
   dest : Origins \cup {Profile}, waits : Registrations \cup {0},
   error : {"none", "exists", "unavailable", "credentials"}, session : Nat,
   rivals : SUBSET Nat]

(* The table, the lock and the browsers are of their kinds, and whoever    *)
(* works between check and insert holds the lock.                          *)
AccountsTypeOK ==
  /\ guests \in Seq(Account) /\ lost \in Nat
  /\ locked \in [Emails -> Registrations \cup {Nobody}]
  /\ register \in [Registrations -> Registration]
  /\ visitor \in [Browsers -> Visitor]
  /\ \A r \in Registrations :
       register[r].pc \in {"check", "insert"} => locked[EmailOf[register[r].browser]] = r

(* A registration never makes a second account of an email, however it is  *)
(* spelled in the table and with or without the table's constraint, when   *)
(* the first one was there at its check: so no guest of the website loses  *)
(* his sign-in to another one's registration.                              *)
AccountsApart ==
  \A i, j \in DOMAIN guests :
    i # j /\ guests[i].email = guests[j].email /\ Service(i) =>
      ~Service(j) /\ j > guests[i].saw

(* A session is of an account made by the same visitor, whose email was    *)
(* then no one else's.                                                     *)
OwnSession ==
  \A b \in Browsers :
    visitor[b].session # 0 =>
      guests[visitor[b].session].password = b /\ visitor[b].rivals = {}

(* Through sign-in, sign-up, their links, refused and lost registrations,  *)
(* a guest ends up where he wanted to go.                                  *)
ReturnKept ==
  \A b \in Browsers :
    \/ visitor[b].dest = Safe(visitor[b].origin)
    \/ visitor[b].at = "page" /\ visitor[b].dest = visitor[b].origin

(* What the accounts promise a visitor: his own, and his way back.         *)
AccountsSafe == AccountsTypeOK /\ AccountsApart /\ OwnSession /\ ReturnKept

(* Eventually: a visitor without rivals for his email is back on a page,   *)
(* and nothing but a session leads him there, even when the answer to his  *)
(* registration was lost and the next one says the account exists.         *)
GetsIn == \A b \in Browsers : visitor[b].at = "page"

=============================================================================
