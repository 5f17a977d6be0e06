---------------------------- MODULE ServiceProofs ----------------------------
(***************************************************************************)
(* The services beside the booking.  The token that retrievals share, for  *)
(* any number of retrievals, tokens and lifetimes: why no margin is lost   *)
(* between the field, the requests that overwrite it and the clock.  The   *)
(* rate limit of the enquiries, for any limit, window and addresses.  And  *)
(* the way of an enquiry, for any number of texts and attempts.            *)
(***************************************************************************)
EXTENDS
  PayHereToken, Enquiries, FiniteSetTheorems, SequenceTheorems, WellFoundedInduction,
  TLAPS

-----------------------------------------------------------------------------
(* The token.                                                              *)

(* What the field holds was issued, was never refused and has, while it is *)
(* still used, one time-out left beyond the instant it is kept until.      *)
FieldLasts ==
  token # Null =>
    /\ token.value \in DOMAIN issued /\ token.value \notin refused
    /\ \/ token.value \in withdrawn \/ token.until <= now
       \/ token.until + Timeout <= issued[token.value]

(* Retrievals began, and what they carry was issued.                       *)
Carried ==
  \A r \in Retrievals :
    /\ req[r].since <= now
    /\ req[r].value \in DOMAIN issued \cup {0}
    /\ req[r].pc = "search" => req[r].value \in DOMAIN issued

(* A token on its way to the server is nobody else's, and was issued after *)
(* its retrieval asked for it.                                             *)
GrantsAreOwn ==
  \A r \in Retrievals :
    req[r].pc = "granted" =>
      /\ req[r].value \in DOMAIN issued
      /\ req[r].value \notin refused
      /\ req[r].value # token.value
      /\ \A q \in Retrievals \ {r} : req[q].value # req[r].value
      /\ \/ req[r].value \in withdrawn
         \/ req[r].since + req[r].life <= issued[req[r].value]

(* A token from the field outlasts the time-out of its search.             *)
Outlasts ==
  \A r \in Retrievals :
    req[r].pc = "search" /\ req[r].cached =>
      \/ req[r].value \in withdrawn
      \/ req[r].since + Timeout < issued[req[r].value]

TInv ==
  /\ TokenTypeOK /\ RefusedIsForgotten
  /\ FieldLasts /\ Carried /\ GrantsAreOwn /\ Outlasts

LEMMA InitTInv == TokenInit => TInv
<1> SUFFICES ASSUME TokenInit PROVE TInv
  OBVIOUS
<1>1. AtRest \in Retrieval
  BY TokenAssumption DEF AtRest, Retrieval
<1>2. DOMAIN issued = {}
  BY DEF TokenInit
<1>3. TokenTypeOK
  BY <1>1, <1>2, TokenAssumption DEF TokenInit, TokenTypeOK, Null
<1>4. \A r \in Retrievals : req[r] = AtRest
  BY DEF TokenInit
<1>5. RefusedIsForgotten /\ Carried /\ GrantsAreOwn /\ Outlasts
  BY <1>4 DEF AtRest, TokenInit, RefusedIsForgotten, Carried, GrantsAreOwn, Outlasts
<1>6. FieldLasts
  BY DEF TokenInit, FieldLasts
<1> QED
  BY <1>3, <1>5, <1>6 DEF TInv

(* What a step of one retrieval leaves of the others.                      *)
Only(r, new) == req' = [req EXCEPT ![r] = new]

LEMMA OnlyOne ==
  ASSUME TokenTypeOK, NEW r \in Retrievals, NEW new \in Retrieval, Only(r, new)
  PROVE  /\ req' \in [Retrievals -> Retrieval]
         /\ req'[r] = new
         /\ \A q \in Retrievals \ {r} : req'[q] = req[q]
BY DEF TokenTypeOK, Only

LEMMA StartKeeps ==
  ASSUME TInv, NEW r \in Retrievals, Start(r)
  PROVE  TInv'
<1> DEFINE new == IF Usable THEN SearchWith(token.value, TRUE)
                  ELSE [AtRest EXCEPT !.pc = "oauth", !.since = now]
<1>1. /\ UNCHANGED <<now, token, issued, withdrawn, refused, troubles>>
      /\ Only(r, new)
  BY DEF Start, Only
<1>2. now \in 0 .. MaxTime /\ now \in Nat
  BY TokenAssumption DEF TInv, TokenTypeOK
<1>3. Usable => /\ token.value \in DOMAIN issued /\ token.value \notin refused
                /\ token.value \in withdrawn \/ now + Timeout < issued[token.value]
  <2> SUFFICES ASSUME Usable, token.value \notin withdrawn
               PROVE  now + Timeout < issued[token.value]
    BY DEF TInv, Usable, FieldLasts
  <2>1. token.until \in Nat /\ issued[token.value] \in Nat
    BY DEF TInv, TokenTypeOK, FieldLasts, Usable
  <2> QED
    BY <2>1, <1>2, TokenAssumption DEF TInv, Usable, FieldLasts
<1>4. \/ /\ new = [pc |-> "search", since |-> now, value |-> token.value, life |-> 0,
                   cached |-> TRUE, again |-> FALSE]
         /\ Usable
      \/ new = [pc |-> "oauth", since |-> now, value |-> 0, life |-> 0,
                cached |-> FALSE, again |-> FALSE]
  <2>1. CASE Usable
    <3>1. new = SearchWith(token.value, TRUE)
      BY <2>1
    <3>2. (token.value \in refused) = FALSE
      BY <1>3, <2>1
    <3> QED
      BY <2>1, <3>1, <3>2 DEF SearchWith
  <2>2. CASE ~Usable
    <3>1. new = [AtRest EXCEPT !.pc = "oauth", !.since = now]
      BY <2>2
    <3> QED
      BY <3>1 DEF AtRest
  <2> QED
    BY <2>1, <2>2
<1> HIDE DEF new
<1>5. new \in Retrieval
  <2>1. Usable => token.value \in Tokens
    BY <1>3 DEF TInv, TokenTypeOK
  <2>2. CASE Usable /\ new = [pc |-> "search", since |-> now, value |-> token.value,
                              life |-> 0, cached |-> TRUE, again |-> FALSE]
    BY <1>2, <2>1, <2>2 DEF Retrieval
  <2>3. CASE new = [pc |-> "oauth", since |-> now, value |-> 0, life |-> 0,
                    cached |-> FALSE, again |-> FALSE]
    BY <1>2, <2>3 DEF Retrieval
  <2> QED
    BY <1>4, <2>2, <2>3
<1>6. /\ req' \in [Retrievals -> Retrieval]
      /\ req'[r] = new
      /\ \A q \in Retrievals \ {r} : req'[q] = req[q]
  BY <1>1, <1>5, OnlyOne DEF TInv
<1>7. TokenTypeOK'
  BY <1>1, <1>6 DEF TInv, TokenTypeOK
<1>8. RefusedIsForgotten'
  BY <1>4, <1>6 DEF TInv, RefusedIsForgotten
<1>9. FieldLasts'
  BY <1>1 DEF TInv, FieldLasts
<1>10. Carried'
  BY <1>1, <1>2, <1>3, <1>4, <1>6 DEF TInv, Carried
<1>11. GrantsAreOwn'
  <2> SUFFICES ASSUME NEW g \in Retrievals, req'[g].pc = "granted"
               PROVE  /\ req[g].pc = "granted" /\ g # r
                      /\ new.value # req[g].value
    BY <1>1, <1>6 DEF TInv, GrantsAreOwn
  <2>1. g # r /\ req[g].pc = "granted"
    BY <1>4, <1>6
  <2>2. req[g].value # token.value /\ req[g].value \in DOMAIN issued
    BY <2>1 DEF TInv, GrantsAreOwn
  <2>3. req[g].value # 0
    BY <2>2, TokenAssumption DEF TInv, TokenTypeOK
  <2> QED
    BY <1>4, <2>1, <2>2, <2>3
<1>12. Outlasts'
  BY <1>1, <1>3, <1>4, <1>6 DEF TInv, Outlasts
<1> QED
  BY <1>7, <1>8, <1>9, <1>10, <1>11, <1>12 DEF TInv

LEMMA IssueKeeps ==
  ASSUME TInv, NEW r \in Retrievals, Issue(r)
  PROVE  TInv'
<1>1. PICK v \in Tokens \ DOMAIN issued, life \in Lifetimes :
        /\ issued' = [u \in DOMAIN issued \cup {v} |->
                        IF u = v THEN now + life ELSE issued[u]]
        /\ req' = [req EXCEPT ![r].pc = "granted", ![r].value = v, ![r].life = life]
  BY DEF Issue
<1>2. /\ UNCHANGED <<now, token, withdrawn, refused, troubles>>
      /\ req[r].pc = "oauth"
  BY DEF Issue
<1>3. /\ now \in Nat /\ life \in Nat /\ v \in Nat /\ v # 0 /\ v \in Tokens
      /\ req \in [Retrievals -> Retrieval]
  BY TokenAssumption DEF TInv, TokenTypeOK
<1> DEFINE here == [req[r] EXCEPT !.pc = "granted"]
           named == [here EXCEPT !.value = v]
           new == [named EXCEPT !.life = life]
<1>4. new \in Retrieval
  <2>1. req[r] \in Retrieval
    BY <1>3
  <2>2. here \in Retrieval
    BY <2>1 DEF Retrieval
  <2> HIDE DEF here
  <2>3. named \in Retrieval
    BY <1>3, <2>2 DEF Retrieval
  <2> HIDE DEF named
  <2> QED
    BY <2>3 DEF Retrieval
<1>5. Only(r, new)
  <2>1. req' = [req EXCEPT ![r] =
                 [req[r] EXCEPT !.pc = "granted", !.value = v, !.life = life]]
    BY <1>1, <1>3
  <2> QED
    BY <2>1 DEF Only
<1>6. /\ req' \in [Retrievals -> Retrieval]
      /\ req'[r] = new
      /\ \A q \in Retrievals \ {r} : req'[q] = req[q]
  BY <1>4, <1>5, OnlyOne DEF TInv
<1>7. /\ new.pc = "granted" /\ new.value = v /\ new.life = life
      /\ new.since = req[r].since /\ new.again = req[r].again
  BY <1>3 DEF Retrieval
<1> HIDE DEF here, named, new
<1>8. /\ DOMAIN issued' = DOMAIN issued \cup {v}
      /\ issued'[v] = now + life
      /\ \A u \in DOMAIN issued : issued'[u] = issued[u]
  BY <1>1
<1>9. v \notin DOMAIN issued /\ v \notin refused /\ v # token.value
  <2>1. token.value \in DOMAIN issued \cup {0}
    BY DEF TInv, FieldLasts, Null
  <2> QED
    BY <1>1, <1>3, <2>1 DEF TInv, TokenTypeOK
<1>10. \A q \in Retrievals : req[q].value # v
  BY <1>3, <1>9 DEF TInv, Carried
<1>11. TokenTypeOK'
  <2>1. \A u \in DOMAIN issued' : issued'[u] \in Nat
    BY <1>3, <1>8 DEF TInv, TokenTypeOK
  <2> QED
    BY <1>2, <1>3, <1>6, <1>8, <2>1 DEF TInv, TokenTypeOK
<1>12. RefusedIsForgotten'
  BY <1>6, <1>7 DEF TInv, RefusedIsForgotten
<1>13. FieldLasts'
  BY <1>2, <1>8 DEF TInv, FieldLasts
<1>14. Carried'
  BY <1>2, <1>6, <1>7, <1>8 DEF TInv, Carried
<1>15. GrantsAreOwn'
  <2> SUFFICES ASSUME NEW g \in Retrievals, (req'[g]).pc = "granted"
               PROVE  /\ (req'[g]).value \in DOMAIN issued'
                      /\ (req'[g]).value \notin refused
                      /\ (req'[g]).value # token.value
                      /\ \A q \in Retrievals \ {g} : (req'[q]).value # (req'[g]).value
                      /\ \/ (req'[g]).value \in withdrawn
                         \/ (req'[g]).since + (req'[g]).life <= issued'[(req'[g]).value]
    BY <1>2 DEF GrantsAreOwn
  <2>1. CASE g = r
    <3>1. req[r].since \in Nat /\ req[r].since <= now
      BY <1>3, TokenAssumption DEF Retrieval, TInv, Carried
    <3>2. (req'[g]).since + (req'[g]).life <= issued'[(req'[g]).value]
      BY <1>3, <1>6, <1>7, <1>8, <2>1, <3>1
    <3>3. /\ (req'[g]).value = v
          /\ \A q \in Retrievals \ {g} : (req'[q]).value # v
      BY <1>6, <1>7, <1>10, <2>1
    <3> QED
      BY <1>8, <1>9, <3>2, <3>3
  <2>2. CASE g # r
    <3>1. req'[g] = req[g]
      BY <1>6, <2>2
    <3>2. /\ req[g].value \in DOMAIN issued
          /\ req[g].value \notin refused
          /\ req[g].value # token.value
          /\ \A q \in Retrievals \ {g} : req[q].value # req[g].value
          /\ \/ req[g].value \in withdrawn
             \/ req[g].since + req[g].life <= issued[req[g].value]
      BY <3>1 DEF TInv, GrantsAreOwn
    <3>3. \A q \in Retrievals \ {g} : (req'[q]).value # req[g].value
      BY <1>6, <1>7, <1>10, <3>2
    <3> QED
      BY <1>8, <3>1, <3>2, <3>3
  <2> QED
    BY <2>1, <2>2
<1>16. Outlasts'
  BY <1>2, <1>6, <1>7, <1>8 DEF TInv, Carried, Outlasts
<1> QED
  BY <1>11, <1>12, <1>13, <1>14, <1>15, <1>16 DEF TInv

LEMMA GrantKeeps ==
  ASSUME TInv, NEW r \in Retrievals, Grant(r)
  PROVE  TInv'
<1> DEFINE v == req[r].value
           until == now + Left(req[r].life)
           new == SearchWith(v, FALSE)
<1>1. /\ UNCHANGED <<now, issued, withdrawn, refused, troubles>>
      /\ req[r].pc = "granted" /\ InTime(r)
      /\ token' = [value |-> v, until |-> until]
      /\ Only(r, new)
  BY DEF Grant, Only
<1>2. /\ now \in Nat /\ now \in 0 .. MaxTime
      /\ req[r].since \in Nat /\ req[r].life \in Nat
      /\ req[r].since <= now
  <2>1. req[r] \in Retrieval /\ now \in 0 .. MaxTime
    BY DEF TInv, TokenTypeOK
  <2>2. req[r].since \in 0 .. MaxTime /\ req[r].life \in Lifetimes \cup {0}
    BY <2>1 DEF Retrieval
  <2>3. req[r].since <= now
    BY DEF TInv, Carried
  <2>4. now \in Nat /\ req[r].since \in Nat /\ req[r].life \in Nat
    <3> DEFINE since == req[r].since
               life == req[r].life
    <3>1. since \in 0 .. MaxTime /\ life \in Lifetimes \cup {0}
      BY <2>2
    <3> HIDE DEF since, life
    <3>2. since \in Nat /\ life \in Nat
      BY <3>1, TokenAssumption
    <3> QED
      BY <2>1, <3>2, TokenAssumption DEF since, life
  <2> QED
    BY <2>1, <2>3, <2>4
<1>3. /\ v \in DOMAIN issued /\ v \notin refused /\ v \in Tokens /\ v # 0
      /\ \A q \in Retrievals \ {r} : req[q].value # v
      /\ v \in withdrawn \/ req[r].since + req[r].life <= issued[v]
      /\ issued[v] \in Nat
  BY <1>1, TokenAssumption DEF TInv, TokenTypeOK, GrantsAreOwn
<1>4. until \in Nat
  BY <1>2, TokenAssumption DEF Left
<1>5. v \in withdrawn \/ until <= now \/ until + Timeout <= issued[v]
  <2>1. now <= req[r].since + Timeout
    BY <1>1 DEF InTime
  <2>2. CASE req[r].life <= Margin
    BY <2>2, <1>2, TokenAssumption DEF Left
  <2>3. CASE req[r].life > Margin
    <3>1. until = now + (req[r].life - Margin)
      BY <2>3 DEF Left
    <3>2. until + Timeout <= req[r].since + req[r].life
      BY <3>1, <2>1, <1>2, TokenAssumption
    <3> QED
      BY <3>2, <1>2, <1>3, <1>4, TokenAssumption
  <2> QED
    BY <2>2, <2>3, <1>2, TokenAssumption
<1>6. new = [pc |-> "search", since |-> now, value |-> v, life |-> 0, cached |-> FALSE,
             again |-> FALSE]
  <2>1. (v \in refused) = FALSE
    BY <1>3
  <2> QED
    BY <2>1 DEF SearchWith
<1> HIDE DEF v, until, new
<1>7. new \in Retrieval
  BY <1>2, <1>3, <1>6 DEF Retrieval
<1>8. /\ req' \in [Retrievals -> Retrieval]
      /\ req'[r] = new
      /\ \A q \in Retrievals \ {r} : req'[q] = req[q]
  BY <1>1, <1>7, OnlyOne DEF TInv
<1>9. new.pc = "search" /\ new.since = now /\ new.value = v /\ ~new.cached /\ ~new.again
  BY <1>6
<1>10. token'.value = v /\ token'.until = until
  BY <1>1
<1>11. TokenTypeOK'
  <2>1. token' \in [value : Tokens \cup {0}, until : Nat]
    BY <1>1, <1>3, <1>4
  <2> QED
    BY <1>1, <1>8, <2>1 DEF TInv, TokenTypeOK
<1>12. RefusedIsForgotten'
  BY <1>8, <1>9 DEF TInv, RefusedIsForgotten
<1>13. FieldLasts'
  BY <1>1, <1>3, <1>5, <1>10 DEF FieldLasts
<1>14. Carried'
  BY <1>1, <1>2, <1>3, <1>8, <1>9 DEF TInv, Carried
<1>15. GrantsAreOwn'
  <2> SUFFICES ASSUME NEW g \in Retrievals, (req'[g]).pc = "granted"
               PROVE  /\ g # r /\ req'[g] = req[g]
                      /\ req[g].value # v
    BY <1>1, <1>3, <1>8, <1>9, <1>10 DEF TInv, GrantsAreOwn, v
  <2> QED
    BY <1>3, <1>8, <1>9
<1>16. Outlasts'
  BY <1>1, <1>8, <1>9 DEF TInv, Outlasts
<1> QED
  BY <1>11, <1>12, <1>13, <1>14, <1>15, <1>16 DEF TInv

(* A retrieval that is answered, refused or fails keeps no token.          *)
LEMMA EndKeeps ==
  ASSUME TInv, NEW r \in Retrievals, NEW new \in Retrieval, Only(r, new),
         new.pc \in {"idle", "done"}, new.since = 0, new.value = 0, ~new.again,
         UNCHANGED <<now, issued, withdrawn>>,
         \/ UNCHANGED <<token, refused>>
         \/ /\ req[r].pc = "search" /\ token' = Null
            /\ refused' = refused \cup {req[r].value}
  PROVE  TInv'
<1>1. /\ req' \in [Retrievals -> Retrieval]
      /\ req'[r] = new
      /\ \A q \in Retrievals \ {r} : req'[q] = req[q]
  BY OnlyOne DEF TInv
<1>2. now \in Nat /\ 0 <= now
  BY TokenAssumption DEF TInv, TokenTypeOK
<1>3. req[r].pc = "search" => req[r].value \in DOMAIN issued
  BY DEF TInv, Carried
<1>4. TokenTypeOK'
  <2>1. token' \in [value : Tokens \cup {0}, until : Nat]
    BY DEF TInv, TokenTypeOK, Null
  <2>2. refused' \subseteq DOMAIN issued
    BY <1>3 DEF TInv, TokenTypeOK
  <2> QED
    BY <1>1, <2>1, <2>2 DEF TInv, TokenTypeOK
<1>5. RefusedIsForgotten'
  BY <1>1 DEF TInv, RefusedIsForgotten
<1>6. FieldLasts'
  BY DEF TInv, FieldLasts
<1>7. Carried'
  BY <1>1, <1>2 DEF TInv, Carried
<1>8. GrantsAreOwn'
  <2> SUFFICES ASSUME NEW g \in Retrievals, (req'[g]).pc = "granted"
               PROVE  /\ g # r /\ req'[g] = req[g]
                      /\ req[g].value \notin refused' /\ req[g].value # (token').value
                      /\ \A q \in Retrievals \ {g} : (req'[q]).value # req[g].value
    BY DEF TInv, GrantsAreOwn
  <2>1. g # r /\ req'[g] = req[g]
    BY <1>1
  <2>2. /\ req[g].value \in DOMAIN issued /\ req[g].value \notin refused
        /\ req[g].value # token.value
        /\ \A q \in Retrievals \ {g} : req[q].value # req[g].value
    BY <2>1 DEF TInv, GrantsAreOwn
  <2>3. req[g].value # 0
    BY <2>2, TokenAssumption DEF TInv, TokenTypeOK
  <2>4. req[g].value \notin refused' /\ req[g].value # (token').value
    BY <2>1, <2>2, <2>3 DEF Null
  <2> QED
    BY <1>1, <2>1, <2>2, <2>3, <2>4
<1>9. Outlasts'
  BY <1>1 DEF TInv, Outlasts
<1> QED
  BY <1>4, <1>5, <1>6, <1>7, <1>8, <1>9 DEF TInv

Rest(p) == [AtRest EXCEPT !.pc = p]

LEMMA RestIs ==
  ASSUME NEW p \in {"idle", "done"}
  PROVE  /\ Rest(p) \in Retrieval /\ Rest("idle") = AtRest
         /\ Rest(p).pc = p /\ Rest(p).since = 0 /\ Rest(p).value = 0 /\ ~Rest(p).again
<1>1. /\ AtRest \in Retrieval /\ AtRest.pc = "idle" /\ AtRest.since = 0
      /\ AtRest.value = 0 /\ ~AtRest.again
  <2>1. 0 \in 0 .. MaxTime
    BY TokenAssumption
  <2> QED
    BY <2>1 DEF AtRest, Retrieval
<1>2. Rest("idle") = AtRest
  BY SMT DEF Rest, AtRest
<1>3. /\ Rest(p) \in Retrieval
      /\ Rest(p).pc = p /\ Rest(p).since = 0 /\ Rest(p).value = 0 /\ ~Rest(p).again
  BY <1>1 DEF Rest, Retrieval
<1> QED
  BY <1>2, <1>3

LEMMA SearchedKeeps ==
  ASSUME TInv, NEW r \in Retrievals, Searched(r)
  PROVE  TInv'
<1>1. UNCHANGED <<now, issued, withdrawn>> /\ req[r].pc = "search"
  BY DEF Searched
<1>2. CASE Honoured(req[r].value)
  <2>1. Only(r, Rest("done")) /\ UNCHANGED <<token, refused>>
    BY <1>2 DEF Searched, Only, Rest
  <2>2. /\ Rest("done") \in Retrieval /\ Rest("done").pc = "done"
        /\ Rest("done").since = 0 /\ Rest("done").value = 0 /\ ~Rest("done").again
    BY RestIs
  <2> QED
    BY <1>1, <2>1, <2>2, EndKeeps
<1>3. CASE ~Honoured(req[r].value)
  <2>1. Only(r, AtRest) /\ token' = Null /\ refused' = refused \cup {req[r].value}
    BY <1>3 DEF Searched, Only, Dropped
  <2>2. /\ AtRest \in Retrieval /\ AtRest.pc = "idle"
        /\ AtRest.since = 0 /\ AtRest.value = 0 /\ ~AtRest.again
    BY RestIs
  <2> QED
    BY <1>1, <2>1, <2>2, EndKeeps
<1> QED
  BY <1>2, <1>3

LEMMA TroubleKeeps ==
  ASSUME TInv, NEW r \in Retrievals, Trouble(r)
  PROVE  TInv'
<1>1. Only(r, AtRest) /\ UNCHANGED <<now, token, issued, withdrawn, refused>>
  BY DEF Trouble, Only
<1>2. /\ AtRest \in Retrieval /\ AtRest.pc = "idle"
      /\ AtRest.since = 0 /\ AtRest.value = 0 /\ ~AtRest.again
  BY RestIs
<1> QED
  BY <1>1, <1>2, EndKeeps

LEMMA WithdrawKeeps == TInv /\ Withdraw => TInv'
<1> SUFFICES ASSUME TInv, Withdraw PROVE TInv'
  OBVIOUS
<1>1. PICK v \in DOMAIN issued :
        issued' = [issued EXCEPT ![v] = now] /\ withdrawn' = withdrawn \cup {v}
  BY DEF Withdraw
<1>2. UNCHANGED <<now, token, req, refused>>
  BY DEF Withdraw
<1>3. /\ DOMAIN issued' = DOMAIN issued
      /\ issued'[v] = now
      /\ \A u \in DOMAIN issued \ {v} : issued'[u] = issued[u]
  BY <1>1
<1>4. now \in Nat
  BY TokenAssumption DEF TInv, TokenTypeOK
<1>5. TokenTypeOK'
  BY <1>1, <1>2, <1>3, <1>4 DEF TInv, TokenTypeOK
<1>6. RefusedIsForgotten' /\ Carried'
  BY <1>2, <1>3 DEF TInv, RefusedIsForgotten, Carried
<1>7. FieldLasts'
  BY <1>1, <1>2, <1>3 DEF TInv, FieldLasts
<1>8. GrantsAreOwn'
  BY <1>1, <1>2, <1>3 DEF TInv, GrantsAreOwn
<1>9. Outlasts'
  BY <1>1, <1>2, <1>3 DEF TInv, Carried, Outlasts
<1> QED
  BY <1>5, <1>6, <1>7, <1>8, <1>9 DEF TInv

LEMMA TickKeeps == TInv /\ Tick => TInv'
<1> SUFFICES ASSUME TInv, Tick PROVE TInv'
  OBVIOUS
<1>1. /\ UNCHANGED <<token, req, issued, withdrawn, refused, troubles>>
      /\ now' = now + 1 /\ now < MaxTime
  BY DEF Tick
<1>2. now \in Nat /\ \A r \in Retrievals : req[r].since \in Nat
  BY TokenAssumption DEF TInv, TokenTypeOK, Retrieval
<1>3. TokenTypeOK'
  BY <1>1, <1>2, TokenAssumption DEF TInv, TokenTypeOK
<1>4. RefusedIsForgotten' /\ GrantsAreOwn' /\ Outlasts'
  BY <1>1 DEF TInv, RefusedIsForgotten, GrantsAreOwn, Outlasts
<1>5. FieldLasts'
  BY <1>1, <1>2 DEF TInv, TokenTypeOK, FieldLasts
<1>6. Carried'
  BY <1>1, <1>2 DEF TInv, Carried
<1> QED
  BY <1>3, <1>4, <1>5, <1>6 DEF TInv

LEMMA NextTInv == TInv /\ [TokenNext]_tokenVars => TInv'
<1> SUFFICES ASSUME TInv, [TokenNext]_tokenVars PROVE TInv'
  OBVIOUS
<1>1. CASE UNCHANGED tokenVars
  BY <1>1 DEF tokenVars, TInv, TokenTypeOK, RefusedIsForgotten, FieldLasts, Carried,
              GrantsAreOwn, Outlasts
<1>2. CASE TokenNext
  BY <1>2, StartKeeps, IssueKeeps, GrantKeeps, SearchedKeeps, TroubleKeeps, WithdrawKeeps,
     TickKeeps DEF TokenNext
<1> QED
  BY <1>1, <1>2

-----------------------------------------------------------------------------
(* What follows.                                                           *)

LEMMA TInvIsSafe == TInv => TokenSafe
<1> SUFFICES ASSUME TInv PROVE LastsItsSearch
  BY DEF TInv, TokenSafe
<1> SUFFICES ASSUME NEW r \in Retrievals, req[r].pc = "search", req[r].cached, InTime(r),
                    req[r].value \notin withdrawn
             PROVE  now < issued[req[r].value]
  BY DEF LastsItsSearch, Honoured
<1>1. now \in Nat /\ issued[req[r].value] \in Nat /\ req[r].since \in Nat
  BY TokenAssumption DEF TInv, TokenTypeOK, Carried, Retrieval
<1>2. req[r].since + Timeout < issued[req[r].value]
  BY DEF TInv, Outlasts
<1>3. now <= req[r].since + Timeout
  BY DEF InTime
<1> QED
  BY <1>1, <1>2, <1>3, TokenAssumption

(* A token whose refusal the server was told is never sent again, and one  *)
(* taken from the field lasts as long as its search, unless the provider   *)
(* withdraws it: the margin covers the time-outs of both requests.         *)
THEOREM TokenIsSafe == TokenSpec => []TokenSafe
<1>1. TokenInit => TInv
  BY InitTInv
<1>2. TInv /\ [TokenNext]_tokenVars => TInv'
  BY NextTInv
<1>3. TInv => TokenSafe
  BY TInvIsSafe
<1> QED
  BY <1>1, <1>2, <1>3, PTL DEF TokenSpec

-----------------------------------------------------------------------------
(* The rate limit.  An address is let through in the order of the clock,   *)
(* and 2 * Limit of its times are never within one window.                 *)
Apart(times) ==
  /\ \A i, j \in 1 .. Len(times) : i <= j => times[i] <= times[j]
  /\ \A i, j \in 1 .. Len(times) :
       j = i + 2 * Limit - 1 => times[i] + Window <= times[j]

(* A record began with the first of the requests it counts, and what lies  *)
(* Limit before that was a window earlier.                                 *)
Opened(record, times) ==
  \E o \in 1 .. Len(times) :
    /\ o = Len(times) - record.count + 1
    /\ record.until = times[o] + Window
    /\ \A i \in 1 .. Len(times) : i + Limit <= o => times[i] + Window <= times[o]

(* Without a record, what lies Limit back is a window ago.                 *)
Quiet(times, t) ==
  \A i \in 1 .. Len(times) : i + Limit <= Len(times) + 1 => times[i] + Window <= t

Records == [count : 0 .. Limit, until : 0 .. LastInstant + Window]
Times == Seq(0 .. LastInstant)
Refusal == [at : 0 .. LastInstant, had : Nat, busy : Nat]
Rows == Seq(Refusal)

Admissions == [Ips -> Times]
Refusals == [Ips -> Rows]

(* The refusals since the last admission have a cause, and the later of    *)
(* two within a window too, unless the table is full; while there is a     *)
(* record, all fall in its window and after its last request.              *)
Row(record, row) ==
  /\ \A i \in 1 .. Len(row) : Caused(row[i])
  /\ \A i, j \in 1 .. Len(row) :
       i <= j => row[j].at < row[i].at + Window \/ row[j].busy >= MaxIps
  /\ record.count > 0 =>
       \A i \in 1 .. Len(row) :
         record.count = Limit /\ record.until <= row[i].at + Window /\ row[i].at < record.until

OfAddress(record, times, row, t) ==
  /\ Apart(times) /\ \A i \in 1 .. Len(times) : times[i] <= t
  /\ IF record.count > 0 THEN Opened(record, times) ELSE Quiet(times, t)
  /\ Row(record, row)

LimitInv ==
  /\ LimitTypeOK /\ admitted \in Admissions /\ refusals \in Refusals
  /\ \A ip \in Ips : OfAddress(requests[ip], admitted[ip], refusals[ip], clock)

-----------------------------------------------------------------------------
LEMMA Entries ==
  ASSUME NEW S, NEW s \in Seq(S)
  PROVE  Len(s) \in Nat /\ DOMAIN s = 1 .. Len(s) /\ \A i \in 1 .. Len(s) : s[i] \in S
OBVIOUS

(* Every nonempty set of naturals has a smallest element.                  *)
LEMMA HasSmallest ==
  ASSUME NEW S \in SUBSET Nat, S # {}
  PROVE  \E m \in S : \A k \in S : m <= k
<1>1. PICK m \in S : \A k \in S : ~(<<k, m>> \in OpToRel(<, Nat))
  BY NatLessThanWellFounded, WFMin
<1>2. \A k \in S : ~(k < m)
  BY <1>1 DEF OpToRel
<1> QED
  BY <1>2

(* So a set of indices has as many as lie from its first on at most.       *)
LEMMA SpanBounds ==
  ASSUME NEW S \in SUBSET Nat, NEW d \in Nat, \A i, j \in S : j <= i + d
  PROVE  Cardinality(S) <= d + 1
<1>1. CASE S = {}
  BY <1>1, FS_EmptySet
<1>2. CASE S # {}
  <2>1. PICK m \in S : \A k \in S : m <= k
    BY <1>2, HasSmallest
  <2>2. S \subseteq m .. m + d
    BY <2>1
  <2>3. IsFiniteSet(m .. m + d) /\ Cardinality(m .. m + d) = d + 1
    BY <2>1, FS_Interval
  <2> QED
    BY <2>2, <2>3, FS_Subset
<1> QED
  BY <1>1, <1>2

RecentOf(ip, t) ==
  {i \in DOMAIN admitted[ip] : t - Window < admitted[ip][i] /\ admitted[ip][i] <= t}

LEMMA RecentIs ==
  ASSUME NEW ip, NEW t \in Int, admitted[ip] \in Times
  PROVE  /\ RecentOf(ip, t) \subseteq 1 .. Len(admitted[ip])
         /\ IsFiniteSet(RecentOf(ip, t)) /\ Cardinality(RecentOf(ip, t)) \in Nat
         /\ Recent(ip, t) = Cardinality(RecentOf(ip, t))
<1>1. RecentOf(ip, t) \in SUBSET (1 .. Len(admitted[ip])) /\ Len(admitted[ip]) \in Nat
  BY DEF RecentOf
<1>2. IsFiniteSet(1 .. Len(admitted[ip]))
  BY <1>1, FS_Interval
<1> QED
  BY <1>1, <1>2, FS_Subset, FS_CardinalityType DEF Recent, RecentOf

(* A burst across the border of two windows is less than twice the limit.  *)
LEMMA BurstIsBound ==
  ASSUME LimitInv, NEW ip \in Ips, NEW t \in Int
  PROVE  Recent(ip, t) <= 2 * Limit - 1
<1> DEFINE times == admitted[ip]
<1>1. times \in Times /\ Apart(times) /\ Limit \in Nat /\ Limit > 0 /\ Window \in Nat
  BY LimitAssumption DEF LimitInv, Admissions, OfAddress
<1>2. RecentOf(ip, t) \subseteq 1 .. Len(times) /\ Len(times) \in Nat
      /\ Recent(ip, t) = Cardinality(RecentOf(ip, t))
  BY <1>1, RecentIs
<1>3. ASSUME NEW i \in RecentOf(ip, t), NEW j \in RecentOf(ip, t), j > i + 2 * Limit - 2
      PROVE  FALSE
  <2>1. i \in 1 .. Len(times) /\ j \in 1 .. Len(times)
    BY <1>2
  <2> DEFINE k == i + 2 * Limit - 1
  <2>2. k \in 1 .. Len(times) /\ k <= j
    BY <1>1, <1>2, <1>3, <2>1
  <2>3. times[i] + Window <= times[k] /\ times[k] <= times[j]
    BY <1>1, <2>1, <2>2 DEF Apart
  <2>4. times[i] \in Int /\ times[k] \in Int /\ times[j] \in Int
    <3>1. \A m \in 1 .. Len(times) : times[m] \in 0 .. LastInstant
      BY <1>1, Entries DEF Times
    <3>2. 0 .. LastInstant \subseteq Int
      BY LimitAssumption
    <3> HIDE DEF times, k
    <3> QED
      BY <2>1, <2>2, <3>1, <3>2
  <2>5. t - Window < times[i] /\ times[j] <= t
    BY DEF RecentOf
  <2> QED
    BY <1>1, <2>3, <2>4, <2>5
<1>4. \A i, j \in RecentOf(ip, t) : j <= i + (2 * Limit - 2)
  BY <1>1, <1>2, <1>3
<1>5. RecentOf(ip, t) \in SUBSET Nat /\ 2 * Limit - 2 \in Nat
  BY <1>1, <1>2
<1>6. Cardinality(RecentOf(ip, t)) <= (2 * Limit - 2) + 1
  BY <1>4, <1>5, SpanBounds
<1> QED
  BY <1>1, <1>2, <1>6

LEMMA LimitInvIsSafe == LimitInv => LimitSafe
<1> SUFFICES ASSUME LimitInv PROVE LimitSafe
  OBVIOUS
<1>1. BurstBound
  BY BurstIsBound DEF BurstBound, LimitInv, LimitTypeOK
<1>2. RefusedForCause
  <2> SUFFICES ASSUME NEW ip \in Ips, NEW i \in DOMAIN refusals[ip]
               PROVE  Caused(refusals[ip][i])
    BY DEF RefusedForCause
  <2>1. refusals[ip] \in Rows /\ Row(requests[ip], refusals[ip])
    BY DEF LimitInv, OfAddress, Refusals
  <2>2. i \in 1 .. Len(refusals[ip])
    BY <2>1, Entries DEF Rows
  <2> QED
    BY <2>1, <2>2 DEF Row
<1>3. MinuteIsEnough
  <2> SUFFICES ASSUME NEW ip \in Ips, NEW i \in DOMAIN refusals[ip],
                      NEW j \in DOMAIN refusals[ip], i < j,
                      refusals[ip][j].at >= refusals[ip][i].at + Window
               PROVE  refusals[ip][j].busy >= MaxIps
    BY DEF MinuteIsEnough
  <2> DEFINE row == refusals[ip]
  <2>1. row \in Rows /\ Row(requests[ip], row)
    BY DEF LimitInv, OfAddress, Refusals
  <2>2. i \in 1 .. Len(row) /\ j \in 1 .. Len(row)
    BY <2>1, Entries DEF Rows
  <2>3. row[i] \in Refusal /\ row[j] \in Refusal
    BY <2>1, <2>2, Entries DEF Rows
  <2>4. row[i].at \in Int /\ row[j].at \in Int
    BY <2>3, LimitAssumption DEF Refusal
  <2>5. i <= j
    BY <2>2
  <2>6. row[j].at < row[i].at + Window \/ row[j].busy >= MaxIps
    BY <2>1, <2>2, <2>5 DEF Row
  <2> HIDE DEF row
  <2>7. row[j].at >= row[i].at + Window
    BY DEF row
  <2> QED
    BY <2>4, <2>6, <2>7, LimitAssumption DEF row
<1> QED
  BY <1>1, <1>2, <1>3 DEF LimitInv, LimitSafe

-----------------------------------------------------------------------------
(* One address.                                                            *)
LEMMA TimesAre ==
  ASSUME NEW times \in Times
  PROVE  Len(times) \in Nat /\ \A i \in 1 .. Len(times) : times[i] \in Nat
BY Entries, LimitAssumption DEF Times

LEMMA PruneKeeps ==
  ASSUME NEW record \in Records, NEW times \in Times, NEW row \in Rows, NEW t \in Nat,
         OfAddress(record, times, row, t), record.until <= t
  PROVE  OfAddress(NoRecord, times, row, t)
<1>1. Limit \in Nat /\ Limit > 0 /\ Window \in Nat
  BY LimitAssumption
<1>2. Len(times) \in Nat /\ \A i \in 1 .. Len(times) : times[i] \in Nat
  BY TimesAre
<1>3. NoRecord.count = 0
  BY DEF NoRecord
<1>4. Quiet(times, t)
  <2>1. CASE record.count > 0
    <3>1. PICK o \in 1 .. Len(times) :
            o = Len(times) - record.count + 1 /\ record.until = times[o] + Window
      BY <2>1 DEF OfAddress, Opened
    <3>2. record.count \in 0 .. Limit
      BY DEF Records
    <3>3. ASSUME NEW i \in 1 .. Len(times), i + Limit <= Len(times) + 1
          PROVE  times[i] + Window <= t
      <4>1. i <= o
        BY <1>1, <1>2, <3>1, <3>2, <3>3
      <4>2. times[i] <= times[o]
        BY <3>1, <4>1 DEF OfAddress, Apart
      <4>3. times[i] \in Nat /\ times[o] \in Nat
        BY <1>2
      <4> QED
        BY <1>1, <3>1, <4>2, <4>3
    <3> QED
      BY <3>3 DEF Quiet
  <2>2. CASE ~(record.count > 0)
    BY <2>2 DEF OfAddress
  <2> QED
    BY <2>1, <2>2
<1>5. Row(NoRecord, row)
  BY <1>3 DEF OfAddress, Row
<1> QED
  BY <1>3, <1>4, <1>5 DEF OfAddress

LEMMA AdmitKeeps ==
  ASSUME NEW record \in Records, NEW times \in Times, NEW row \in Rows,
         NEW t \in 0 .. LastInstant, NEW new,
         OfAddress(record, times, row, t), record.count < Limit,
         new.count = record.count + 1,
         new.until = IF record.count > 0 THEN record.until ELSE t + Window
  PROVE  OfAddress(new, Append(times, t), <<>>, t)
<1> DEFINE n == Len(times)
           more == Append(times, t)
<1>1. Limit \in Nat /\ Limit > 0 /\ Window \in Nat /\ t \in Nat
      /\ record.count \in Nat
  BY LimitAssumption DEF Records
<1>2. n \in Nat /\ \A i \in 1 .. n : times[i] \in Nat
  BY TimesAre
<1>3. /\ Len(more) = n + 1 /\ more[n + 1] = t
      /\ \A i \in 1 .. n : more[i] = times[i]
  BY Entries DEF Times
<1> HIDE DEF more
<1>4. \A i \in 1 .. n : times[i] <= t
  BY DEF OfAddress
<1>5. Apart(more)
  <2>1. ASSUME NEW i \in 1 .. n + 1, NEW j \in 1 .. n + 1, i <= j
        PROVE  more[i] <= more[j]
    <3>1. CASE j = n + 1
      BY <1>1, <1>2, <1>3, <1>4, <3>1
    <3>2. CASE j # n + 1
      <4>1. i \in 1 .. n /\ j \in 1 .. n
        BY <1>2, <2>1, <3>2
      <4> QED
        BY <1>3, <2>1, <4>1 DEF OfAddress, Apart
    <3> QED
      BY <3>1, <3>2
  <2>2. ASSUME NEW i \in 1 .. n + 1, NEW j \in 1 .. n + 1, j = i + 2 * Limit - 1
        PROVE  more[i] + Window <= more[j]
    <3>1. i \in 1 .. n
      BY <1>1, <1>2, <2>2
    <3>2. CASE j = n + 1
      <4>1. CASE record.count > 0
        <5>1. PICK o \in 1 .. n :
                /\ o = n - record.count + 1
                /\ \A k \in 1 .. n : k + Limit <= o => times[k] + Window <= times[o]
          BY <4>1 DEF OfAddress, Opened
        <5>2. i + Limit <= o
          BY <1>1, <1>2, <2>2, <3>2, <5>1
        <5>3. times[i] + Window <= times[o] /\ times[o] <= t
          BY <1>4, <3>1, <5>1, <5>2
        <5>4. times[i] \in Nat /\ times[o] \in Nat
          BY <1>2, <3>1
        <5> QED
          BY <1>1, <1>3, <3>1, <3>2, <5>3, <5>4
      <4>2. CASE ~(record.count > 0)
        <5>1. i + Limit <= n + 1
          BY <1>1, <1>2, <2>2, <3>2
        <5> QED
          BY <1>3, <3>1, <3>2, <4>2, <5>1 DEF OfAddress, Quiet
      <4> QED
        BY <4>1, <4>2
    <3>3. CASE j # n + 1
      <4>1. j \in 1 .. n
        BY <1>2, <3>3
      <4> QED
        BY <1>3, <2>2, <3>1, <4>1 DEF OfAddress, Apart
    <3> QED
      BY <3>2, <3>3
  <2> QED
    BY <1>3, <2>1, <2>2 DEF Apart
<1>6. \A i \in 1 .. Len(more) : more[i] <= t
  BY <1>1, <1>2, <1>3, <1>4
<1>7. Opened(new, more)
  <2>1. CASE record.count > 0
    <3>1. PICK o \in 1 .. n :
            /\ o = n - record.count + 1 /\ record.until = times[o] + Window
            /\ \A k \in 1 .. n : k + Limit <= o => times[k] + Window <= times[o]
      BY <2>1 DEF OfAddress, Opened
    <3>2. o \in 1 .. Len(more) /\ o = Len(more) - new.count + 1 /\ more[o] = times[o]
      BY <1>1, <1>2, <1>3, <3>1
    <3>3. \A k \in 1 .. Len(more) : k + Limit <= o => k \in 1 .. n
      BY <1>1, <1>2, <1>3, <3>1
    <3>4. new.until = more[o] + Window
      BY <2>1, <3>1, <3>2
    <3>5. \A k \in 1 .. Len(more) : k + Limit <= o => more[k] + Window <= more[o]
      BY <1>3, <3>1, <3>2, <3>3
    <3> QED
      BY <3>2, <3>4, <3>5 DEF Opened
  <2>2. CASE ~(record.count > 0)
    <3>1. new.count = 1 /\ new.until = t + Window
      BY <1>1, <2>2
    <3>2. n + 1 \in 1 .. Len(more) /\ n + 1 = Len(more) - new.count + 1
      BY <1>2, <1>3, <3>1
    <3>3. \A k \in 1 .. Len(more) : k + Limit <= n + 1 => k \in 1 .. n
      BY <1>1, <1>2, <1>3
    <3>4. \A k \in 1 .. Len(more) : k + Limit <= n + 1 => more[k] + Window <= more[n + 1]
      BY <1>3, <2>2, <3>3 DEF OfAddress, Quiet
    <3> QED
      BY <1>3, <3>1, <3>2, <3>4 DEF Opened
  <2> QED
    BY <2>1, <2>2
<1>8. Row(new, <<>>)
  BY DEF Row
<1> QED
  BY <1>1, <1>5, <1>6, <1>7, <1>8 DEF OfAddress, more

(* One refusal more, for the count or for want of space.                   *)
LEMMA RefuseKeeps ==
  ASSUME NEW record \in Records, NEW times \in Times, NEW row \in Rows,
         NEW t \in 0 .. LastInstant, NEW e \in Refusal, e.at = t,
         OfAddress(record, times, row, t),
         \/ record.count = Limit /\ t < record.until /\ e.had >= Limit
         \/ ~(record.count > 0) /\ e.busy >= MaxIps
  PROVE  Append(row, e) \in Rows /\ OfAddress(record, times, Append(row, e), t)
<1> DEFINE n == Len(row)
           more == Append(row, e)
<1>1. Limit \in Nat /\ Limit > 0 /\ Window \in Nat /\ Window > 0 /\ t \in Nat
      /\ record.until \in Nat
  BY LimitAssumption DEF Records
<1>2. n \in Nat /\ \A i \in 1 .. n : row[i].at \in Nat
  <2>1. n \in Nat /\ \A i \in 1 .. n : row[i] \in Refusal
    BY Entries DEF Rows
  <2> QED
    BY <2>1, LimitAssumption DEF Refusal
<1>3. /\ more \in Rows /\ Len(more) = n + 1 /\ more[n + 1] = e
      /\ \A i \in 1 .. n : more[i] = row[i]
  BY AppendProperties DEF Rows
<1> HIDE DEF more
<1>4. /\ \A i \in 1 .. n : Caused(row[i])
      /\ \A i, j \in 1 .. n :
           i <= j => row[j].at < row[i].at + Window \/ row[j].busy >= MaxIps
      /\ record.count > 0 =>
           \A i \in 1 .. n : record.until <= row[i].at + Window /\ row[i].at < record.until
  BY DEF OfAddress, Row
<1>5. Caused(e)
  BY DEF Caused
<1>6. \A i \in 1 .. n + 1 : Caused(more[i])
  BY <1>2, <1>3, <1>4, <1>5
<1>7. record.count > 0 =>
        /\ record.count = Limit
        /\ \A i \in 1 .. n + 1 :
             record.until <= more[i].at + Window /\ more[i].at < record.until
  <2> SUFFICES ASSUME record.count > 0
               PROVE  /\ record.count = Limit
                      /\ \A i \in 1 .. n + 1 :
                           record.until <= more[i].at + Window /\ more[i].at < record.until
    OBVIOUS
  <2>1. PICK o \in 1 .. Len(times) : record.until = times[o] + Window /\ times[o] <= t
    BY DEF OfAddress, Opened
  <2>2. times[o] \in Nat
    BY TimesAre
  <2>3. record.until <= t + Window
    BY <1>1, <2>1, <2>2
  <2> QED
    BY <1>2, <1>3, <1>4, <2>3
<1>8. ASSUME NEW i \in 1 .. n + 1, NEW j \in 1 .. n + 1, i <= j
      PROVE  more[j].at < more[i].at + Window \/ more[j].busy >= MaxIps
  <2>1. CASE j \in 1 .. n
    BY <1>2, <1>3, <1>4, <1>8, <2>1
  <2>2. CASE j = n + 1 /\ i = n + 1
    BY <1>1, <1>3, <2>2
  <2>3. CASE j = n + 1 /\ i \in 1 .. n /\ record.count > 0
    BY <1>1, <1>2, <1>3, <1>4, <1>7, <2>3
  <2>4. CASE j = n + 1 /\ ~(record.count > 0)
    BY <1>1, <1>3, <2>4
  <2> QED
    BY <1>2, <2>1, <2>2, <2>3, <2>4
<1>9. Row(record, more)
  BY <1>3, <1>6, <1>7, <1>8 DEF Row
<1> QED
  BY <1>3, <1>9 DEF OfAddress, more

(* A refusal for the count comes after Limit admissions in a window.       *)
LEMMA HadEnough ==
  ASSUME LimitTypeOK, NEW ip \in Ips, NEW record \in Records, NEW row,
         admitted[ip] \in Times, OfAddress(record, admitted[ip], row, clock),
         record.count = Limit, clock < record.until
  PROVE  Recent(ip, clock) \in Nat /\ Recent(ip, clock) >= Limit
<1> DEFINE times == admitted[ip]
<1>1. Limit \in Nat /\ Limit > 0 /\ Window \in Nat /\ clock \in Nat
  BY LimitAssumption DEF LimitTypeOK
<1>2. Len(times) \in Nat /\ \A i \in 1 .. Len(times) : times[i] \in Nat
  BY TimesAre
<1>3. PICK o \in 1 .. Len(times) :
        o = Len(times) - Limit + 1 /\ record.until = times[o] + Window
  BY <1>1 DEF OfAddress, Opened
<1>4. o .. Len(times) \subseteq RecentOf(ip, clock)
  <2> SUFFICES ASSUME NEW i \in o .. Len(times) PROVE i \in RecentOf(ip, clock)
    OBVIOUS
  <2>1. i \in 1 .. Len(times) /\ o <= i
    BY <1>2, <1>3
  <2>2. times[o] <= times[i] /\ times[i] <= clock
    BY <1>3, <2>1 DEF OfAddress, Apart
  <2>3. times[o] \in Nat /\ times[i] \in Nat
    BY <1>2, <2>1
  <2>4. clock - Window < times[i]
    <3>1. clock < times[o] + Window
      BY <1>3
    <3> HIDE DEF times
    <3> QED
      BY <1>1, <2>2, <2>3, <3>1
  <2>5. i \in DOMAIN times
    BY <2>1, Entries DEF Times
  <2> QED
    BY <2>2, <2>4, <2>5 DEF RecentOf
<1>5. Cardinality(o .. Len(times)) = Limit
  BY <1>1, <1>2, <1>3, FS_Interval
<1>6. IsFiniteSet(RecentOf(ip, clock)) /\ Recent(ip, clock) = Cardinality(RecentOf(ip, clock))
      /\ Cardinality(RecentOf(ip, clock)) \in Nat
  BY <1>1, RecentIs
<1> QED
  BY <1>4, <1>5, <1>6, FS_Subset

-----------------------------------------------------------------------------
(* The table.                                                              *)
LEMMA SizeIs ==
  ASSUME NEW table
  PROVE  LET counted == {ip \in Ips : Counting(table, ip)}
         IN  IsFiniteSet(counted) /\ Cardinality(counted) \in Nat
             /\ Size(table) = Cardinality(counted)
<1>1. {ip \in Ips : Counting(table, ip)} \in SUBSET Ips
  OBVIOUS
<1> QED
  BY <1>1, LimitAssumption, FS_Subset, FS_CardinalityType DEF Size

LEMMA PrunedFits ==
  ASSUME LimitInv
  PROVE  /\ Pruned \in [Ips -> Records] /\ Size(Pruned) <= MaxIps
         /\ \A ip \in Ips :
              /\ OfAddress(Pruned[ip], admitted[ip], refusals[ip], clock)
              /\ Pruned[ip].count > 0 => clock < Pruned[ip].until
<1>1. /\ clock \in Nat /\ requests \in [Ips -> Records] /\ NoRecord \in Records
      /\ admitted \in [Ips -> Times] /\ refusals \in [Ips -> Rows]
  BY LimitAssumption
    DEF LimitInv, LimitTypeOK, Records, Admissions, Refusals, NoRecord
<1>2. Pruned \in [Ips -> Records]
  BY <1>1 DEF Pruned
<1>3. ASSUME NEW ip \in Ips
      PROVE  /\ OfAddress(Pruned[ip], admitted[ip], refusals[ip], clock)
             /\ Pruned[ip].count > 0 => clock < Pruned[ip].until
  <2>1. requests[ip] \in Records /\ admitted[ip] \in Times /\ refusals[ip] \in Rows
        /\ OfAddress(requests[ip], admitted[ip], refusals[ip], clock)
    BY <1>1 DEF LimitInv
  <2>2. CASE requests[ip].until <= clock
    <3>1. Pruned[ip] = NoRecord
      BY <2>2 DEF Pruned, Ended
    <3>2. OfAddress(NoRecord, admitted[ip], refusals[ip], clock)
      BY <1>1, <2>1, <2>2, PruneKeeps
    <3> QED
      BY <3>1, <3>2 DEF NoRecord
  <2>3. CASE ~(requests[ip].until <= clock)
    <3>1. Pruned[ip] = requests[ip]
      BY <2>3 DEF Pruned, Ended
    <3>2. requests[ip].until \in Nat
      BY <2>1, LimitAssumption DEF Records
    <3> QED
      BY <1>1, <2>1, <2>3, <3>1, <3>2
  <2> QED
    BY <2>2, <2>3
<1>4. Size(Pruned) <= MaxIps
  <2> DEFINE S == {ip \in Ips : Counting(requests, ip)}
             T == {ip \in Ips : Counting(Pruned, ip)}
  <2>1. T \subseteq S
    BY DEF Pruned, Counting, NoRecord
  <2>2. IsFiniteSet(S) /\ Cardinality(S) \in Nat /\ Size(requests) = Cardinality(S)
    BY SizeIs
  <2>3. Cardinality(T) \in Nat /\ Size(Pruned) = Cardinality(T)
    BY SizeIs
  <2>4. Cardinality(T) <= Cardinality(S)
    BY <2>1, <2>2, FS_Subset
  <2>5. Size(requests) <= MaxIps
    BY DEF LimitInv, LimitTypeOK
  <2> QED
    BY <2>2, <2>3, <2>4, <2>5, LimitAssumption
<1> QED
  BY <1>2, <1>3, <1>4

(* One address more is counted at most, and only when there was room.      *)
LEMMA SizeWithOneMore ==
  ASSUME NEW table \in [Ips -> Records], NEW ip \in Ips, NEW new \in Records,
         Size(table) <= MaxIps, Counting(table, ip) \/ ~Full(table)
  PROVE  Size([table EXCEPT ![ip] = new]) <= MaxIps
<1> DEFINE S == {q \in Ips : Counting(table, q)}
           more == [table EXCEPT ![ip] = new]
           T == {q \in Ips : Counting(more, q)}
<1>1. T \subseteq S \cup {ip}
  BY DEF Counting
<1>2. IsFiniteSet(S) /\ Cardinality(S) \in Nat /\ Size(table) = Cardinality(S)
  BY SizeIs
<1>3. Cardinality(T) \in Nat /\ Size(more) = Cardinality(T)
  BY SizeIs
<1>4. /\ IsFiniteSet(S \cup {ip})
      /\ Cardinality(S \cup {ip}) =
           IF ip \in S THEN Cardinality(S) ELSE Cardinality(S) + 1
  BY <1>2, FS_AddElement
<1>5. Cardinality(T) <= Cardinality(S \cup {ip})
  BY <1>1, <1>4, FS_Subset
<1>6. CASE ip \in S
  BY <1>2, <1>3, <1>4, <1>5, <1>6, LimitAssumption
<1>7. CASE ip \notin S
  <2>1. Size(table) < MaxIps
    BY <1>2, <1>7, LimitAssumption DEF Full
  <2> QED
    BY <1>2, <1>3, <1>4, <1>5, <1>7, <2>1, LimitAssumption
<1> QED
  BY <1>6, <1>7

LEMMA InitLimit == LimitInit => LimitInv
<1> SUFFICES ASSUME LimitInit PROVE LimitInv
  OBVIOUS
<1>1. LimitTypeOK
  <2>1. {ip \in Ips : Counting(requests, ip)} = {}
    BY DEF LimitInit, NoRecord, Counting
  <2>2. Size(requests) = 0
    BY <2>1, FS_EmptySet DEF Size
  <2> QED
    BY <2>2, LimitAssumption DEF LimitInit, LimitTypeOK, NoRecord
<1>2. admitted \in Admissions /\ refusals \in Refusals
  BY DEF LimitInit, Admissions, Refusals, Times, Rows
<1>3. \A ip \in Ips : OfAddress(requests[ip], admitted[ip], refusals[ip], clock)
  BY DEF LimitInit, NoRecord, OfAddress, Apart, Quiet, Row
<1> QED
  BY <1>1, <1>2, <1>3 DEF LimitInv

LEMMA PassKeeps ==
  ASSUME LimitInv, NEW ip \in Ips, Pass(ip)
  PROVE  LimitInv'
<1> DEFINE new == OneMore(Pruned[ip])
<1>1. /\ Pruned \in [Ips -> Records] /\ Size(Pruned) <= MaxIps
      /\ \A q \in Ips : OfAddress(Pruned[q], admitted[q], refusals[q], clock)
  BY PrunedFits
<1>2. /\ clock \in 0 .. LastInstant /\ asked \in [Ips -> 0 .. MaxRequests]
      /\ admitted \in [Ips -> Times] /\ refusals \in [Ips -> Rows]
  BY DEF LimitInv, LimitTypeOK, Admissions, Refusals
<1>3. /\ Pruned[ip].count < Limit /\ (Counting(Pruned, ip) \/ ~Full(Pruned))
      /\ requests' = [Pruned EXCEPT ![ip] = new]
      /\ admitted' = [admitted EXCEPT ![ip] = Append(admitted[ip], clock)]
      /\ refusals' = [refusals EXCEPT ![ip] = <<>>]
      /\ clock' = clock /\ asked' \in [Ips -> 0 .. MaxRequests]
  BY <1>1, <1>2, LimitAssumption DEF Pass, Arrives
<1>4. /\ new.count = Pruned[ip].count + 1
      /\ new.until = IF Pruned[ip].count > 0 THEN Pruned[ip].until ELSE clock + Window
      /\ new \in Records
  BY <1>1, <1>2, <1>3, LimitAssumption DEF OneMore, Records
<1> HIDE DEF new
<1>5. Append(admitted[ip], clock) \in Times /\ <<>> \in Rows
  BY <1>2 DEF Times, Rows
<1>6. LimitTypeOK'
  <2>1. requests' \in [Ips -> Records] /\ Size(requests)' <= MaxIps
    BY <1>1, <1>3, <1>4, SizeWithOneMore DEF Size, Counting
  <2> QED
    BY <1>2, <1>3, <2>1 DEF LimitTypeOK, Records
<1>7. admitted' \in Admissions /\ refusals' \in Refusals
  BY <1>2, <1>3, <1>5 DEF Admissions, Refusals
<1>8. OfAddress(new, Append(admitted[ip], clock), <<>>, clock)
  BY <1>1, <1>2, <1>3, <1>4, AdmitKeeps
<1>9. \A q \in Ips : OfAddress(requests'[q], admitted'[q], refusals'[q], clock)
  BY <1>1, <1>2, <1>3, <1>8
<1> QED
  BY <1>3, <1>6, <1>7, <1>9 DEF LimitInv

(* The others admitted in the last window are a finite number, and when    *)
(* the table is full, as many as it holds.                                 *)
LEMMA BusyIs ==
  ASSUME NEW ip \in Ips
  PROVE  LET others == {o \in Ips \ {ip} : Recent(o, clock) > 0}
         IN  IsFiniteSet(others) /\ Busy(ip) \in Nat /\ Busy(ip) = Cardinality(others)
<1>1. {o \in Ips \ {ip} : Recent(o, clock) > 0} \in SUBSET Ips
  OBVIOUS
<1> QED
  BY <1>1, LimitAssumption, FS_Subset, FS_CardinalityType DEF Busy

LEMMA CountingIsRecent ==
  ASSUME LimitInv, NEW q \in Ips, Counting(Pruned, q)
  PROVE  Recent(q, clock) > 0
<1> DEFINE times == admitted[q]
<1>1. /\ Pruned[q] \in Records /\ OfAddress(Pruned[q], times, refusals[q], clock)
      /\ Pruned[q].count > 0 /\ clock < Pruned[q].until
  BY PrunedFits DEF Counting
<1>2. /\ Window \in Nat /\ clock \in Nat /\ times \in Times
      /\ \A i \in 1 .. Len(times) : times[i] \in Nat
  BY LimitAssumption, TimesAre DEF LimitInv, LimitTypeOK, Admissions
<1>3. PICK o \in 1 .. Len(times) : Pruned[q].until = times[o] + Window /\ times[o] <= clock
  BY <1>1 DEF OfAddress, Opened
<1>4. o \in RecentOf(q, clock)
  <2>1. clock < times[o] + Window
    BY <1>1, <1>3
  <2>2. o \in DOMAIN times /\ times[o] \in Nat
    BY <1>2, <1>3, Entries DEF Times
  <2> HIDE DEF times
  <2>3. clock - Window < times[o] /\ times[o] <= clock
    BY <1>2, <1>3, <2>1, <2>2
  <2> QED
    BY <2>2, <2>3 DEF RecentOf, times
<1>5. IsFiniteSet(RecentOf(q, clock)) /\ Recent(q, clock) = Cardinality(RecentOf(q, clock))
      /\ Cardinality(RecentOf(q, clock)) \in Nat
  BY <1>2, RecentIs
<1>6. {o} \subseteq RecentOf(q, clock) /\ Cardinality({o}) = 1
  BY <1>4, FS_Singleton
<1> QED
  BY <1>5, <1>6, FS_Subset

LEMMA BusyEnough ==
  ASSUME LimitInv, NEW ip \in Ips, ~Counting(Pruned, ip), Full(Pruned)
  PROVE  Busy(ip) >= MaxIps
<1> DEFINE others == {o \in Ips \ {ip} : Recent(o, clock) > 0}
           counted == {q \in Ips : Counting(Pruned, q)}
<1>1. IsFiniteSet(others) /\ Busy(ip) \in Nat /\ Busy(ip) = Cardinality(others)
  BY BusyIs
<1>2. Cardinality(counted) \in Nat /\ Cardinality(counted) >= MaxIps
  BY SizeIs DEF Full
<1>3. counted \subseteq others
  BY CountingIsRecent
<1>4. Cardinality(counted) <= Cardinality(others)
  BY <1>1, <1>3, FS_Subset
<1> QED
  BY <1>1, <1>2, <1>4, LimitAssumption

LEMMA RefusedKeeps ==
  ASSUME LimitInv, NEW ip \in Ips, TurnAway(ip) \/ NoSpace(ip)
  PROVE  LimitInv'
<1> DEFINE e == [at |-> clock, had |-> Recent(ip, clock), busy |-> Busy(ip)]
           more == Append(refusals[ip], e)
<1>1. /\ Pruned \in [Ips -> Records] /\ Size(Pruned) <= MaxIps
      /\ \A q \in Ips : OfAddress(Pruned[q], admitted[q], refusals[q], clock)
      /\ Pruned[ip].count > 0 => clock < Pruned[ip].until
  BY PrunedFits
<1>2. /\ LimitTypeOK /\ clock \in 0 .. LastInstant /\ asked \in [Ips -> 0 .. MaxRequests]
      /\ admitted \in [Ips -> Times] /\ refusals \in [Ips -> Rows]
  BY DEF LimitInv, LimitTypeOK, Admissions, Refusals
<1>3. /\ requests' = Pruned /\ admitted' = admitted /\ clock' = clock
      /\ refusals' = [refusals EXCEPT ![ip] = more]
      /\ asked' \in [Ips -> 0 .. MaxRequests]
  BY <1>1, <1>2, LimitAssumption DEF TurnAway, NoSpace, TooMany, Arrives, Refused
<1>4. e \in Refusal /\ e.at = clock /\ e.had = Recent(ip, clock) /\ e.busy = Busy(ip)
  <2>1. Recent(ip, clock) \in Nat
    BY <1>2, RecentIs, LimitAssumption
  <2>2. Busy(ip) \in Nat
    BY BusyIs
  <2> QED
    BY <1>2, <2>1, <2>2 DEF Refusal
<1> HIDE DEF e
<1>5. \/ Pruned[ip].count = Limit /\ clock < Pruned[ip].until /\ e.had >= Limit
      \/ ~(Pruned[ip].count > 0) /\ e.busy >= MaxIps
  <2>1. CASE TurnAway(ip)
    <3>1. Pruned[ip].count \in 0 .. Limit /\ Pruned[ip].count >= Limit
      BY <1>1, <2>1 DEF TurnAway, Records
    <3>2. Pruned[ip].count = Limit /\ clock < Pruned[ip].until
      BY <1>1, <3>1, LimitAssumption
    <3> QED
      BY <1>1, <1>2, <1>4, <3>2, HadEnough
  <2>2. CASE NoSpace(ip)
    BY <1>4, <2>2, BusyEnough DEF NoSpace, Counting
  <2> QED
    BY <2>1, <2>2
<1>6. more \in Rows /\ OfAddress(Pruned[ip], admitted[ip], more, clock)
  BY <1>1, <1>2, <1>4, <1>5, RefuseKeeps
<1> HIDE DEF more
<1>7. LimitTypeOK'
  <2>1. Size(requests)' <= MaxIps
    BY <1>1, <1>3 DEF Size, Counting
  <2> QED
    BY <1>1, <1>2, <1>3, <2>1 DEF LimitTypeOK, Records
<1>8. admitted' \in Admissions /\ refusals' \in Refusals
  BY <1>2, <1>3, <1>6 DEF Admissions, Refusals
<1>9. \A q \in Ips : OfAddress(requests'[q], admitted'[q], refusals'[q], clock)
  BY <1>1, <1>2, <1>3, <1>6
<1> QED
  BY <1>3, <1>7, <1>8, <1>9 DEF LimitInv

LEMMA PassesKeeps == LimitInv /\ Passes => LimitInv'
<1> SUFFICES ASSUME LimitInv, Passes PROVE LimitInv'
  OBVIOUS
<1>1. /\ clock \in Nat /\ clock' = clock + 1 /\ clock' \in 0 .. LastInstant
      /\ UNCHANGED <<requests, admitted, refusals, asked>>
  BY LimitAssumption DEF Passes, LimitInv, LimitTypeOK
<1>2. LimitTypeOK'
  BY <1>1 DEF LimitInv, LimitTypeOK, Size, Counting
<1>3. ASSUME NEW ip \in Ips
      PROVE  OfAddress(requests[ip], admitted[ip], refusals[ip], clock + 1)
  <2>1. \A i \in 1 .. Len(admitted[ip]) : admitted[ip][i] \in Nat
    BY TimesAre DEF LimitInv, Admissions
  <2>2. OfAddress(requests[ip], admitted[ip], refusals[ip], clock)
    BY DEF LimitInv
  <2>3. \A i \in 1 .. Len(admitted[ip]) : admitted[ip][i] <= clock + 1
    BY <1>1, <2>1, <2>2 DEF OfAddress
  <2>4. ASSUME Quiet(admitted[ip], clock) PROVE Quiet(admitted[ip], clock + 1)
    <3> SUFFICES ASSUME NEW i \in 1 .. Len(admitted[ip]),
                        i + Limit <= Len(admitted[ip]) + 1
                 PROVE  admitted[ip][i] + Window <= clock + 1
      BY DEF Quiet
    <3>1. admitted[ip][i] + Window <= clock
      BY <2>4 DEF Quiet
    <3>2. admitted[ip][i] + Window \in Nat
      BY <2>1, LimitAssumption
    <3> QED
      BY <1>1, <3>1, <3>2
  <2> QED
    BY <2>2, <2>3, <2>4 DEF OfAddress
<1> QED
  BY <1>1, <1>2, <1>3 DEF LimitInv

LEMMA NextLimit == LimitInv /\ [LimitNext]_limitVars => LimitInv'
<1> SUFFICES ASSUME LimitInv, [LimitNext]_limitVars PROVE LimitInv'
  OBVIOUS
<1>1. CASE UNCHANGED limitVars
  BY <1>1 DEF limitVars, LimitInv, LimitTypeOK, Size, Counting
<1>2. CASE LimitNext
  BY <1>2, PassKeeps, RefusedKeeps, PassesKeeps DEF LimitNext
<1> QED
  BY <1>1, <1>2

(* Windows that follow each other let a burst across their border, but     *)
(* never twice the limit within one minute; a refusal comes after as many  *)
(* requests in the last minute, or from a full table, and waiting a minute *)
(* is enough unless the table is full then.                                *)
THEOREM LimitHolds == LimitSpec => []LimitSafe
<1>1. LimitInit => LimitInv
  BY InitLimit
<1>2. LimitInv /\ [LimitNext]_limitVars => LimitInv'
  BY NextLimit
<1>3. LimitInv => LimitSafe
  BY LimitInvIsSafe
<1> QED
  BY <1>1, <1>2, <1>3, PTL DEF LimitSpec

-----------------------------------------------------------------------------
(* The form.                                                               *)
Enquiry ==
  [text : 1 .. MaxTexts, stage : {"way", "provider", "answered"},
   answer : {"none", "400", "413", "429", "503", "accepted", "sandbox"}]

(* The provider may have taken what was answered like this, and may yet    *)
(* take what is not answered.                                              *)
MayBeTaken(e) == e.stage = "answered" /\ e.answer \in {"503", "accepted"}
MayReach(e) == e.stage # "answered" \/ MayBeTaken(e)

Attempts == 1 .. Len(attempts)

Taken(t) == {i \in Attempts : attempts[i].text = t /\ MayBeTaken(attempts[i])}
Loose(t) == {i \in Attempts : attempts[i].text = t /\ MayReach(attempts[i])}

One(p) == IF p THEN 1 ELSE 0

FormHolds ==
  /\ setting \in Modes /\ notice \in Notices
  /\ texts \in 0 .. MaxTexts /\ text \in 0 .. texts /\ pending \in 0 .. Len(attempts)
  /\ attempts \in Seq(Enquiry) /\ Len(attempts) <= MaxAttempts
  /\ copies \in [1 .. MaxTexts -> Nat] /\ doubts \in [1 .. MaxTexts -> Nat]

(* What was accepted is no longer in the form nor on its way.              *)
Cleared ==
  /\ sure \subseteq 1 .. texts /\ text \notin sure
  /\ \A i \in Attempts : attempts[i].text \in 1 .. texts
  /\ pending # 0 => attempts[pending].text \notin sure

(* Only a server that delivers answers that it did.                        *)
Delivered ==
  /\ \A i \in Attempts :
       /\ attempts[i].stage = "provider" => setting # "off"
       /\ attempts[i].stage = "answered" /\ attempts[i].answer = "accepted" =>
            copies[attempts[i].text] > 0
  /\ \A t \in sure : copies[t] > 0

(* Every copy has its attempt; and of the attempts that may be copies, all *)
(* but the one the form waits for were told to be in doubt, or accepted.   *)
Told(t) ==
  /\ copies[t] <= Cardinality(Taken(t))
  /\ Cardinality(Loose(t) \ {pending}) <= doubts[t] + One(t \in sure)
  /\ doubts[t] + One(pending # 0) <= Len(attempts)

FormInv ==
  FormHolds /\ Cleared /\ Delivered /\ \A t \in 1 .. MaxTexts : Told(t)

-----------------------------------------------------------------------------
LEMMA AttemptsAre ==
  ASSUME FormHolds
  PROVE  /\ Len(attempts) \in Nat /\ DOMAIN attempts = Attempts
         /\ \A i \in Attempts : attempts[i] \in Enquiry
BY Entries DEF FormHolds, Attempts

LEMMA SetsAre ==
  ASSUME FormHolds, NEW t
  PROVE  /\ Taken(t) \subseteq Loose(t) /\ Loose(t) \subseteq Attempts
         /\ IsFiniteSet(Taken(t)) /\ Cardinality(Taken(t)) \in Nat
         /\ IsFiniteSet(Loose(t)) /\ Cardinality(Loose(t)) \in Nat
         /\ Cardinality(Taken(t)) <= Cardinality(Loose(t))
         /\ Cardinality(Taken(t)) <= Len(attempts)
<1>1. Taken(t) \in SUBSET Loose(t) /\ Loose(t) \in SUBSET Attempts
  BY DEF Taken, Loose, MayReach
<1>2. Len(attempts) \in Nat
  BY AttemptsAre
<1>3. IsFiniteSet(Attempts) /\ Cardinality(Attempts) = Len(attempts)
  <2>1. \A n \in Nat : IsFiniteSet(1 .. n) /\ Cardinality(1 .. n) = n
    BY FS_Interval
  <2> QED
    BY <1>2, <2>1 DEF Attempts
<1>4. IsFiniteSet(Loose(t)) /\ IsFiniteSet(Taken(t))
      /\ Cardinality(Taken(t)) <= Cardinality(Loose(t))
      /\ Cardinality(Taken(t)) <= Cardinality(Attempts)
  <2>1. IsFiniteSet(Loose(t))
    BY <1>1, <1>3, FS_Subset
  <2>2. Taken(t) \in SUBSET Attempts
    BY <1>1
  <2> QED
    BY <1>1, <1>3, <2>1, <2>2, FS_Subset
<1> QED
  BY <1>1, <1>3, <1>4, FS_CardinalityType

(* What lies within a finite set and one more element has one more at most.*)
LEMMA OneApart ==
  ASSUME NEW S, IsFiniteSet(S), NEW x
  PROVE  /\ Cardinality(S) \in Nat /\ Cardinality(S \ {x}) \in Nat
         /\ IsFiniteSet(S \ {x})
         /\ Cardinality(S) <= Cardinality(S \ {x}) + One(x \in S)
<1>1. /\ IsFiniteSet(S \ {x})
      /\ Cardinality(S \ {x}) = IF x \in S THEN Cardinality(S) - 1 ELSE Cardinality(S)
  BY FS_RemoveElement
<1>2. Cardinality(S) \in Nat /\ Cardinality(S \ {x}) \in Nat
  BY <1>1, FS_CardinalityType
<1> QED
  BY <1>1, <1>2 DEF One

LEMMA FormInvIsSafe == FormInv => FormSafe
<1> SUFFICES ASSUME FormInv PROVE FormSafe
  OBVIOUS
<1>1. FormHolds /\ Len(attempts) \in Nat /\ Len(attempts) <= MaxAttempts /\ MaxAttempts \in Nat
  BY AttemptsAre, FormAssumption DEF FormInv, FormHolds
<1>2. ASSUME NEW t \in 1 .. MaxTexts
      PROVE  /\ copies[t] \in 0 .. MaxAttempts /\ doubts[t] \in 0 .. MaxAttempts
             /\ copies[t] <= doubts[t] + 1
  <2>1. copies[t] \in Nat /\ doubts[t] \in Nat /\ Told(t)
    BY DEF FormInv, FormHolds
  <2>2. /\ Cardinality(Taken(t)) <= Cardinality(Loose(t))
        /\ Cardinality(Taken(t)) <= Len(attempts)
        /\ Cardinality(Taken(t)) \in Nat /\ Cardinality(Loose(t)) \in Nat
        /\ IsFiniteSet(Loose(t)) /\ Loose(t) \subseteq Attempts
    BY <1>1, SetsAre
  <2>3. /\ Cardinality(Loose(t) \ {pending}) \in Nat
        /\ Cardinality(Loose(t)) <= Cardinality(Loose(t) \ {pending}) + One(pending \in Loose(t))
    BY <2>2, OneApart
  <2>4. ~(pending \in Loose(t) /\ t \in sure)
    <3>1. pending \in Loose(t) => pending # 0 /\ attempts[pending].text = t
      BY <1>1 DEF Loose, Attempts
    <3> QED
      BY <3>1 DEF FormInv, Cleared
  <2>5. copies[t] <= doubts[t] + 1
    BY <2>1, <2>2, <2>3, <2>4 DEF Told, One
  <2>6. copies[t] <= MaxAttempts /\ doubts[t] <= MaxAttempts
    BY <1>1, <2>1, <2>2 DEF Told, One
  <2> QED
    BY <2>1, <2>5, <2>6, <1>1
<1>3. FormTypeOK
  BY <1>1, <1>2 DEF FormHolds, FormTypeOK
<1>4. AcceptedIsTaken
  BY DEF FormInv, Delivered, AcceptedIsTaken
<1> QED
  BY <1>2, <1>3, <1>4 DEF FormSafe, TwiceOnlyInDoubt

LEMMA InitForm == FormInit => FormInv
<1> SUFFICES ASSUME FormInit PROVE FormInv
  OBVIOUS
<1>1. Len(attempts) = 0 /\ Attempts = {} /\ attempts \in Seq(Enquiry)
  BY DEF FormInit, Attempts
<1>2. FormHolds
  BY <1>1, FormAssumption DEF FormInit, FormHolds, Notices
<1>3. Cleared /\ Delivered
  BY <1>1 DEF FormInit, Cleared, Delivered
<1>4. ASSUME NEW t \in 1 .. MaxTexts PROVE Told(t)
  <2>1. Taken(t) = {} /\ Loose(t) \ {pending} = {}
    BY <1>1 DEF Taken, Loose
  <2>2. doubts[t] = 0 /\ copies[t] = 0 /\ pending = 0 /\ t \notin sure
    BY DEF FormInit
  <2> QED
    BY <1>1, <2>1, <2>2, FS_EmptySet DEF Told, One
<1> QED
  BY <1>2, <1>3, <1>4 DEF FormInv

LEMMA WriteKeeps == FormInv /\ Write => FormInv'
<1> SUFFICES ASSUME FormInv, Write PROVE FormInv'
  OBVIOUS
<1>1. /\ texts \in Nat /\ texts < MaxTexts /\ texts' = texts + 1 /\ text' = texts + 1
      /\ UNCHANGED <<setting, pending, notice, attempts, copies, doubts, sure>>
  BY FormAssumption DEF Write, FormInv, FormHolds
<1>2. FormHolds'
  BY <1>1, FormAssumption DEF FormInv, FormHolds
<1>3. Cleared'
  BY <1>1 DEF FormInv, Cleared, Attempts
<1>4. Delivered' /\ \A t \in 1 .. MaxTexts : Told(t)'
  BY <1>1 DEF FormInv, Delivered, Told, Taken, Loose, Attempts
<1> QED
  BY <1>2, <1>3, <1>4 DEF FormInv

LEMMA SubmitFormKeeps == FormInv /\ SubmitForm => FormInv'
<1> SUFFICES ASSUME FormInv, SubmitForm PROVE FormInv'
  OBVIOUS
<1> DEFINE e == [text |-> text, stage |-> "way", answer |-> "none"]
           n == Len(attempts)
<1>1. /\ FormHolds /\ n \in Nat /\ pending = 0 /\ text \in 1 .. texts /\ n < MaxAttempts
      /\ attempts' = Append(attempts, e) /\ pending' = n + 1 /\ notice' = "none"
      /\ UNCHANGED <<setting, text, texts, copies, doubts, sure>>
  BY AttemptsAre, FormAssumption DEF SubmitForm, FormFree, FormInv, FormHolds
<1>2. e \in Enquiry /\ e.text = text /\ e.stage = "way"
  BY <1>1, FormAssumption DEF Enquiry, FormHolds
<1>3. /\ attempts \in Seq(Enquiry) /\ attempts' \in Seq(Enquiry) /\ Len(attempts') = n + 1
      /\ attempts'[n + 1] = e /\ \A i \in 1 .. n : attempts'[i] = attempts[i]
  BY <1>1, <1>2, AppendProperties DEF FormHolds
<1> HIDE DEF e
<1>4. FormHolds'
  BY <1>1, <1>3, FormAssumption DEF FormHolds, Notices
<1>5. Attempts' = Attempts \cup {n + 1} /\ n + 1 \notin Attempts /\ 0 \notin Attempts
  BY <1>1, <1>3 DEF Attempts
<1>6. Cleared' /\ Delivered'
  BY <1>1, <1>2, <1>3, <1>5 DEF FormInv, Cleared, Delivered, Attempts
<1>7. ASSUME NEW t \in 1 .. MaxTexts PROVE Told(t)'
  <2>1. Taken(t)' = Taken(t)
    BY <1>2, <1>3, <1>5 DEF Taken, MayBeTaken, Attempts
  <2>2. (Loose(t) \ {pending})' = Loose(t) \ {pending}
    BY <1>1, <1>3, <1>5 DEF Loose, Attempts
  <2>3. Told(t) /\ doubts[t] \in Nat
    BY <1>1 DEF FormInv, FormHolds
  <2>4. copies'[t] <= Cardinality(Taken(t)')
    BY <1>1, <2>1, <2>3 DEF Told
  <2>5. Cardinality((Loose(t) \ {pending})') <= doubts'[t] + One(t \in sure')
    BY <1>1, <2>2, <2>3 DEF Told
  <2>6. doubts'[t] + One(pending' # 0) <= Len(attempts')
    BY <1>1, <1>3, <2>3 DEF Told, One
  <2> QED
    BY <2>4, <2>5, <2>6 DEF Told
<1> QED
  BY <1>4, <1>6, <1>7 DEF FormInv

-----------------------------------------------------------------------------
(* An attempt moves on: towards the provider, whom only a server that is   *)
(* configured asks, or to its answer, which says it was taken only of a    *)
(* copy that is counted.                                                   *)
LEMMA AttemptMoves ==
  ASSUME FormInv, NEW i \in Attempts, NEW e \in Enquiry,
         attempts[i].stage # "answered", e.text = attempts[i].text,
         e.stage = "provider" => setting # "off",
         attempts' = [attempts EXCEPT ![i] = e],
         UNCHANGED <<setting, text, texts, pending, notice, doubts, sure>>,
         \/ /\ copies' = copies /\ ~(e.stage = "answered" /\ e.answer = "accepted")
         \/ /\ copies' = [copies EXCEPT ![e.text] = @ + 1] /\ MayBeTaken(e)
  PROVE  FormInv'
<1>1. /\ FormHolds /\ Len(attempts) \in Nat /\ DOMAIN attempts = Attempts
      /\ \A j \in Attempts : attempts[j] \in Enquiry
  BY AttemptsAre DEF FormInv
<1>2. /\ attempts' \in Seq(Enquiry) /\ Len(attempts') = Len(attempts)
      /\ attempts'[i] = e /\ \A j \in Attempts \ {i} : attempts'[j] = attempts[j]
  <2>1. attempts \in Seq(Enquiry) /\ i \in 1 .. Len(attempts)
    BY <1>1 DEF FormHolds, Attempts
  <2> QED
    BY <2>1, ExceptSeq DEF Attempts
<1>3. Attempts' = Attempts
  BY <1>2 DEF Attempts
<1>4. /\ copies \in [1 .. MaxTexts -> Nat] /\ doubts \in [1 .. MaxTexts -> Nat]
      /\ e.text \in 1 .. MaxTexts
  BY <1>1 DEF FormHolds, Enquiry
<1>5. /\ copies' \in [1 .. MaxTexts -> Nat]
      /\ \A t \in 1 .. MaxTexts : copies'[t] = copies[t] \/ copies'[t] = copies[t] + 1
      /\ \A t \in 1 .. MaxTexts : copies[t] > 0 => copies'[t] > 0
      /\ MayBeTaken(e) /\ e.answer = "accepted" => copies'[e.text] > 0
  <2> DEFINE q == e.text
  <2>1. CASE copies' = copies /\ ~(e.stage = "answered" /\ e.answer = "accepted")
    BY <1>4, <2>1 DEF MayBeTaken
  <2>2. CASE copies' = [copies EXCEPT ![q] = @ + 1]
    <3>1. q \in 1 .. MaxTexts
      BY <1>4
    <3> HIDE DEF q
    <3>2. /\ copies' \in [1 .. MaxTexts -> Nat] /\ copies'[q] = copies[q] + 1
          /\ \A t \in 1 .. MaxTexts : t # q => copies'[t] = copies[t]
      BY <1>4, <2>2, <3>1
    <3>3. \A t \in 1 .. MaxTexts : copies[t] \in Nat
      BY <1>4
    <3> QED
      BY <3>1, <3>2, <3>3 DEF q
  <2> QED
    BY <2>1, <2>2
<1>6. FormHolds'
  BY <1>1, <1>2, <1>5 DEF FormHolds
<1>7. Cleared'
  <2>1. \A j \in Attempts : (attempts'[j]).text = attempts[j].text
    BY <1>2
  <2>2. pending # 0 => pending \in Attempts
    BY <1>1 DEF FormHolds, Attempts
  <2> QED
    BY <1>3, <2>1, <2>2 DEF FormInv, Cleared
<1>8. Delivered'
  <2>1. ASSUME NEW j \in Attempts
        PROVE  /\ (attempts'[j]).stage = "provider" => setting # "off"
               /\ (attempts'[j]).stage = "answered" /\ (attempts'[j]).answer = "accepted" =>
                    copies'[(attempts'[j]).text] > 0
    <3>1. CASE j # i
      <4>1. attempts'[j] = attempts[j] /\ attempts[j].text \in 1 .. MaxTexts
        BY <1>1, <1>2, <3>1 DEF Enquiry
      <4> QED
        BY <1>5, <4>1 DEF FormInv, Delivered
    <3>2. CASE j = i
      BY <1>2, <1>5, <3>2 DEF MayBeTaken
    <3> QED
      BY <3>1, <3>2
  <2>2. \A t \in sure : t \in 1 .. MaxTexts /\ copies[t] > 0
    BY <1>1, FormAssumption DEF FormInv, Cleared, Delivered, FormHolds
  <2> QED
    BY <1>3, <1>5, <2>1, <2>2 DEF Delivered
<1>9. ASSUME NEW t \in 1 .. MaxTexts PROVE Told(t)'
  <2>1. /\ Told(t) /\ copies[t] \in Nat /\ doubts[t] \in Nat
        /\ IsFiniteSet(Taken(t)) /\ IsFiniteSet(Loose(t))
        /\ Cardinality(Taken(t)) \in Nat
    BY <1>1, <1>4, SetsAre DEF FormInv
  <2>2. i \notin Taken(t)
    BY DEF Taken, MayBeTaken
  <2>3. Taken(t) \subseteq Taken(t)'
    BY <1>2, <1>3, <2>2 DEF Taken
  <2>4. IsFiniteSet(Taken(t)') /\ Cardinality(Taken(t)') \in Nat
    <3>1. Taken(t)' \subseteq Taken(t) \cup {i}
      BY <1>2, <1>3 DEF Taken
    <3>2. IsFiniteSet(Taken(t) \cup {i})
      BY <2>1, FS_AddElement
    <3> QED
      BY <3>1, <3>2, FS_Subset, FS_CardinalityType
  <2>5. Cardinality(Taken(t)) <= Cardinality(Taken(t)')
    BY <2>3, <2>4, FS_Subset
  <2>6. copies'[t] <= Cardinality(Taken(t)')
    <3>1. CASE copies'[t] = copies[t]
      BY <2>1, <2>4, <2>5, <3>1 DEF Told
    <3>2. CASE copies'[t] # copies[t]
      <4>1. e.text = t /\ MayBeTaken(e) /\ copies'[t] = copies[t] + 1
        BY <1>4, <3>2
      <4>2. Taken(t) \cup {i} \subseteq Taken(t)'
        BY <1>2, <1>3, <2>3, <4>1 DEF Taken
      <4>3. /\ IsFiniteSet(Taken(t) \cup {i})
            /\ Cardinality(Taken(t) \cup {i}) = Cardinality(Taken(t)) + 1
        BY <2>1, <2>2, FS_AddElement
      <4>4. Cardinality(Taken(t) \cup {i}) <= Cardinality(Taken(t)')
        BY <2>4, <4>2, FS_Subset
      <4> QED
        BY <2>1, <2>4, <4>1, <4>3, <4>4 DEF Told
    <3> QED
      BY <3>1, <3>2
  <2>7. Loose(t)' \subseteq Loose(t)
    BY <1>2, <1>3 DEF Loose, MayReach
  <2>8. /\ IsFiniteSet(Loose(t) \ {pending}) /\ Cardinality(Loose(t) \ {pending}) \in Nat
        /\ (Loose(t) \ {pending})' \subseteq Loose(t) \ {pending}
    BY <2>1, <2>7, OneApart
  <2>9. /\ Cardinality((Loose(t) \ {pending})') \in Nat
        /\ Cardinality((Loose(t) \ {pending})') <= Cardinality(Loose(t) \ {pending})
    BY <2>8, FS_Subset, FS_CardinalityType
  <2>10. Cardinality((Loose(t) \ {pending})') <= doubts'[t] + One(t \in sure')
    BY <2>1, <2>8, <2>9 DEF Told, One
  <2>11. doubts'[t] + One(pending' # 0) <= Len(attempts')
    BY <1>2, <2>1 DEF Told
  <2> QED
    BY <2>6, <2>10, <2>11 DEF Told
<1> QED
  BY <1>6, <1>7, <1>8, <1>9 DEF FormInv

LEMMA RejectKeeps == ASSUME FormInv, NEW i \in DOMAIN attempts, Reject(i) PROVE FormInv'
<1>1. PICK answer \in {"413", "429", "400"} :
        attempts' = [attempts EXCEPT ![i].stage = "answered", ![i].answer = answer]
  BY DEF Reject, AnsweredWith
<1>2. /\ i \in Attempts /\ attempts[i] \in Enquiry /\ attempts[i].stage = "way"
      /\ UNCHANGED <<setting, text, texts, pending, notice, copies, doubts, sure>>
  BY AttemptsAre DEF FormInv, Reject, Stands
<1> DEFINE e == [[attempts[i] EXCEPT !.stage = "answered"] EXCEPT !.answer = answer]
<1>3. attempts' = [attempts EXCEPT ![i] = e]
  BY <1>1
<1>4. e \in Enquiry /\ e.text = attempts[i].text /\ e.stage = "answered" /\ e.answer = answer
  BY <1>2 DEF Enquiry
<1> HIDE DEF e
<1> QED
  BY <1>2, <1>3, <1>4, AttemptMoves

LEMMA DispatchKeeps == ASSUME FormInv, NEW i \in DOMAIN attempts, Dispatch(i) PROVE FormInv'
<1>1. /\ i \in Attempts /\ attempts[i] \in Enquiry /\ attempts[i].stage = "way"
      /\ UNCHANGED <<setting, text, texts, pending, notice, copies, doubts, sure>>
  BY AttemptsAre DEF FormInv, Dispatch, Stands
<1>2. CASE setting = "off"
  <2> DEFINE e == [[attempts[i] EXCEPT !.stage = "answered"] EXCEPT !.answer = "503"]
  <2>1. attempts' = [attempts EXCEPT ![i] = e]
    BY <1>2 DEF Dispatch, AnsweredWith
  <2>2. e \in Enquiry /\ e.text = attempts[i].text /\ e.stage = "answered" /\ e.answer = "503"
    BY <1>1 DEF Enquiry
  <2> HIDE DEF e
  <2> QED
    BY <1>1, <2>1, <2>2, AttemptMoves
<1>3. CASE setting # "off"
  <2> DEFINE e == [attempts[i] EXCEPT !.stage = "provider"]
  <2>1. attempts' = [attempts EXCEPT ![i] = e]
    BY <1>3 DEF Dispatch
  <2>2. e \in Enquiry /\ e.text = attempts[i].text /\ e.stage = "provider"
    BY <1>1 DEF Enquiry
  <2> HIDE DEF e
  <2> QED
    BY <1>1, <1>3, <2>1, <2>2, AttemptMoves
<1> QED
  BY <1>2, <1>3

LEMMA ProviderKeeps == ASSUME FormInv, NEW i \in DOMAIN attempts, Provider(i) PROVE FormInv'
<1>1. /\ i \in Attempts /\ attempts[i] \in Enquiry /\ attempts[i].stage = "provider"
      /\ UNCHANGED <<setting, text, texts, pending, notice, doubts, sure>>
  BY AttemptsAre DEF FormInv, Provider, Stands
<1>2. setting \in {"sandbox", "send"}
  BY <1>1, FormAssumption DEF FormInv, FormHolds, Delivered
<1>3. PICK taken \in BOOLEAN, confirmed \in BOOLEAN :
        /\ AnsweredWith(i, Outcome(taken, confirmed))
        /\ copies' = IF taken /\ setting = "send"
                     THEN [copies EXCEPT ![attempts[i].text] = @ + 1] ELSE copies
  BY DEF Provider
<1> DEFINE answer == Outcome(taken, confirmed)
           e == [[attempts[i] EXCEPT !.stage = "answered"] EXCEPT !.answer = answer]
<1>4. /\ answer \in {"503", "sandbox", "accepted"}
      /\ answer = "accepted" => taken /\ setting = "send"
      /\ taken /\ setting = "send" => answer \in {"503", "accepted"}
  BY <1>2 DEF Outcome
<1>5. attempts' = [attempts EXCEPT ![i] = e]
  BY <1>3 DEF AnsweredWith
<1> HIDE DEF answer
<1>6. e \in Enquiry /\ e.text = attempts[i].text /\ e.stage = "answered" /\ e.answer = answer
  BY <1>1, <1>4 DEF Enquiry
<1> HIDE DEF e
<1>7. CASE taken /\ setting = "send"
  <2>1. MayBeTaken(e) /\ copies' = [copies EXCEPT ![e.text] = @ + 1]
    BY <1>3, <1>4, <1>6, <1>7 DEF MayBeTaken
  <2> QED
    BY <1>1, <1>5, <1>6, <2>1, AttemptMoves
<1>8. CASE ~(taken /\ setting = "send")
  <2>1. copies' = copies /\ e.answer # "accepted"
    BY <1>3, <1>4, <1>6, <1>8
  <2> QED
    BY <1>1, <1>5, <1>6, <2>1, AttemptMoves
<1> QED
  BY <1>7, <1>8

-----------------------------------------------------------------------------
(* The form is told something of the attempt it waits for.                 *)
LEMMA SaysKeeps ==
  ASSUME FormInv, pending # 0, NEW said \in Notices, Says(said),
         UNCHANGED <<setting, texts, attempts, copies>>,
         said = "accepted" =>
           attempts[pending].stage = "answered" /\ attempts[pending].answer = "accepted",
         said \in {"accepted", "unconfirmed"} \/ ~MayReach(attempts[pending])
  PROVE  FormInv'
<1> DEFINE q == attempts[pending].text
<1>1. /\ FormHolds /\ Len(attempts) \in Nat /\ pending \in Attempts
      /\ attempts[pending] \in Enquiry /\ q \in 1 .. MaxTexts /\ q \in 1 .. texts
      /\ q \notin sure
  <2>1. FormHolds /\ pending \in Attempts /\ Len(attempts) \in Nat
        /\ attempts[pending] \in Enquiry
    BY AttemptsAre DEF FormInv, FormHolds, Attempts
  <2> QED
    BY <2>1 DEF Enquiry, FormInv, Cleared
<1>2. /\ notice' = said /\ pending' = 0 /\ text' = IF said = "accepted" THEN 0 ELSE text
      /\ doubts' = IF said = "unconfirmed" THEN [doubts EXCEPT ![q] = @ + 1] ELSE doubts
      /\ sure' = IF said = "accepted" THEN sure \cup {q} ELSE sure
      /\ UNCHANGED <<setting, texts, attempts, copies>>
  BY DEF Says
<1> HIDE DEF q
<1>3. FormHolds'
  <2>1. doubts' \in [1 .. MaxTexts -> Nat]
    BY <1>1, <1>2 DEF FormHolds
  <2> QED
    BY <1>1, <1>2, <2>1, FormAssumption DEF FormHolds
<1>4. Cleared'
  <2>1. sure' \subseteq 1 .. texts /\ text' \notin sure'
    BY <1>1, <1>2 DEF FormInv, Cleared
  <2> QED
    BY <1>2, <2>1 DEF FormInv, Cleared, Attempts
<1>5. Delivered'
  <2>1. said = "accepted" => copies[q] > 0
    BY <1>1 DEF FormInv, Delivered, q
  <2>2. \A t \in sure' : copies[t] > 0
    BY <1>2, <2>1 DEF FormInv, Delivered
  <2> QED
    BY <1>2, <2>2 DEF FormInv, Delivered, Attempts
<1>6. ASSUME NEW t \in 1 .. MaxTexts PROVE Told(t)'
  <2>1. /\ Told(t) /\ copies[t] \in Nat /\ doubts[t] \in Nat /\ IsFiniteSet(Loose(t))
    BY <1>1, SetsAre DEF FormInv, FormHolds
  <2>2. Taken(t)' = Taken(t) /\ Loose(t)' = Loose(t)
    BY <1>2 DEF Taken, Loose, Attempts
  <2>3. 0 \notin Loose(t) /\ (pending \in Loose(t) => t = q /\ MayReach(attempts[pending]))
    BY <1>1 DEF Loose, Attempts, q
  <2>4. (Loose(t) \ {pending})' = Loose(t)
    BY <1>2, <2>2, <2>3
  <2>5. /\ Cardinality(Loose(t)) \in Nat /\ Cardinality(Loose(t) \ {pending}) \in Nat
        /\ Cardinality(Loose(t)) <= Cardinality(Loose(t) \ {pending}) + One(pending \in Loose(t))
    BY <2>1, OneApart
  <2>6. Cardinality(Loose(t) \ {pending}) <= doubts[t] + One(t \in sure)
    BY <2>1 DEF Told
  <2>7. doubts'[t] + One(t \in sure') >= doubts[t] + One(t \in sure) + One(pending \in Loose(t))
    <3>1. CASE t # q
      BY <1>1, <1>2, <2>1, <2>3, <3>1 DEF One, FormHolds
    <3>2. CASE t = q
      BY <1>1, <1>2, <2>1, <2>3, <3>2 DEF One, FormHolds
    <3> QED
      BY <3>1, <3>2
  <2>8. doubts'[t] \in Nat
    BY <1>3 DEF FormHolds
  <2>9. Cardinality(Loose(t)) <= doubts'[t] + One(t \in sure')
    BY <2>1, <2>5, <2>6, <2>7, <2>8 DEF One
  <2>10. Cardinality((Loose(t) \ {pending})') <= doubts'[t] + One(t \in sure')
    BY <2>4, <2>9
  <2>11. copies'[t] <= Cardinality(Taken(t)')
    BY <1>2, <2>1, <2>2 DEF Told
  <2>12. doubts'[t] + One(pending' # 0) <= Len(attempts')
    <3>1. doubts'[t] = doubts[t] \/ doubts'[t] = doubts[t] + 1
      BY <1>1, <1>2, <2>1 DEF FormHolds
    <3>2. doubts[t] + 1 <= Len(attempts)
      BY <2>1 DEF Told, One
    <3> QED
      BY <1>1, <1>2, <2>1, <3>1, <3>2 DEF One
  <2> QED
    BY <2>10, <2>11, <2>12 DEF Told
<1> QED
  BY <1>3, <1>4, <1>5, <1>6 DEF FormInv

LEMMA AnswerArrivesKeeps == FormInv /\ AnswerArrives => FormInv'
<1> SUFFICES ASSUME FormInv, AnswerArrives PROVE FormInv'
  OBVIOUS
<1> DEFINE answer == attempts[pending].answer
           said == Reading(Bridge(answer))
<1>1. /\ pending \in Attempts /\ pending # 0 /\ attempts[pending] \in Enquiry
      /\ attempts[pending].stage = "answered"
      /\ Says(said) /\ UNCHANGED <<setting, texts, attempts, copies>>
  BY AttemptsAre DEF AnswerArrives, Stands, FormInv, Attempts
<1>2. answer \in {"none", "400", "413", "429", "503", "accepted", "sandbox"}
  BY <1>1 DEF Enquiry
<1>3. /\ said \in Notices /\ (said = "accepted" => answer = "accepted")
      /\ said \notin {"accepted", "unconfirmed"} => answer \notin {"503", "accepted"}
  BY <1>2 DEF Reading, Bridge, Notices
<1>4. said \in {"accepted", "unconfirmed"} \/ ~MayReach(attempts[pending])
  BY <1>1, <1>3 DEF MayReach, MayBeTaken
<1> HIDE DEF said
<1> QED
  BY <1>1, <1>3, <1>4, SaysKeeps

LEMMA FormGivesUpKeeps == FormInv /\ FormGivesUp => FormInv'
BY SaysKeeps DEF FormGivesUp, Notices

LEMMA NextForm == FormInv /\ [FormNext]_formVars => FormInv'
<1> SUFFICES ASSUME FormInv, [FormNext]_formVars PROVE FormInv'
  OBVIOUS
<1>1. CASE UNCHANGED formVars
  BY <1>1 DEF formVars, FormInv, FormHolds, Cleared, Delivered, Told, Taken, Loose, Attempts
<1>2. CASE FormNext
  BY <1>2, WriteKeeps, SubmitFormKeeps, AnswerArrivesKeeps, FormGivesUpKeeps,
     RejectKeeps, DispatchKeeps, ProviderKeeps DEF FormNext
<1> QED
  BY <1>1, <1>2

(* The form calls an enquiry accepted only when the provider took that     *)
(* one, to deliver it, and it is sent again only after its guest was told  *)
(* that it is in doubt, whichever hop gave up or lost an answer.           *)
THEOREM EnquiriesAreHonest == FormSpec => []FormSafe
<1>1. FormInit => FormInv
  BY InitForm
<1>2. FormInv /\ [FormNext]_formVars => FormInv'
  BY NextForm
<1>3. FormInv => FormSafe
  BY FormInvIsSafe
<1> QED
  BY <1>1, <1>2, <1>3, PTL DEF FormSpec

(* What the contact page promises, by both of its halves.                  *)
THEOREM EnquiriesAreSafe == LimitSpec /\ FormSpec => []ContactSafe
BY LimitHolds, EnquiriesAreHonest, PTL DEF ContactSafe

=============================================================================
