-------------------------- MODULE EntitlementProofs --------------------------
(***************************************************************************)
(* The properties of Entitlement, for every bound and any number of        *)
(* sync-premium requests.  EntitlementInv holds the type invariant and,    *)
(* for the rest, what RevenueCat's events are (SentInv), that a grant once *)
(* recorded leaves a mark (MarkInv), and the properties themselves.        *)
(***************************************************************************)
EXTENDS Entitlement, FiniteSetTheorems, TLAPS

\* Events are numbered in the order they were sent.
SentInv ==
  /\ IsFiniteSet(events)
  /\ \A e \in events : e.at <= Cardinality(events)

\* What a request heard is an expiry.
HeardInv == \A s \in Sync : sync[s].pc = "answered" => sync[s].expires # Null

\* A row that carries no mark of a grant never had one, and neither had a copy
\* a request still holds of it.
MarkInv ==
  \/ user.entitlement_source # "none"
  \/ user.premium_until # Null
  \/ /\ history.applied = {} /\ history.synced = {}
     /\ \A s \in Sync : sync[s].pc # "idle" => sync[s].loaded.entitlement_source = "none"

AppliedTo(about) == {e \in history.applied : e.about = about}

\* Of the events applied to a source, one is the newest.
NewestInv ==
  \A about \in Source :
    AppliedTo(about) # {} =>
      \E n \in AppliedTo(about) : \A e \in AppliedTo(about) : e.at <= n.at

EntitlementInv ==
  /\ TypeOK /\ SentInv /\ HeardInv /\ MarkInv /\ NewestInv
  /\ DerivedSummary /\ NewestAppliedWins

-----------------------------------------------------------------------------
(* Rows, and what the derived expiry is. *)

LEMMA TimeFacts ==
  /\ MaxTime \in Nat /\ MaxTime >= 1 /\ MaxEvents \in Nat /\ TrialEnd \in Nat
  /\ Null \in Until /\ Forever \in Until
  /\ \A t \in 1 .. MaxTime : t \in Until /\ t # Null /\ t \in Nat
  /\ \A t \in Until : t \in Nat
BY TimesAssumption DEF Null, Forever, Until

\* recompute_premium_until: the expiry it derives is the later of the two.
LEMMA DerivedIsLater ==
  ASSUME NEW p \in Until, NEW c \in Until, now \in 1 .. MaxTime
  PROVE  /\ DerivedUntil(p, c) = Later(p, c)
         /\ DerivedUntil(p, c) \in Until
         /\ DerivedUntil(p, c) >= p /\ DerivedUntil(p, c) >= c
BY TimeFacts DEF DerivedUntil, Later

LEMMA RecomputedRow ==
  ASSUME NEW row \in UserRow, now \in 1 .. MaxTime
  PROVE  /\ Recomputed(row) \in UserRow
         /\ Recomputed(row).premium_until =
              Later(row.paid_premium_until, row.complimentary_until)
         /\ Recomputed(row).premium_until >= row.paid_premium_until
         /\ Recomputed(row).premium_until >= row.complimentary_until
         /\ Recomputed(row).paid_premium_until = row.paid_premium_until
         /\ Recomputed(row).complimentary_until = row.complimentary_until
         /\ Recomputed(row).is_premium = row.is_premium
         /\ Recomputed(row).entitlement_source = row.entitlement_source
         /\ Recomputed(row).last_webhook_event_at_ms = row.last_webhook_event_at_ms
<1>1. row.paid_premium_until \in Until /\ row.complimentary_until \in Until
  BY DEF UserRow
<1> DEFINE d == DerivedUntil(row.paid_premium_until, row.complimentary_until)
<1>2. /\ d = Later(row.paid_premium_until, row.complimentary_until)
      /\ d \in Until /\ d >= row.paid_premium_until /\ d >= row.complimentary_until
  BY <1>1, DerivedIsLater
<1> HIDE DEF d
<1>3. Recomputed(row) = [row EXCEPT !.premium_until = d]
  BY DEF Recomputed, d
<1> QED BY <1>2, <1>3 DEF UserRow

\* The columns of the row an event touches.
Touches(e, about) ==
  /\ user' \in UserRow
  /\ user'.last_webhook_event_at_ms = e.at
  /\ user'.premium_until = Later(user'.paid_premium_until, user'.complimentary_until)
  /\ user'.premium_until >= user'.paid_premium_until
  /\ user'.premium_until >= user'.complimentary_until
  /\ about = "paid" =>
       /\ user'.complimentary_until = user.complimentary_until
       /\ user'.is_premium = user.is_premium
  /\ about = "complimentary" => user'.paid_premium_until = user.paid_premium_until

LEMMA GrantFacts ==
  ASSUME TypeOK, NEW e \in events, GrantComplimentary(e) \/ GrantPaid(e)
  PROVE  /\ Touches(e, e.about)
         /\ user'.entitlement_source # "none"
         /\ e.about = "paid" => user'.paid_premium_until = e.expires
         /\ e.about = "complimentary" =>
              /\ user'.complimentary_until = e.expires
              /\ user'.is_premium = (e.expires = Null)
<1>1. /\ e \in Event /\ user \in UserRow /\ now \in 1 .. MaxTime
      /\ e.expires \in Until /\ e.at \in 0 .. MaxEvents
  BY DEF TypeOK, Event
<1>2. CASE GrantComplimentary(e)
  <2> DEFINE row == [user EXCEPT !.is_premium = e.expires = Null,
                                 !.complimentary_until = e.expires,
                                 !.entitlement_source = "complimentary",
                                 !.last_webhook_event_at_ms = e.at]
  <2>1. /\ row \in UserRow
        /\ row.is_premium = (e.expires = Null) /\ row.complimentary_until = e.expires
        /\ row.entitlement_source = "complimentary" /\ row.last_webhook_event_at_ms = e.at
        /\ row.paid_premium_until = user.paid_premium_until
    BY <1>1 DEF UserRow, Source
  <2>2. user' = Recomputed(row) /\ e.about = "complimentary"
    BY <1>2 DEF GrantComplimentary
  <2> HIDE DEF row
  <2> QED BY <1>1, <2>1, <2>2, RecomputedRow DEF Touches
<1>3. CASE GrantPaid(e)
  <2> DEFINE row == [user EXCEPT !.paid_premium_until = e.expires,
                                 !.entitlement_source = "paid",
                                 !.last_webhook_event_at_ms = e.at]
  <2>1. /\ row \in UserRow
        /\ row.paid_premium_until = e.expires
        /\ row.entitlement_source = "paid" /\ row.last_webhook_event_at_ms = e.at
        /\ row.complimentary_until = user.complimentary_until
        /\ row.is_premium = user.is_premium
    BY <1>1 DEF UserRow, Source
  <2>2. user' = Recomputed(row) /\ e.about = "paid"
    BY <1>3 DEF GrantPaid
  <2> HIDE DEF row
  <2> QED BY <1>1, <2>1, <2>2, RecomputedRow DEF Touches
<1> QED BY <1>2, <1>3

LEMMA EndFacts ==
  ASSUME TypeOK, NEW e \in events
  PROVE  /\ EndOf(e) \in Until /\ EndOf(e) # Null
         /\ EndOf(e) <= Later(now, e.expires)
<1>1. e \in Event /\ now \in 1 .. MaxTime
  BY DEF TypeOK
<1> QED BY <1>1, TimeFacts DEF EndOf, Event, Later

\* The source an EXPIRATION ends.
Ended(e) == IF EndsTheComp(e) THEN "complimentary" ELSE "paid"

LEMMA ExpireFacts ==
  ASSUME TypeOK, NEW e \in events, ExpireComplimentary(e) \/ ExpirePaid(e)
  PROVE  /\ Touches(e, Ended(e))
         /\ user'.premium_until # Null
         /\ Ended(e) = "paid" => user'.paid_premium_until = EndOf(e)
         /\ Ended(e) = "complimentary" =>
              user'.complimentary_until = EndOf(e) /\ user'.is_premium = FALSE
<1>1. /\ e \in Event /\ user \in UserRow /\ now \in 1 .. MaxTime /\ e.at \in 0 .. MaxEvents
  BY DEF TypeOK, Event
<1>0. EndOf(e) \in Until /\ EndOf(e) # Null
  BY EndFacts
<1>2. CASE ExpireComplimentary(e)
  <2> DEFINE source == IF user.paid_premium_until > now THEN "paid" ELSE "none"
             row == [user EXCEPT !.is_premium = FALSE,
                                 !.complimentary_until = EndOf(e),
                                 !.entitlement_source = source,
                                 !.last_webhook_event_at_ms = e.at]
  <2>0. source \in Source \cup {"none"}
    BY DEF Source
  <2>2. user' = Recomputed(row) /\ Ended(e) = "complimentary"
    BY <1>2 DEF ExpireComplimentary, Ended
  <2> HIDE DEF source
  <2>1. /\ row \in UserRow
        /\ row.is_premium = FALSE /\ row.complimentary_until = EndOf(e)
        /\ row.last_webhook_event_at_ms = e.at
        /\ row.paid_premium_until = user.paid_premium_until
    BY <1>0, <1>1, <2>0 DEF UserRow
  <2> HIDE DEF row
  <2>3. user'.premium_until \in Until /\ user'.premium_until >= EndOf(e)
    BY <1>1, <2>1, <2>2, RecomputedRow DEF UserRow
  <2>4. user'.premium_until # Null
    BY <1>0, <2>3, TimeFacts DEF Null
  <2> QED BY <1>1, <2>1, <2>2, <2>4, RecomputedRow DEF Touches
<1>3. CASE ExpirePaid(e)
  <2> DEFINE source == IF user.complimentary_until > now THEN "complimentary" ELSE "none"
             row == [user EXCEPT !.paid_premium_until = EndOf(e),
                                 !.entitlement_source = source,
                                 !.last_webhook_event_at_ms = e.at]
  <2>0. source \in Source \cup {"none"}
    BY DEF Source
  <2>2. user' = Recomputed(row) /\ Ended(e) = "paid"
    BY <1>3 DEF ExpirePaid, Ended
  <2> HIDE DEF source
  <2>1. /\ row \in UserRow
        /\ row.paid_premium_until = EndOf(e)
        /\ row.last_webhook_event_at_ms = e.at
        /\ row.complimentary_until = user.complimentary_until
        /\ row.is_premium = user.is_premium
    BY <1>0, <1>1, <2>0 DEF UserRow
  <2> HIDE DEF row
  <2>3. user'.premium_until \in Until /\ user'.premium_until >= EndOf(e)
    BY <1>1, <2>1, <2>2, RecomputedRow DEF UserRow
  <2>4. user'.premium_until # Null
    BY <1>0, <2>3, TimeFacts DEF Null
  <2> QED BY <1>1, <2>1, <2>2, <2>4, RecomputedRow DEF Touches
<1> QED BY <1>2, <1>3

-----------------------------------------------------------------------------
(* What a sync-premium request writes. *)

\* The row the request has in memory when it commits.
Changed(s) ==
  IF sync[s].about = "complimentary"
  THEN [sync[s].loaded EXCEPT !.complimentary_until = sync[s].expires,
                              !.entitlement_source = "complimentary"]
  ELSE [sync[s].loaded EXCEPT !.paid_premium_until = sync[s].expires,
                              !.entitlement_source = "paid"]

LEMMA ChangedFacts ==
  ASSUME TypeOK, NEW s \in Sync
  PROVE  LET loaded == sync[s].loaded
             row == Recomputed(Changed(s))
         IN  /\ row \in UserRow
             /\ row.premium_until = Later(row.paid_premium_until, row.complimentary_until)
             /\ row.premium_until >= sync[s].expires
             /\ row.is_premium = loaded.is_premium
             /\ row.last_webhook_event_at_ms = loaded.last_webhook_event_at_ms
             /\ row.entitlement_source = sync[s].about
             /\ sync[s].about = "paid" =>
                  row.complimentary_until = loaded.complimentary_until
             /\ sync[s].about = "complimentary" =>
                  row.paid_premium_until = loaded.paid_premium_until
<1>1. /\ sync[s].loaded \in UserRow /\ sync[s].about \in Source /\ sync[s].expires \in Until
      /\ now \in 1 .. MaxTime
  BY DEF TypeOK, SyncState
<1>2. CASE sync[s].about = "complimentary"
  <2>1. /\ Changed(s) \in UserRow
        /\ Changed(s).complimentary_until = sync[s].expires
        /\ Changed(s).entitlement_source = "complimentary"
        /\ Changed(s).paid_premium_until = sync[s].loaded.paid_premium_until
        /\ Changed(s).is_premium = sync[s].loaded.is_premium
        /\ Changed(s).last_webhook_event_at_ms = sync[s].loaded.last_webhook_event_at_ms
    BY <1>1, <1>2 DEF Changed, UserRow, Source
  <2> QED BY <1>1, <1>2, <2>1, RecomputedRow
<1>3. CASE sync[s].about = "paid"
  <2>1. /\ Changed(s) \in UserRow
        /\ Changed(s).paid_premium_until = sync[s].expires
        /\ Changed(s).entitlement_source = "paid"
        /\ Changed(s).complimentary_until = sync[s].loaded.complimentary_until
        /\ Changed(s).is_premium = sync[s].loaded.is_premium
        /\ Changed(s).last_webhook_event_at_ms = sync[s].loaded.last_webhook_event_at_ms
    BY <1>1, <1>3 DEF Changed, UserRow, Source
  <2> QED BY <1>1, <1>3, <2>1, RecomputedRow
<1> QED BY <1>1, <1>2, <1>3 DEF Source

Columns == {"is_premium", "paid_premium_until", "complimentary_until", "premium_until",
            "entitlement_source", "last_webhook_event_at_ms"}

\* The columns that differ from the loaded copy, over the row as it is now.
LEMMA MergedRow ==
  ASSUME NEW old \in UserRow, NEW new \in UserRow, NEW copy \in UserRow
  PROVE  LET row == [column \in DOMAIN old |->
                       IF new[column] # copy[column] THEN new[column] ELSE old[column]]
         IN  row \in UserRow
<1> DEFINE row == [column \in DOMAIN old |->
                     IF new[column] # copy[column] THEN new[column] ELSE old[column]]
<1>1. DOMAIN old = Columns
  BY DEF UserRow, Columns
<1>2. \A c \in Columns : row[c] \in {new[c], old[c]}
  BY <1>1
<1>3. row = [is_premium |-> row.is_premium,
             paid_premium_until |-> row.paid_premium_until,
             complimentary_until |-> row.complimentary_until,
             premium_until |-> row.premium_until,
             entitlement_source |-> row.entitlement_source,
             last_webhook_event_at_ms |-> row.last_webhook_event_at_ms]
  BY <1>1 DEF Columns
<1>4. /\ row.is_premium \in BOOLEAN /\ row.paid_premium_until \in Until
      /\ row.complimentary_until \in Until /\ row.premium_until \in Until
      /\ row.entitlement_source \in Source \cup {"none"}
      /\ row.last_webhook_event_at_ms \in 0 .. MaxEvents
  BY <1>2 DEF UserRow, Columns
<1> HIDE DEF row
<1>5. row \in UserRow
  BY <1>3, <1>4 DEF UserRow
<1> QED BY <1>5 DEF row

LEMMA WrittenFacts ==
  ASSUME TypeOK, HeardInv, NEW s \in Sync, SyncWrites(s)
  PROVE  LET about == sync[s].about
             loaded == sync[s].loaded
         IN  /\ user' \in UserRow
             /\ user'.last_webhook_event_at_ms = user.last_webhook_event_at_ms
             /\ user'.is_premium = user.is_premium
             /\ about = "paid" => user'.complimentary_until = user.complimentary_until
             /\ about = "complimentary" =>
                  user'.paid_premium_until = user.paid_premium_until
             /\ user'.entitlement_source = about
                \/ /\ user'.entitlement_source = user.entitlement_source
                   /\ loaded.entitlement_source = about
             /\ user'.premium_until = user.premium_until \/ user'.premium_until # Null
             /\ user = loaded =>
                  user'.premium_until = Later(user'.paid_premium_until,
                                              user'.complimentary_until)
<1> DEFINE loaded == sync[s].loaded
           row == Recomputed(Changed(s))
<1>1. /\ user \in UserRow /\ loaded \in UserRow /\ sync[s].about \in Source
      /\ sync[s].expires \in Until
  BY DEF TypeOK, SyncState
<1>2. user' = [column \in DOMAIN user |->
                 IF row[column] # loaded[column] THEN row[column] ELSE user[column]]
  BY DEF SyncWrites, Written, Changed
<1>3. sync[s].expires # Null
  BY DEF SyncWrites, HeardInv
<1>4. /\ row \in UserRow
      /\ row.premium_until = Later(row.paid_premium_until, row.complimentary_until)
      /\ row.premium_until >= sync[s].expires
      /\ row.is_premium = loaded.is_premium
      /\ row.last_webhook_event_at_ms = loaded.last_webhook_event_at_ms
      /\ row.entitlement_source = sync[s].about
      /\ sync[s].about = "paid" => row.complimentary_until = loaded.complimentary_until
      /\ sync[s].about = "complimentary" =>
           row.paid_premium_until = loaded.paid_premium_until
  BY ChangedFacts
<1> HIDE DEF row, loaded
<1>5. row.premium_until # Null
  BY <1>1, <1>3, <1>4, TimeFacts DEF Null, UserRow
<1>6. user' \in UserRow
  BY <1>1, <1>2, <1>4, MergedRow
<1>7. DOMAIN user = Columns
  BY <1>1 DEF UserRow, Columns
<1>8. \A c \in Columns :
        user'[c] = IF row[c] # loaded[c] THEN row[c] ELSE user[c]
  BY <1>2, <1>7
<1>9. \A c \in Columns : user = loaded => user'[c] = row[c]
  BY <1>8
<1>10. user = loaded =>
         /\ user'.premium_until = row.premium_until
         /\ user'.paid_premium_until = row.paid_premium_until
         /\ user'.complimentary_until = row.complimentary_until
  BY <1>9 DEF Columns
<1>11. /\ user'.last_webhook_event_at_ms = user.last_webhook_event_at_ms
       /\ user'.is_premium = user.is_premium
       /\ sync[s].about = "paid" => user'.complimentary_until = user.complimentary_until
       /\ sync[s].about = "complimentary" =>
            user'.paid_premium_until = user.paid_premium_until
       /\ user'.entitlement_source = sync[s].about
          \/ /\ user'.entitlement_source = user.entitlement_source
             /\ loaded.entitlement_source = sync[s].about
       /\ user'.premium_until = user.premium_until \/ user'.premium_until # Null
  BY <1>4, <1>5, <1>8 DEF Columns
<1>12. user = loaded =>
         user'.premium_until = Later(user'.paid_premium_until, user'.complimentary_until)
  BY <1>4, <1>10
<1> QED BY <1>6, <1>11, <1>12 DEF loaded

-----------------------------------------------------------------------------
(* Each step keeps the invariant. *)

LEMMA InitInv == Init => EntitlementInv
<1> SUFFICES ASSUME Init PROVE EntitlementInv
  OBVIOUS
<1>1. PICK comp \in BOOLEAN : user = NewUser(comp)
  BY ManualCompsAssumption DEF Init
<1>2. user \in UserRow
  BY <1>1, TimeFacts DEF NewUser, UserRow, Source, Null
<1>3. IdleSync \in SyncState
  BY TimeFacts DEF IdleSync, SyncState, NewUser, UserRow, Source, Null
<1>4. TypeOK
  BY <1>2, <1>3, TimeFacts DEF Init, TypeOK, HistoryState
<1>5. SentInv /\ HeardInv /\ NewestInv
  BY FS_EmptySet DEF Init, SentInv, HeardInv, IdleSync, NewestInv, AppliedTo
<1>6. MarkInv
  BY DEF Init, MarkInv, IdleSync
<1>7. DerivedSummary
  BY <1>1 DEF DerivedSummary, NewUser, Later
<1>8. NewestAppliedWins
  BY DEF Init, NewestAppliedWins
<1> QED BY <1>4, <1>5, <1>6, <1>7, <1>8 DEF EntitlementInv

LEMMA NewestIs ==
  ASSUME NEW S, NEW n \in S, \A e \in S : e.at \in Nat, \A e \in S \ {n} : e.at < n.at
  PROVE  Newest(S) = n
<1>1. \A e \in S : e.at <= n.at
  OBVIOUS
<1>2. Newest(S) \in S /\ \A e \in S : e.at <= Newest(S).at
  BY <1>1 DEF Newest
<1>3. n.at <= Newest(S).at
  BY <1>2
<1> QED BY <1>2, <1>3

\* What NewestAppliedWins says of one source.
Stands(about) == AppliedTo(about) # {} => Reflects(Newest(AppliedTo(about)))

LEMMA WinsFacts ==
  NewestAppliedWins <=>
    ((\A e \in history.applied : e.named) =>
       \A about \in Source \ history.synced : Stands(about))
BY DEF NewestAppliedWins, Stands, AppliedTo

\* A source whose columns do not change stands as it stood.
LEMMA StandsStill ==
  ASSUME TypeOK, NewestInv, NEW about \in Source, Stands(about),
         now' \in Nat, now' >= now,
         AppliedTo(about)' = AppliedTo(about),
         about = "paid" => user'.paid_premium_until = user.paid_premium_until,
         about = "complimentary" =>
           /\ user'.complimentary_until = user.complimentary_until
           /\ user'.is_premium = user.is_premium
  PROVE  Stands(about)'
<1> SUFFICES ASSUME AppliedTo(about) # {}
             PROVE  Reflects(Newest(AppliedTo(about)))'
  BY DEF Stands
<1>1. Newest(AppliedTo(about)) \in AppliedTo(about)
  BY DEF NewestInv, Newest
<1>2. PICK n \in Event : n = Newest(AppliedTo(about)) /\ n.about = about
  BY <1>1 DEF AppliedTo, TypeOK
<1>3. Reflects(n)
  BY <1>2 DEF Stands
<1>4. Newest(AppliedTo(about))' = n
  BY <1>2
<1>5. /\ user.paid_premium_until \in Nat /\ user.complimentary_until \in Nat
      /\ now \in Nat /\ n.expires \in Nat
  BY TimeFacts DEF TypeOK, UserRow, Event
<1>8. Later(now', n.expires) \in Nat /\ Later(now, n.expires) <= Later(now', n.expires)
      /\ Later(now, n.expires) \in Nat
  BY <1>5 DEF Later
<1>9. Later(now, n.expires)' = Later(now', n.expires)
  BY DEF Later
<1>6. CASE about = "paid"
  <2>1. Reflects(n)'
    BY <1>2, <1>3, <1>5, <1>6, <1>8, <1>9 DEF Reflects
  <2> QED BY <2>1, <1>4
<1>7. CASE about = "complimentary"
  <2>1. Reflects(n)'
    BY <1>2, <1>3, <1>5, <1>7, <1>8, <1>9 DEF Reflects
  <2> QED BY <2>1, <1>4
<1> QED BY <1>6, <1>7 DEF Source

LEMMA ApplyTouches ==
  ASSUME EntitlementInv, NEW e \in events, Apply(e)
  PROVE  \E about \in Source :
           /\ Touches(e, about)
           /\ e.named => about = e.about
           /\ user'.entitlement_source # "none" \/ user'.premium_until # Null
<1>1. e.about \in Source
  BY DEF EntitlementInv, TypeOK, Event
<1>2. CASE GrantComplimentary(e) \/ GrantPaid(e)
  BY <1>1, <1>2, GrantFacts DEF EntitlementInv
<1>3. CASE ExpireComplimentary(e) \/ ExpirePaid(e)
  <2>1. Ended(e) \in Source
    BY DEF Ended, Source
  <2>2. e.named => Ended(e) = e.about
    BY <1>1 DEF Ended, EndsTheComp, Source
  <2>3. Touches(e, Ended(e)) /\ user'.premium_until # Null
    BY <1>3, ExpireFacts DEF EntitlementInv
  <2> QED BY <2>1, <2>2, <2>3
<1> QED BY <1>2, <1>3 DEF Apply

\* The row says of an applied event's source what the event said.
LEMMA ApplyReflects ==
  ASSUME EntitlementInv, NEW e \in events, Apply(e), e.named, now' = now
  PROVE  Reflects(e)'
<1>1. e.about \in Source /\ e.expires \in Until
  BY DEF EntitlementInv, TypeOK, Event
<1>2. CASE e.type = "GRANT"
  <2>1. /\ e.about = "paid" => user'.paid_premium_until = e.expires
        /\ e.about = "complimentary" =>
             /\ user'.complimentary_until = e.expires
             /\ user'.is_premium = (e.expires = Null)
    BY <1>2, GrantFacts DEF Apply, EntitlementInv
  <2> QED BY <1>1, <1>2, <2>1 DEF Reflects, Source
<1>3. CASE e.type = "EXPIRATION"
  <2>1. Ended(e) = e.about
    BY <1>1 DEF Ended, EndsTheComp, Source
  <2>2. /\ e.about = "paid" => user'.paid_premium_until = EndOf(e)
        /\ e.about = "complimentary" =>
             user'.complimentary_until = EndOf(e) /\ user'.is_premium = FALSE
    BY <1>3, <2>1, ExpireFacts DEF Apply, EntitlementInv
  <2>3. EndOf(e) # Null /\ EndOf(e) <= Later(now, e.expires)
    BY EndFacts DEF EntitlementInv
  <2>4. Later(now, e.expires)' = Later(now, e.expires)
    BY DEF Later
  <2> QED BY <1>1, <1>3, <2>2, <2>3, <2>4 DEF Reflects, Source
<1> QED BY <1>2, <1>3 DEF Apply

LEMMA ApplyStep ==
  ASSUME EntitlementInv, NEW e \in events, Apply(e), UNCHANGED <<now, sync, rc, events>>
  PROVE  EntitlementInv'
<1>1. PICK about \in Source :
        /\ Touches(e, about)
        /\ e.named => about = e.about
        /\ user'.entitlement_source # "none" \/ user'.premium_until # Null
  BY ApplyTouches
<1>2. /\ TypeOK /\ SentInv /\ HeardInv /\ NewestInv
      /\ e \in Event /\ e.about \in Source /\ e.at \in Nat
  BY DEF EntitlementInv, TypeOK, Event
<1>3. /\ history' = [history EXCEPT !.applied = @ \cup {e}, !.synced = @ \ {e.about}]
      /\ user.last_webhook_event_at_ms < e.at
  BY <1>2 DEF Apply, IsStaleOrDuplicate, TypeOK, UserRow
<1>4. /\ history'.applied = history.applied \cup {e}
      /\ history'.synced = history.synced \ {e.about}
      /\ history'.raced = history.raced /\ history' \in HistoryState
  BY <1>2, <1>3 DEF TypeOK, HistoryState
<1>5. \A f \in history.applied : f.at \in Nat /\ f.at < e.at
  BY <1>2, <1>3 DEF TypeOK, Event, UserRow
<1>6. TypeOK'
  BY <1>1, <1>2, <1>4, <1>5 DEF TypeOK, Touches
<1>7. SentInv' /\ HeardInv'
  BY <1>2 DEF SentInv, HeardInv
<1>8. MarkInv'
  BY <1>1 DEF MarkInv
<1>9. DerivedSummary'
  BY <1>1 DEF DerivedSummary, Touches
<1>10. \A a \in Source : AppliedTo(a)' = IF a = e.about THEN AppliedTo(a) \cup {e}
                                         ELSE AppliedTo(a)
  BY <1>4 DEF AppliedTo
<1>11. NewestInv'
  <2> SUFFICES ASSUME NEW a \in Source, AppliedTo(a)' # {}
               PROVE  \E n \in AppliedTo(a)' : \A f \in AppliedTo(a)' : f.at <= n.at
    BY DEF NewestInv
  <2>1. CASE a = e.about
    <3>1. e \in AppliedTo(a)'
      BY <1>10, <2>1
    <3>2. \A f \in AppliedTo(a)' : f.at <= e.at
      BY <1>2, <1>5, <1>10, <2>1 DEF AppliedTo
    <3> QED BY <3>1, <3>2
  <2>2. CASE a # e.about
    BY <1>2, <1>10, <2>2 DEF NewestInv
  <2> QED BY <2>1, <2>2
<1>12. NewestAppliedWins'
  <2> SUFFICES ASSUME \A f \in history'.applied : f.named,
                      NEW a \in Source, a \notin history'.synced
               PROVE  Stands(a)'
    BY DEF NewestAppliedWins, Stands, AppliedTo
  <2>1. e.named /\ about = e.about
    BY <1>1, <1>4
  <2>2. CASE a = e.about
    <3>1. e \in AppliedTo(a)' /\ \A f \in AppliedTo(a)' : f.at \in Nat
      BY <1>2, <1>5, <1>10, <2>2 DEF AppliedTo
    <3>2. \A f \in AppliedTo(a)' \ {e} : f.at < e.at
      BY <1>5, <1>10, <2>2 DEF AppliedTo
    <3>3. Newest(AppliedTo(a)') = e
      BY <3>1, <3>2, NewestIs
    <3>4. Newest(AppliedTo(a))' = e
      BY <3>3
    <3>5. Reflects(e)'
      BY <2>1, ApplyReflects
    <3> QED BY <3>4, <3>5 DEF Stands
  <2>3. CASE a # e.about
    <3>1. Stands(a)
      BY <1>4, <2>3, WinsFacts DEF EntitlementInv
    <3>2. /\ a = "paid" => user'.paid_premium_until = user.paid_premium_until
          /\ a = "complimentary" =>
               /\ user'.complimentary_until = user.complimentary_until
               /\ user'.is_premium = user.is_premium
      BY <1>1, <2>1, <2>3 DEF Touches, Source
    <3>3. AppliedTo(a)' = AppliedTo(a)
      BY <1>10, <2>3
    <3>4. now' \in Nat /\ now' >= now
      BY <1>2 DEF TypeOK
    <3> QED BY <1>2, <3>1, <3>2, <3>3, <3>4, StandsStill
  <2> QED BY <2>2, <2>3
<1> QED BY <1>6, <1>7, <1>8, <1>9, <1>11, <1>12 DEF EntitlementInv

\* Steps after which the row and what was applied to it are the same.
LEMMA QuietStep ==
  ASSUME EntitlementInv, TypeOK', SentInv', HeardInv', MarkInv',
         UNCHANGED <<user, history>>, now' >= now
  PROVE  EntitlementInv'
<1>1. DerivedSummary' /\ NewestInv'
  BY DEF EntitlementInv, DerivedSummary, NewestInv, AppliedTo
<1>2. NewestAppliedWins'
  <2> SUFFICES ASSUME \A f \in history.applied : f.named,
                      NEW a \in Source, a \notin history.synced
               PROVE  Stands(a)'
    BY DEF NewestAppliedWins, Stands, AppliedTo
  <2>1. Stands(a)
    BY WinsFacts DEF EntitlementInv
  <2>2. AppliedTo(a)' = AppliedTo(a) /\ now' \in Nat
    BY DEF AppliedTo, TypeOK
  <2> QED BY <2>1, <2>2, StandsStill DEF EntitlementInv
<1> QED BY <1>1, <1>2 DEF EntitlementInv

LEMMA SyncQuietStep ==
  ASSUME EntitlementInv, NEW s \in Sync, SyncLoads(s) \/ SyncAnswered(s) \/ SyncEnds(s)
  PROVE  EntitlementInv'
<1>1. /\ TypeOK /\ SentInv /\ HeardInv /\ MarkInv
      /\ UNCHANGED <<now, user, rc, events, history>>
      /\ now' >= now
  <2>1. TypeOK /\ SentInv /\ HeardInv /\ MarkInv
    BY DEF EntitlementInv
  <2>2. UNCHANGED <<now, user, rc, events, history>>
    BY DEF SyncLoads, SyncAnswered, SyncEnds
  <2>3. now \in Nat /\ now' = now
    BY <2>1, <2>2 DEF TypeOK
  <2> QED BY <2>1, <2>2, <2>3
<1>2. /\ sync \in [Sync -> SyncState] /\ user \in UserRow
  BY <1>1 DEF TypeOK
<1>3. PICK new \in SyncState :
        /\ sync' = [sync EXCEPT ![s] = new]
        /\ new.pc = "answered" => new.expires # Null
        /\ new.pc # "idle" =>
             \/ new.loaded = user
             \/ /\ sync[s].pc # "idle"
                /\ new.loaded = sync[s].loaded
  <2>1. CASE SyncLoads(s)
    <3> DEFINE new == [sync[s] EXCEPT !.pc = "asked", !.loaded = user]
    <3>1. new \in SyncState /\ new.pc = "asked" /\ new.loaded = user
      BY <1>2 DEF SyncState
    <3>2. sync' = [sync EXCEPT ![s] = new]
      BY <1>2, <2>1 DEF SyncLoads
    <3> HIDE DEF new
    <3> QED BY <3>1, <3>2
  <2>2. CASE SyncAnswered(s)
    <3>1. PICK about \in Source :
            /\ rc[about] # Null
            /\ sync' = [sync EXCEPT ![s].pc = "answered", ![s].about = about,
                                    ![s].expires = rc[about]]
      BY <2>2 DEF SyncAnswered
    <3> DEFINE new == [sync[s] EXCEPT !.pc = "answered", !.about = about, !.expires = rc[about]]
    <3>2. rc[about] \in Until
      BY <1>1 DEF TypeOK
    <3>3. /\ new \in SyncState /\ new.expires = rc[about]
          /\ new.loaded = sync[s].loaded
      BY <1>2, <3>2 DEF SyncState
    <3>4. sync' = [sync EXCEPT ![s] = new]
      BY <1>2, <3>1
    <3>5. sync[s].pc # "idle"
      BY <2>2 DEF SyncAnswered
    <3> QED BY <3>1, <3>3, <3>4, <3>5
  <2>3. CASE SyncEnds(s)
    <3>1. IdleSync \in SyncState /\ IdleSync.pc = "idle"
      BY TimeFacts DEF IdleSync, SyncState, NewUser, UserRow, Source, Null
    <3> QED BY <2>3, <3>1 DEF SyncEnds
  <2> QED BY <2>1, <2>2, <2>3
<1>4. /\ sync'[s] = new /\ sync' \in [Sync -> SyncState]
      /\ \A t \in Sync : t # s => sync'[t] = sync[t]
  BY <1>2, <1>3
<1>5. TypeOK' /\ SentInv' /\ HeardInv'
  BY <1>1, <1>3, <1>4 DEF TypeOK, SentInv, HeardInv
<1>6. MarkInv'
  BY <1>1, <1>3, <1>4 DEF MarkInv
<1> QED BY <1>1, <1>5, <1>6, QuietStep

LEMMA SyncWriteStep ==
  ASSUME EntitlementInv, NEW s \in Sync, SyncWrites(s)
  PROVE  EntitlementInv'
<1> DEFINE about == sync[s].about
<1>1. /\ TypeOK /\ SentInv /\ HeardInv /\ MarkInv /\ NewestInv
      /\ UNCHANGED <<now, rc, events>> /\ about \in Source
      /\ sync' = [sync EXCEPT ![s] = IdleSync] /\ sync[s].pc = "answered"
  BY DEF EntitlementInv, SyncWrites, TypeOK, SyncState
<1>2. history' = [history EXCEPT !.synced = @ \cup {about},
                                 !.raced = @ \/ user # sync[s].loaded]
  BY DEF SyncWrites
<1>3. /\ history'.applied = history.applied
      /\ history'.synced = history.synced \cup {about}
      /\ history'.raced = (history.raced \/ user # sync[s].loaded)
      /\ history' \in HistoryState
  BY <1>1, <1>2 DEF TypeOK, HistoryState
<1> HIDE DEF about
<1>4. /\ user' \in UserRow
      /\ user'.last_webhook_event_at_ms = user.last_webhook_event_at_ms
      /\ user'.is_premium = user.is_premium
      /\ about = "paid" => user'.complimentary_until = user.complimentary_until
      /\ about = "complimentary" => user'.paid_premium_until = user.paid_premium_until
      /\ user'.entitlement_source = about
         \/ /\ user'.entitlement_source = user.entitlement_source
            /\ sync[s].loaded.entitlement_source = about
      /\ user'.premium_until = user.premium_until \/ user'.premium_until # Null
      /\ user = sync[s].loaded =>
           user'.premium_until = Later(user'.paid_premium_until, user'.complimentary_until)
  BY <1>1, WrittenFacts DEF about
<1>5. IdleSync \in SyncState /\ IdleSync.pc = "idle"
  BY TimeFacts DEF IdleSync, SyncState, NewUser, UserRow, Source, Null
<1>6. sync' \in [Sync -> SyncState] /\ \A t \in Sync : sync'[t] \in {sync[t], IdleSync}
  BY <1>1, <1>5 DEF TypeOK
<1>7. TypeOK'
  BY <1>1, <1>3, <1>4, <1>6 DEF TypeOK
<1>8. SentInv' /\ HeardInv'
  BY <1>1, <1>5, <1>6 DEF SentInv, HeardInv
<1>9. MarkInv'
  <2>1. about # "none"
    BY <1>1 DEF Source
  <2> QED BY <1>1, <1>4, <2>1 DEF MarkInv
<1>10. DerivedSummary'
  BY <1>3, <1>4 DEF DerivedSummary
<1>11. \A a \in Source : AppliedTo(a)' = AppliedTo(a)
  BY <1>3 DEF AppliedTo
<1>12. NewestInv'
  BY <1>1, <1>11 DEF NewestInv
<1>13. NewestAppliedWins'
  <2> SUFFICES ASSUME \A f \in history.applied : f.named,
                      NEW a \in Source, a \notin history'.synced
               PROVE  Stands(a)'
    BY <1>3 DEF NewestAppliedWins, Stands, AppliedTo
  <2>1. Stands(a) /\ a # about
    BY <1>3, WinsFacts DEF EntitlementInv
  <2>2. now' \in Nat /\ now' >= now
    BY <1>1 DEF TypeOK
  <2>3. /\ a = "paid" => user'.paid_premium_until = user.paid_premium_until
        /\ a = "complimentary" =>
             /\ user'.complimentary_until = user.complimentary_until
             /\ user'.is_premium = user.is_premium
    BY <1>1, <1>4, <2>1 DEF Source
  <2> QED BY <1>1, <1>11, <2>1, <2>2, <2>3, StandsStill
<1> QED BY <1>7, <1>8, <1>9, <1>10, <1>12, <1>13 DEF EntitlementInv

LEMMA SendStep ==
  ASSUME EntitlementInv, NEW about \in Source, Grants(about) \/ Expires(about)
  PROVE  EntitlementInv'
<1>1. /\ TypeOK /\ SentInv /\ HeardInv /\ MarkInv
      /\ UNCHANGED <<now, user, sync, history>>
      /\ now \in 1 .. MaxTime
      /\ now' >= now
  <2>1. TypeOK /\ SentInv /\ HeardInv /\ MarkInv /\ now \in 1 .. MaxTime
    BY DEF EntitlementInv, TypeOK
  <2>2. UNCHANGED <<now, user, sync, history>>
    BY DEF Grants, Expires
  <2>3. now \in Nat /\ now' = now
    BY <2>1, <2>2
  <2> QED BY <2>1, <2>2, <2>3
<1>2. PICK type \in {"GRANT", "EXPIRATION"}, named \in BOOLEAN, expires \in Until, end \in Until :
        /\ rc' = [rc EXCEPT ![about] = end]
        /\ Sends(type, about, named, expires)
  <2>1. CASE Grants(about)
    <3>1. \A until \in now + 1 .. MaxTime : until \in Until
      BY <1>1, TimeFacts DEF Until, Forever
    <3> QED BY <2>1, <3>1, TimeFacts DEF Grants
  <2>2. CASE Expires(about)
    <3>1. PICK named \in StoreNamed :
            \E end \in Ends(about) :
              /\ rc' = [rc EXCEPT ![about] = end]
              /\ \/ Sends("EXPIRATION", about, named, end)
                 \/ end = now /\ Sends("EXPIRATION", about, named, Null)
      BY <2>2 DEF Expires
    <3>2. PICK end \in Ends(about) :
            /\ rc' = [rc EXCEPT ![about] = end]
            /\ \/ Sends("EXPIRATION", about, named, end)
               \/ Sends("EXPIRATION", about, named, Null)
      BY <3>1
    <3>3. end \in Until /\ Null \in Until
      BY <1>1, TimeFacts DEF TypeOK, Ends, Null
    <3>4. named \in BOOLEAN
      BY StoreNamedAssumption
    <3> QED BY <3>2, <3>3, <3>4
  <2> QED BY <2>1, <2>2
<1> DEFINE e == [at |-> Cardinality(events) + 1, type |-> type, about |-> about,
                 named |-> named, expires |-> expires]
<1>3. events' = events \cup {e} /\ Cardinality(events) < MaxEvents
  BY <1>2 DEF Sends
<1>4. Cardinality(events) \in Nat /\ IsFiniteSet(events)
  BY <1>1, FS_CardinalityType DEF SentInv
<1>5. /\ e \in Event /\ e.at = Cardinality(events) + 1
  BY <1>2, <1>3, <1>4, TimeFacts DEF Event
<1> HIDE DEF e
<1>6. e \notin events
  BY <1>1, <1>4, <1>5 DEF SentInv
<1>7. IsFiniteSet(events') /\ Cardinality(events') = Cardinality(events) + 1
  BY <1>3, <1>4, <1>6, FS_AddElement
<1>8. TypeOK'
  <2>1. rc' \in [Source -> Until]
    BY <1>1, <1>2 DEF TypeOK
  <2> QED BY <1>1, <1>3, <1>5, <2>1 DEF TypeOK
<1>9. SentInv'
  <2>1. \A f \in events : f.at <= Cardinality(events')
    BY <1>1, <1>4, <1>7 DEF SentInv, TypeOK, Event
  <2>2. e.at <= Cardinality(events')
    BY <1>4, <1>5, <1>7
  <2> QED BY <1>3, <1>7, <2>1, <2>2 DEF SentInv
<1>10. HeardInv' /\ MarkInv'
  BY <1>1 DEF HeardInv, MarkInv
<1> QED BY <1>1, <1>8, <1>9, <1>10, QuietStep

LEMMA TickStep ==
  ASSUME EntitlementInv, Tick
  PROVE  EntitlementInv'
<1>1. /\ TypeOK /\ SentInv /\ HeardInv /\ MarkInv
      /\ now' = now + 1 /\ now < MaxTime /\ now \in Nat /\ now >= 1
      /\ UNCHANGED <<user, sync, rc, events, history>>
  BY DEF EntitlementInv, Tick, TypeOK
<1>2. TypeOK'
  BY <1>1, TimeFacts DEF TypeOK
<1>3. SentInv'
  BY <1>1 DEF SentInv
<1>4. HeardInv' /\ MarkInv'
  BY <1>1 DEF HeardInv, MarkInv
<1> QED BY <1>1, <1>2, <1>3, <1>4, QuietStep

LEMMA NextInv == EntitlementInv /\ [Next]_vars => EntitlementInv'
<1> SUFFICES ASSUME EntitlementInv, [Next]_vars PROVE EntitlementInv'
  OBVIOUS
<1>1. CASE RevenuecatWebhook
  <2>1. PICK e \in events : Apply(e) \/ Ignore(e)
    BY <1>1 DEF RevenuecatWebhook
  <2>2. UNCHANGED <<now, sync, rc, events>>
    BY <1>1 DEF RevenuecatWebhook
  <2>3. CASE Apply(e)
    BY <2>2, <2>3, ApplyStep
  <2>4. CASE Ignore(e)
    BY <2>2, <2>4 DEF Ignore, EntitlementInv, TypeOK, SentInv, HeardInv, MarkInv, NewestInv,
       AppliedTo, DerivedSummary, NewestAppliedWins, Reflects
  <2> QED BY <2>1, <2>3, <2>4
<1>2. CASE \E s \in Sync : SyncLoads(s) \/ SyncAnswered(s) \/ SyncEnds(s)
  BY <1>2, SyncQuietStep
<1>3. CASE \E s \in Sync : SyncWrites(s)
  BY <1>3, SyncWriteStep
<1>4. CASE \E about \in Source : Grants(about) \/ Expires(about)
  BY <1>4, SendStep
<1>5. CASE Tick
  BY <1>5, TickStep
<1>6. CASE UNCHANGED vars
  BY <1>6 DEF vars, EntitlementInv, TypeOK, SentInv, HeardInv, MarkInv, NewestInv,
     AppliedTo, DerivedSummary, NewestAppliedWins, Reflects
<1> QED BY <1>1, <1>2, <1>3, <1>4, <1>5, <1>6 DEF Next

-----------------------------------------------------------------------------
(* The results. *)

LEMMA Invariant == Spec => []EntitlementInv
BY InitInv, NextInv, PTL DEF Spec

\* Every column, request and event stays in its set, and the webhook's guard
\* is at least as far as every event it let through.
THEOREM EntitlementTypeCorrect == Spec => []TypeOK
<1>1. EntitlementInv => TypeOK
  BY DEF EntitlementInv
<1> QED BY <1>1, Invariant, PTL

\* premium_until is the later of the two expiries, unless a sync-premium wrote
\* over a row that had changed since it was loaded.
THEOREM SummaryDerived == Spec => []DerivedSummary
<1>1. EntitlementInv => DerivedSummary
  BY DEF EntitlementInv
<1> QED BY <1>1, Invariant, PTL

\* Each source stands where the newest event applied to it left it, however
\* late, repeated or reordered the webhook's deliveries are.
THEOREM NewestWins == Spec => []NewestAppliedWins
<1>1. EntitlementInv => NewestAppliedWins
  BY DEF EntitlementInv
<1> QED BY <1>1, Invariant, PTL

\* Whoever recorded a grant, webhook or sync-premium, and whatever ended it, the
\* account does not fall back into its signup trial.
THEOREM TrialIsOver == Spec => []TrialNeverResumes
<1>1. EntitlementInv => TrialNeverResumes
  BY DEF EntitlementInv, MarkInv, TrialNeverResumes, ResolvedSource, TypeOK, UserRow, Source
<1> QED BY <1>1, Invariant, PTL

LEMMA ExpiryStep ==
  ASSUME EntitlementInv, [Next]_vars, NEW e \in events,
         e.type = "EXPIRATION", e.named, e \in history'.applied \ history.applied,
         IF e.about = "complimentary" THEN user.paid_premium_until > now
         ELSE user.is_premium \/ user.complimentary_until > now
  PROVE  EffectivePremium'
<1>1. PICK f \in events : Apply(f)
  BY DEF Next, vars, RevenuecatWebhook, Ignore, SyncLoads, SyncAnswered, SyncEnds, SyncWrites,
         Grants, Expires, Tick, EntitlementInv, TypeOK, HistoryState
<1>2. f = e
  BY <1>1 DEF Apply, EntitlementInv, TypeOK, HistoryState
<1>3. UNCHANGED now
  BY <1>1, <1>2 DEF Next, vars, RevenuecatWebhook, SyncLoads, SyncAnswered, SyncEnds,
         SyncWrites, Grants, Expires, Tick
<1>4. e.about \in Source /\ now \in Nat /\ user \in UserRow
  BY DEF EntitlementInv, TypeOK, Event
<1>5. Touches(e, e.about)
  BY <1>1, <1>2, ApplyTouches
<1>6. CASE e.about = "complimentary"
  <2>1. user'.premium_until > now'
    BY <1>3, <1>4, <1>5, <1>6, TimeFacts DEF Touches, UserRow
  <2> QED BY <2>1 DEF EffectivePremium
<1>7. CASE e.about = "paid" /\ user.is_premium
  BY <1>4, <1>5, <1>7 DEF Touches, EffectivePremium
<1>8. CASE e.about = "paid" /\ user.complimentary_until > now
  <2>1. user'.premium_until > now'
    BY <1>3, <1>4, <1>5, <1>8, TimeFacts DEF Touches, UserRow
  <2> QED BY <2>1 DEF EffectivePremium
<1> QED BY <1>4, <1>6, <1>7, <1>8 DEF Source

\* The end of one source's grant leaves the access the other still gives.
THEOREM OtherGrantLeft == Spec => ExpiryLeavesOther
<1>1. EntitlementInv /\ [Next]_vars =>
        [\A e \in events :
           /\ e.type = "EXPIRATION" /\ e.named
           /\ e \in history'.applied \ history.applied
           /\ IF e.about = "complimentary" THEN user.paid_premium_until > now
              ELSE user.is_premium \/ user.complimentary_until > now
           => EffectivePremium']_vars
  BY ExpiryStep
<1> QED BY <1>1, Invariant, PTL DEF Spec, ExpiryLeavesOther

=============================================================================
