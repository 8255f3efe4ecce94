----------------------------- MODULE Entitlement -----------------------------
(***************************************************************************)
(* Where effective_premium comes from: the entitlement columns of `users`, *)
(* the RevenueCat webhook (app/routers/revenuecat.py), which delivers each *)
(* event at least once and in any order, and sync-premium                  *)
(* (app/routers/auth.py), which asks RevenueCat and writes what it hears   *)
(* without the row lock the webhook takes.                                 *)
(*                                                                         *)
(* Times are naturals and 0 is SQL NULL, so "set and still ahead" is       *)
(* `> now`.  An event's id and its timestamp are one number: RevenueCat's  *)
(* retries repeat both, and different events have different ones.          *)
(***************************************************************************)
EXTENDS Integers, FiniteSets

CONSTANTS
  MaxTime,      \* bound: the clock stops here
  MaxEvents,    \* bound: events RevenueCat sends
  TrialEnd,     \* when the signup trial runs out
  ManualComps,  \* whether is_premium was set by hand before the first event
  StoreNamed,   \* whether an EXPIRATION names its store
  Sync          \* slots for concurrent sync-premium requests

ASSUME TimesAssumption == MaxTime \in Nat \ {0} /\ MaxEvents \in Nat /\ TrialEnd \in Nat
ASSUME ManualCompsAssumption == ManualComps \subseteq BOOLEAN
ASSUME StoreNamedAssumption == StoreNamed \subseteq BOOLEAN

VARIABLES
  now,      \* the clock
  user,     \* the entitlement columns of the account's row
  sync,     \* each sync-premium request and what it remembers
  rc,       \* RevenueCat's own record: when each grant ends
  events,   \* the events RevenueCat has sent, or will go on sending
  history   \* not in the program: what the properties speak of

vars == <<now, user, sync, rc, events, history>>

Null == 0
Forever == MaxTime + 1    \* an expiry the clock does not reach

Source == {"paid", "complimentary"}
Until == 0 .. Forever

UserRow == [is_premium : BOOLEAN,
            paid_premium_until : Until,
            complimentary_until : Until,
            premium_until : Until,
            entitlement_source : Source \cup {"none"},
            last_webhook_event_at_ms : 0 .. MaxEvents]

Event == [at : 1 .. MaxEvents,
          type : {"GRANT", "EXPIRATION"},
          about : Source,
          named : BOOLEAN,
          expires : Until]

SyncState == [pc : {"idle", "asked", "answered"},
              loaded : UserRow,
              about : Source,
              expires : Until]

(***************************************************************************)
(*   applied   the events the webhook acted on                             *)
(*   synced    the sources sync-premium was the last to write              *)
(*   raced     a sync-premium wrote over a row that had changed since it   *)
(*             was loaded                                                  *)
(***************************************************************************)
HistoryState == [applied : SUBSET Event, synced : SUBSET Source, raced : BOOLEAN]

NewUser(comp) == [is_premium |-> comp,
                  paid_premium_until |-> Null,
                  complimentary_until |-> Null,
                  premium_until |-> Null,
                  entitlement_source |-> IF comp THEN "complimentary" ELSE "none",
                  last_webhook_event_at_ms |-> Null]

IdleSync == [pc |-> "idle", loaded |-> NewUser(FALSE), about |-> "paid",
             expires |-> Null]

Init ==
  /\ now = 1
  /\ \E comp \in ManualComps : user = NewUser(comp)
  /\ sync = [s \in Sync |-> IdleSync]
  /\ rc = [about \in Source |-> Null]
  /\ events = {}
  /\ history = [applied |-> {}, synced |-> {}, raced |-> FALSE]

-----------------------------------------------------------------------------
(* User.recompute_premium_until and User.effective_premium. *)

Later(s, t) == IF s < t THEN t ELSE s

\* Mutant: the summary follows whichever source was written, here paid.
LastWritten(paid, comp) == IF paid # Null THEN paid ELSE comp

\* The expiries still ahead; when neither is, the most recent lapse.
DerivedUntil(paid, comp) ==
  IF paid > now /\ comp > now THEN Later(paid, comp)
  ELSE IF paid > now THEN paid
  ELSE IF comp > now THEN comp
  ELSE Later(paid, comp)

Recomputed(row) ==
  [row EXCEPT !.premium_until =
     DerivedUntil(row.paid_premium_until, row.complimentary_until)]

OnTrial == user.premium_until = Null /\ now < TrialEnd

EffectivePremium == user.is_premium \/ user.premium_until > now \/ OnTrial

\* resolve_entitlement's `source`.
ResolvedSource ==
  IF ~EffectivePremium THEN "free"
  ELSE IF user.entitlement_source # "none" THEN user.entitlement_source
  ELSE IF user.premium_until # Null THEN "paid"
  ELSE IF user.is_premium THEN "complimentary"
  ELSE "trial"

-----------------------------------------------------------------------------
(* revenuecat_webhook, on the locked row. *)

\* Mutant: only an exact repetition of the last event is recognised.
IsDuplicate(e) == e.at = user.last_webhook_event_at_ms

IsStaleOrDuplicate(e) == e.at <= user.last_webhook_event_at_ms

\* A promotional grant without an expiry is a lifetime one.
GrantComplimentary(e) ==
  /\ e.about = "complimentary"
  /\ user' = Recomputed([user EXCEPT !.is_premium = e.expires = Null,
                                     !.complimentary_until = e.expires,
                                     !.entitlement_source = "complimentary",
                                     !.last_webhook_event_at_ms = e.at])

GrantPaid(e) ==
  /\ e.about = "paid"
  /\ user' = Recomputed([user EXCEPT !.paid_premium_until = e.expires,
                                     !.entitlement_source = "paid",
                                     !.last_webhook_event_at_ms = e.at])

\* Mutant: the grant written last outranks the event's own store.
EndsWrittenLast(e) ==
  \/ e.named /\ e.about = "complimentary"
  \/ user.entitlement_source = "complimentary"

\* The event's own store decides; the source written last is a fallback.
EndsTheComp(e) ==
  IF e.named THEN e.about = "complimentary"
  ELSE user.entitlement_source = "complimentary"

\* Mutant: an expiry that has passed is cleared.
Cleared(e) == Null

EndOf(e) == IF e.expires = Null THEN now ELSE e.expires

ExpireComplimentary(e) ==
  /\ EndsTheComp(e)
  /\ user' = Recomputed([user EXCEPT
       !.is_premium = FALSE,
       !.complimentary_until = EndOf(e),
       !.entitlement_source = IF user.paid_premium_until > now THEN "paid" ELSE "none",
       !.last_webhook_event_at_ms = e.at])

ExpirePaid(e) ==
  /\ ~EndsTheComp(e)
  /\ user' = Recomputed([user EXCEPT
       !.paid_premium_until = EndOf(e),
       !.entitlement_source =
         IF user.complimentary_until > now THEN "complimentary" ELSE "none",
       !.last_webhook_event_at_ms = e.at])

Apply(e) ==
  /\ ~IsStaleOrDuplicate(e)
  /\ \/ e.type = "GRANT" /\ (GrantComplimentary(e) \/ GrantPaid(e))
     \/ e.type = "EXPIRATION" /\ (ExpireComplimentary(e) \/ ExpirePaid(e))
  /\ history' = [history EXCEPT !.applied = @ \cup {e},
                                !.synced = @ \ {e.about}]

Ignore(e) ==
  /\ IsStaleOrDuplicate(e)
  /\ UNCHANGED <<user, history>>

\* At any time after it was sent, and again after it was acknowledged.
RevenuecatWebhook ==
  /\ \E e \in events : Apply(e) \/ Ignore(e)
  /\ UNCHANGED <<now, sync, rc, events>>

-----------------------------------------------------------------------------
(* sync_premium: load the row, ask RevenueCat, write. *)

SyncLoads(s) ==
  /\ sync[s].pc = "idle"
  /\ sync' = [sync EXCEPT ![s].pc = "asked", ![s].loaded = user]
  /\ UNCHANGED <<now, user, rc, events, history>>

\* RevenueCat reports one entitlement: the grant that ends last.
SyncAnswered(s) ==
  /\ sync[s].pc = "asked"
  /\ \E about \in Source :
       /\ rc[about] # Null
       /\ \A other \in Source : rc[other] <= rc[about]
       /\ sync' = [sync EXCEPT ![s].pc = "answered", ![s].about = about,
                               ![s].expires = rc[about]]
  /\ UNCHANGED <<now, user, rc, events, history>>

\* No entitlement, or no answer: nothing is written.
SyncEnds(s) ==
  /\ sync[s].pc = "asked"
  /\ sync' = [sync EXCEPT ![s] = IdleSync]
  /\ UNCHANGED <<now, user, rc, events, history>>

\* The ORM writes the columns that differ from the copy it loaded.
Written(s) ==
  LET loaded == sync[s].loaded
      until == sync[s].expires
      changed ==
        IF sync[s].about = "complimentary"
        THEN [loaded EXCEPT !.complimentary_until = until,
                            !.entitlement_source = "complimentary"]
        ELSE [loaded EXCEPT !.paid_premium_until = until,
                            !.entitlement_source = "paid"]
      row == Recomputed(changed)
  IN  [column \in DOMAIN user |->
         IF row[column] # loaded[column] THEN row[column] ELSE user[column]]

SyncWrites(s) ==
  /\ sync[s].pc = "answered"
  /\ user' = Written(s)
  /\ sync' = [sync EXCEPT ![s] = IdleSync]
  /\ history' = [history EXCEPT !.synced = @ \cup {sync[s].about},
                                !.raced = @ \/ user # sync[s].loaded]
  /\ UNCHANGED <<now, rc, events>>

-----------------------------------------------------------------------------
(* RevenueCat: what it sends, and the clock. *)

Newest(S) == CHOOSE e \in S : \A f \in S : f.at <= e.at

Sent(about) == {e \in events : e.about = about}

Sends(type, about, named, expires) ==
  /\ Cardinality(events) < MaxEvents
  /\ events' = events \cup {[at |-> Cardinality(events) + 1, type |-> type,
                             about |-> about, named |-> named,
                             expires |-> expires]}

\* A purchase, a renewal, or a comp, which may be for life.
Grants(about) ==
  /\ \/ \E until \in now + 1 .. MaxTime :
          rc' = [rc EXCEPT ![about] = until] /\ Sends("GRANT", about, TRUE, until)
     \/ /\ about = "complimentary"
        /\ rc' = [rc EXCEPT ![about] = Forever]
        /\ Sends("GRANT", about, TRUE, Null)
  /\ UNCHANGED <<now, user, sync, history>>

\* A grant's natural end, which RevenueCat may report a tick ahead of this
\* server's clock, or a revocation or refund, which ends it now.
Ends(about) ==
  {t \in {rc[about]} : t <= now + 1 /\ t <= MaxTime} \cup {t \in {now} : t < rc[about]}

Expires(about) ==
  /\ Sent(about) # {}
  /\ Newest(Sent(about)).type = "GRANT"
  /\ \E named \in StoreNamed :
     \E end \in Ends(about) :
       /\ rc' = [rc EXCEPT ![about] = end]
       /\ \/ Sends("EXPIRATION", about, named, end)
          \/ end = now /\ Sends("EXPIRATION", about, named, Null)
  /\ UNCHANGED <<now, user, sync, history>>

Tick ==
  /\ now < MaxTime
  /\ now' = now + 1
  /\ UNCHANGED <<user, sync, rc, events, history>>

Next ==
  \/ RevenuecatWebhook
  \/ \E s \in Sync : SyncLoads(s) \/ SyncAnswered(s) \/ SyncEnds(s) \/ SyncWrites(s)
  \/ \E about \in Source : Grants(about) \/ Expires(about)
  \/ Tick

Spec == Init /\ [][Next]_vars

-----------------------------------------------------------------------------
(* What the entitlement columns must satisfy. *)

\* Every variable stays in its set, and the webhook's guard is at least as far
\* as every event it let through.
TypeOK ==
  /\ now \in 1 .. MaxTime
  /\ user \in UserRow
  /\ sync \in [Sync -> SyncState]
  /\ rc \in [Source -> Until]
  /\ events \subseteq Event
  /\ history \in HistoryState
  /\ history.applied \subseteq events
  /\ \A e \in history.applied : e.at <= user.last_webhook_event_at_ms

\* premium_until, which every gate reads, is the later of the two expiries it
\* summarises, whatever order grants and expirations come in, unless a
\* sync-premium wrote over a row that had changed since it was loaded.
DerivedSummary ==
  ~history.raced =>
    user.premium_until = Later(user.paid_premium_until, user.complimentary_until)

\* What an event says of its source is what the row says of it.
Reflects(e) ==
  LET until == IF e.about = "paid" THEN user.paid_premium_until
               ELSE user.complimentary_until
  IN  /\ e.type = "GRANT" => until = e.expires
      /\ e.type = "EXPIRATION" => until # Null /\ until <= Later(now, e.expires)
      /\ e.about = "complimentary" =>
           user.is_premium = (e.type = "GRANT" /\ e.expires = Null)

\* A delayed or repeated event never undoes a newer one of its source: each
\* source stands where the newest event applied to it left it.
NewestAppliedWins ==
  (\A e \in history.applied : e.named) =>
    \A about \in Source \ history.synced :
      LET applied == {e \in history.applied : e.about = about}
      IN  applied # {} => Reflects(Newest(applied))

\* Once a grant was recorded the account never falls back into its signup
\* trial: not when the grant lapses, is revoked or gives way to another.
TrialNeverResumes ==
  history.applied # {} \/ history.synced # {} => ResolvedSource # "trial"

\* The end of one source's grant leaves the access another source still gives.
ExpiryLeavesOther ==
  [][\A e \in events :
       /\ e.type = "EXPIRATION" /\ e.named
       /\ e \in history'.applied \ history.applied
       /\ IF e.about = "complimentary" THEN user.paid_premium_until > now
          ELSE user.is_premium \/ user.complimentary_until > now
       => EffectivePremium']_vars

=============================================================================
