---------------------------- MODULE PlusCheckout ----------------------------
(***************************************************************************)
(* The checkout of a Plus subscription by one customer: the tabs of their  *)
(* browser each run the checkout function, which looks at Stripe, leases   *)
(* the customer's one row of plus_checkout_attempts, looks again, and      *)
(* creates a session with an idempotency key made of the row's token.      *)
(*                                                                         *)
(* A session is named by the token it was created with: while Stripe knows *)
(* the key, another create with it answers with the same session, and the  *)
(* key outlives the session.                                               *)
(***************************************************************************)
EXTENDS Naturals

CONSTANTS
    Tabs,          \* invocations of the checkout function
    MaxTokens,     \* bound: attempt tokens
    MaxTroubles,   \* bound: deaths, failed calls and lost answers
    TabsOutlive,   \* an invocation may go on after its five-minute lease
    LateCreates    \* a create may reach Stripe after its caller gave up

ASSUME PlusAssumption ==
    MaxTokens \in Nat /\ MaxTroubles \in Nat /\ TabsOutlive \in BOOLEAN /\ LateCreates \in BOOLEAN

VARIABLES
    attempt,     \* the row of plus_checkout_attempts
    tokens,      \* tokens generated so far
    sessions,    \* the session Stripe has under the key of each token
    flying,      \* tokens of create requests on their way
    subscribed,  \* Stripe has a subscription that blocks another
    tab,         \* what each invocation is doing
    troubles

plusVars == <<attempt, tokens, sessions, flying, subscribed, tab, troubles>>

Tokens == 1..MaxTokens
NoAttempt == [status |-> "none", token |-> 0, session |-> 0, leased |-> FALSE, fresh |-> FALSE]
Away == [pc |-> "idle", token |-> 0, session |-> 0, started |-> FALSE]

PlusInit ==
    /\ attempt = NoAttempt /\ tokens = 0
    /\ sessions = [t \in Tokens |-> "none"] /\ flying = {}
    /\ subscribed = FALSE
    /\ tab = [b \in Tabs |-> Away] /\ troubles = 0

OpenSessions == {t \in Tokens : sessions[t] = "open"}
\* The row with its token, rewritten.
Row(status, session, leased, fresh) ==
    [status |-> status, token |-> attempt.token, session |-> session,
     leased |-> leased, fresh |-> fresh]
Lease(leased) == Row(attempt.status, attempt.session, leased, attempt.fresh)
Creating(token) == attempt.status = "creating" /\ attempt.token = token
Leases(token) == Creating(token) /\ attempt.leased
Holders(token) == {b \in Tabs : tab[b].pc # "idle" /\ tab[b].token = token}
Goes(b, pc, token, session, started) ==
    tab' = [tab EXCEPT ![b] = [pc |-> pc, token |-> token, session |-> session, started |-> started]]
Turns(b, pc) == Goes(b, pc, tab[b].token, tab[b].session, tab[b].started)
Brings(b, pc, session) == Goes(b, pc, tab[b].token, session, tab[b].started)
Leaves(b) == tab' = [tab EXCEPT ![b] = Away]
Trouble == troubles < MaxTroubles /\ troubles' = troubles + 1
GoesWell(ok) == IF ok THEN UNCHANGED troubles ELSE Trouble

----------------------------------------------------------------------------
(* The steps of an invocation.                                             *)

\* A subscription, or a session that is still open, ends it.
Look(b) ==
    /\ tab[b].pc = "idle"
    /\ ~subscribed /\ OpenSessions = {}
    /\ Turns(b, "claim")
    /\ UNCHANGED <<attempt, tokens, sessions, flying, subscribed, troubles>>

NewToken ==
    /\ tokens < MaxTokens /\ tokens' = tokens + 1
    /\ attempt' = [status |-> "creating", token |-> tokens + 1, session |-> 0,
                   leased |-> TRUE, fresh |-> TRUE]

\* An uncertain create is tried again with its token.
Reclaims == attempt.status = "creating" /\ attempt.fresh

\* claim_my_plus_checkout_attempt; a first claim that finds a stored session, which
\* the look did not see open, goes on to release it.
Claim(b, heard) ==
    /\ tab[b].pc \in {"claim", "claim_again"}
    /\ \/ /\ attempt.leased /\ UNCHANGED <<attempt, tokens>>
          /\ IF heard /\ attempt.status = "ready" /\ tab[b].pc = "claim"
             THEN Brings(b, "release", attempt.session)
             ELSE Leaves(b)
       \/ /\ ~attempt.leased
          /\ IF Reclaims THEN attempt' = Lease(TRUE) /\ UNCHANGED tokens
             ELSE NewToken
          /\ IF heard THEN Goes(b, "list", attempt'.token, 0, FALSE) ELSE Leaves(b)
    /\ GoesWell(heard)
    /\ UNCHANGED <<sessions, flying, subscribed>>

\* release_my_stale_plus_checkout_attempt
ReleaseStale(b) ==
    /\ tab[b].pc = "release"
    /\ attempt' = IF attempt.status = "ready" /\ attempt.session = tab[b].session
                  THEN NoAttempt ELSE attempt
    /\ Turns(b, "claim_again")
    /\ UNCHANGED <<tokens, sessions, flying, subscribed, troubles>>

\* Fault: the owner does not look again.
SeesNothing == {}
SeesOpen == OpenSessions

\* The owner of the lease looks again, and keeps a session that is open.
ListOpen(b) ==
    /\ tab[b].pc = "list"
    /\ \/ SeesOpen = {} /\ Turns(b, "mark")
       \/ \E t \in SeesOpen : Brings(b, "complete", t)
    /\ UNCHANGED <<attempt, tokens, sessions, flying, subscribed, troubles>>

\* mark_my_plus_checkout_provider_attempt, and the create leaves.
MarkCreate(b) ==
    LET token == tab[b].token
    IN /\ tab[b].pc = "mark"
       /\ \/ /\ Leases(token)
             /\ attempt' = Row(attempt.status, attempt.session, TRUE, TRUE)
             /\ flying' = flying \cup {token}
             /\ Goes(b, "create", token, tab[b].session, TRUE)
          \/ ~Leases(token) /\ Turns(b, "fail") /\ UNCHANGED <<attempt, flying>>
       /\ UNCHANGED <<tokens, sessions, subscribed, troubles>>

CreateAnswers(b) ==
    /\ tab[b].pc = "create" /\ tab[b].token \notin flying
    /\ sessions[tab[b].token] # "none"
    /\ Brings(b, "complete", tab[b].token)
    /\ UNCHANGED <<attempt, tokens, sessions, flying, subscribed, troubles>>

\* complete_my_plus_checkout_attempt refuses a session that has expired.
Keep(b, heard) ==
    LET may == Leases(tab[b].token) /\ sessions[tab[b].session] \in {"open", "paid"}
    IN /\ tab[b].pc = "complete"
       /\ attempt' = IF may THEN Row("ready", tab[b].session, TRUE, TRUE) ELSE attempt
       /\ IF may /\ heard THEN Leaves(b) ELSE Turns(b, "fail")
       /\ GoesWell(heard)
       /\ UNCHANGED <<tokens, sessions, flying, subscribed>>

\* preserve_my_plus_checkout_attempt_for_retry once this invocation started a
\* create, release_my_plus_checkout_attempt before that.
GiveUp(b) ==
    /\ tab[b].pc = "fail"
    /\ attempt' = IF ~Creating(tab[b].token) THEN attempt
                  ELSE IF tab[b].started THEN Row("creating", attempt.session, FALSE, TRUE)
                  ELSE NoAttempt
    /\ Leaves(b)
    /\ UNCHANGED <<tokens, sessions, flying, subscribed, troubles>>

\* A call fails, or the wait for a create ends.
TabCallFails(b) ==
    /\ Trouble
    /\ \/ tab[b].pc \in {"claim", "release", "claim_again", "fail"} /\ Leaves(b)
       \/ tab[b].pc \in {"list", "mark", "create", "complete"} /\ Turns(b, "fail")
    /\ flying' = IF LateCreates THEN flying ELSE flying \ {tab[b].token}
    /\ UNCHANGED <<attempt, tokens, sessions, subscribed>>

TabDies(b) ==
    /\ tab[b].pc # "idle" /\ Trouble /\ Leaves(b)
    /\ flying' = IF LateCreates THEN flying ELSE flying \ {tab[b].token}
    /\ UNCHANGED <<attempt, tokens, sessions, subscribed>>

----------------------------------------------------------------------------
(* Stripe, the customer and time.                                          *)

CreateLands(t) ==
    /\ t \in flying /\ flying' = flying \ {t}
    /\ sessions' = [sessions EXCEPT ![t] = IF @ = "none" THEN "open" ELSE @]
    /\ UNCHANGED <<attempt, tokens, subscribed, tab, troubles>>

CustomerPays(t) ==
    /\ sessions[t] = "open" /\ sessions' = [sessions EXCEPT ![t] = "paid"]
    /\ subscribed' = TRUE
    /\ UNCHANGED <<attempt, tokens, flying, tab, troubles>>

\* A day ends a session and the lease of a row that keeps it.
SessionExpires(t) ==
    /\ sessions[t] = "open" /\ sessions' = [sessions EXCEPT ![t] = "expired"]
    /\ attempt' = IF attempt.status = "ready" /\ attempt.session = t
                  THEN Lease(FALSE) ELSE attempt
    /\ UNCHANGED <<tokens, flying, subscribed, tab, troubles>>

ForgetsKey(t) ==
    /\ sessions[t] \in {"paid", "expired"} /\ t \notin flying
    /\ \A b \in Tabs : t \notin {tab[b].token, tab[b].session}
    /\ sessions' = [sessions EXCEPT ![t] = "none"]
    /\ UNCHANGED <<attempt, tokens, flying, subscribed, tab, troubles>>

LeaseEnds ==
    /\ attempt.leased
    /\ attempt.status = "creating" => TabsOutlive \/ Holders(attempt.token) = {}
    /\ attempt.status = "ready" => sessions[attempt.session] # "open"
    /\ attempt' = Lease(FALSE)
    /\ UNCHANGED <<tokens, sessions, flying, subscribed, tab, troubles>>

\* Twenty-five hours after the row was last written.
AttemptAges ==
    /\ attempt.status = "creating" /\ attempt.fresh /\ ~attempt.leased
    /\ attempt.token \notin flying /\ sessions[attempt.token] # "open"
    /\ attempt' = Row("creating", attempt.session, FALSE, FALSE)
    /\ UNCHANGED <<tokens, sessions, flying, subscribed, tab, troubles>>

SubscriptionEnds ==
    /\ subscribed /\ subscribed' = FALSE
    /\ UNCHANGED <<attempt, tokens, sessions, flying, tab, troubles>>

PlusNext ==
    \/ \E b \in Tabs : \/ Look(b) \/ ReleaseStale(b) \/ ListOpen(b) \/ MarkCreate(b)
                       \/ CreateAnswers(b) \/ GiveUp(b) \/ TabCallFails(b) \/ TabDies(b)
                       \/ \E heard \in BOOLEAN : Claim(b, heard) \/ Keep(b, heard)
    \/ \E t \in Tokens : CreateLands(t) \/ CustomerPays(t) \/ SessionExpires(t) \/ ForgetsKey(t)
    \/ LeaseEnds \/ AttemptAges \/ SubscriptionEnds

PlusSpec == PlusInit /\ [][PlusNext]_plusVars

----------------------------------------------------------------------------
(* Properties.                                                             *)

Working == {"list", "mark", "create", "complete", "fail"}
Attempts == [status : {"none", "creating", "ready"}, token : 0..MaxTokens,
             session : 0..MaxTokens, leased : BOOLEAN, fresh : BOOLEAN]
TabStates == [pc : {"idle", "claim", "release", "claim_again"} \cup Working,
              token : 0..MaxTokens, session : 0..MaxTokens, started : BOOLEAN]
\* The row, the sessions and the invocations keep their types.
PlusTypeOK ==
    /\ attempt \in Attempts /\ tokens \in 0..MaxTokens
    /\ sessions \in [Tokens -> {"none", "open", "paid", "expired"}]
    /\ flying \subseteq 0..MaxTokens /\ subscribed \in BOOLEAN
    /\ tab \in [Tabs -> TabStates] /\ troubles \in 0..MaxTroubles

\* Simultaneous tabs, retries after a lost answer and returns on another day never
\* leave the customer two sessions they could pay.
OnePayableSession == \A s, t \in OpenSessions : s = t

----------------------------------------------------------------------------
(* Why OnePayableSession holds while no invocation outlives its lease and  *)
(* no create its caller: the parts of an inductive invariant.              *)

\* Whoever works under a token has the lease, or has lost the row and only cleans up.
Owns(b) == tab[b].pc \in Working /\ Leases(tab[b].token)
TokensAreKnown ==
    /\ attempt.token <= tokens /\ \A b \in Tabs : tab[b].token <= tokens
    /\ attempt.status = "creating" => attempt.token > 0
OwnsOrCleans(b) ==
    tab[b].token > 0 /\ (Owns(b) \/ (tab[b].pc = "fail" /\ ~Creating(tab[b].token)))
WorkersOwn == \A b \in Tabs : tab[b].pc \in Working => OwnsOrCleans(b)

OneOwner == \A b, c \in Tabs : Owns(b) /\ Owns(c) => b = c

\* A create on its way has an owner who waits for it.
CreatesAreAwaited ==
    \A t \in flying : \E b \in Tabs : tab[b].pc = "create" /\ tab[b].token = t

\* Nothing is open when an owner is about to create, and nothing else afterwards.
OwnersCreateAlone ==
    \A b \in Tabs : /\ tab[b].pc = "mark" => OpenSessions = {}
                    /\ tab[b].pc = "create" => OpenSessions \subseteq {tab[b].token}

PlusInv == /\ TokensAreKnown /\ WorkersOwn /\ OneOwner
           /\ CreatesAreAwaited /\ OwnersCreateAlone /\ OnePayableSession
=============================================================================
