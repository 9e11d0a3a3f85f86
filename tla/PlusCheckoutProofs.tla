------------------------- MODULE PlusCheckoutProofs -------------------------
(***************************************************************************)
(* Theorems about PlusCheckout: types, and one payable session for every   *)
(* number of tabs, tokens and troubles.                                    *)
(***************************************************************************)
EXTENDS PlusCheckout, TLAPS

----------------------------------------------------------------------------
(* Types.                                                                  *)

\* The row stays an attempt however it is rewritten.
LEMMA RowTypes ==
    ASSUME PlusTypeOK, NEW s \in {"none", "creating", "ready"}, NEW i \in 0..MaxTokens,
           NEW l \in BOOLEAN, NEW f \in BOOLEAN
    PROVE  Row(s, i, l, f) \in Attempts
BY DEF PlusTypeOK, Attempts, Row

\* A renewed or ended lease leaves an attempt.
LEMMA LeaseTypes == ASSUME PlusTypeOK, NEW l \in BOOLEAN PROVE Lease(l) \in Attempts
BY DEF PlusTypeOK, Attempts, Row, Lease

\* The missing attempt and the tab that is away are values of their types.
LEMMA NothingTypes == NoAttempt \in Attempts /\ Away \in TabStates
BY PlusAssumption DEF Attempts, TabStates, NoAttempt, Away, Working

\* What one invocation does leaves every invocation a state.
LEMMA TabTypes ==
    ASSUME PlusTypeOK, NEW b \in Tabs, NEW pc \in {"claim", "release", "claim_again"} \cup Working,
           NEW t \in 0..MaxTokens, NEW s \in 0..MaxTokens, NEW g \in BOOLEAN,
           Goes(b, pc, t, s, g)
    PROVE  tab' \in [Tabs -> TabStates]
BY DEF PlusTypeOK, TabStates, Goes

\* An invocation that leaves leaves every invocation a state.
LEMMA LeavesTypes ==
    ASSUME PlusTypeOK, NEW b \in Tabs, Leaves(b) PROVE tab' \in [Tabs -> TabStates]
BY NothingTypes DEF PlusTypeOK, Leaves

\* The fields of the row.
LEMMA FieldTypes ==
    ASSUME PlusTypeOK
    PROVE  /\ attempt.token \in 0..MaxTokens /\ attempt.session \in 0..MaxTokens
           /\ attempt.status \in {"none", "creating", "ready"}
           /\ attempt.leased \in BOOLEAN /\ attempt.fresh \in BOOLEAN
           /\ \A b \in Tabs : /\ tab[b].token \in 0..MaxTokens
                              /\ tab[b].session \in 0..MaxTokens
                              /\ tab[b].started \in BOOLEAN
BY DEF PlusTypeOK, Attempts, TabStates

\* An invocation that turns to its next call keeps every invocation a state.
LEMMA TurnTypes ==
    ASSUME PlusTypeOK, NEW b \in Tabs, NEW pc \in {"claim", "release", "claim_again"} \cup Working,
           Turns(b, pc) \/ \E s \in 0..MaxTokens : Brings(b, pc, s)
    PROVE  tab' \in [Tabs -> TabStates]
<1>1. CASE Turns(b, pc)
  BY <1>1, FieldTypes, TabTypes DEF Turns
<1>2. CASE \E s \in 0..MaxTokens : Brings(b, pc, s)
  <2>1. PICK s \in 0..MaxTokens : Brings(b, pc, s)
    BY <1>2
  <2>2. tab[b].token \in 0..MaxTokens /\ tab[b].started \in BOOLEAN
    BY FieldTypes
  <2>3. Goes(b, pc, tab[b].token, s, tab[b].started)
    BY <2>1 DEF Brings
  <2> QED BY <2>2, <2>3, TabTypes
<1> QED BY <1>1, <1>2

\* The values the variables of the checkout may have, through every step.
LEMMA PlusTypeStep == PlusTypeOK /\ [PlusNext]_plusVars => PlusTypeOK'
<1> SUFFICES ASSUME PlusTypeOK, [PlusNext]_plusVars PROVE PlusTypeOK'
  OBVIOUS
<1> USE PlusAssumption, FieldTypes
<1>1. ASSUME NEW b \in Tabs, Look(b) PROVE PlusTypeOK'
  BY <1>1, TurnTypes DEF Look, PlusTypeOK, Working
<1>2. ASSUME NEW b \in Tabs, NEW heard \in BOOLEAN, Claim(b, heard) PROVE PlusTypeOK'
  <2>1. troubles' \in 0..MaxTroubles /\ UNCHANGED <<sessions, flying, subscribed>>
    BY <1>2 DEF Claim, GoesWell, Trouble, PlusTypeOK
  <2>2. CASE attempt.leased
    <3>1. Brings(b, "release", attempt.session) \/ Leaves(b)
      BY <1>2, <2>2 DEF Claim
    <3>2. UNCHANGED <<attempt, tokens>>
      BY <1>2, <2>2 DEF Claim
    <3>3. tab' \in [Tabs -> TabStates]
      BY <3>1, TurnTypes, LeavesTypes
    <3> QED BY <2>1, <3>2, <3>3 DEF PlusTypeOK
  <2>3. CASE ~attempt.leased
    <3>1. \/ attempt' = Lease(TRUE) /\ UNCHANGED tokens
          \/ NewToken
      BY <1>2, <2>3 DEF Claim
    <3>2. tokens' \in 0..MaxTokens /\ attempt' \in Attempts
      <4>1. CASE attempt' = Lease(TRUE) /\ UNCHANGED tokens
        BY <4>1, LeaseTypes DEF PlusTypeOK
      <4>2. CASE NewToken
        <5>1. tokens + 1 \in 0..MaxTokens /\ 0 \in 0..MaxTokens
          BY <4>2 DEF NewToken, PlusTypeOK
        <5> QED BY <4>2, <5>1 DEF NewToken, Attempts
      <4> QED BY <3>1, <4>1, <4>2
    <3>3. attempt'.token \in 0..MaxTokens
      BY <3>2 DEF Attempts
    <3>4. Goes(b, "list", attempt'.token, 0, FALSE) \/ Leaves(b)
      BY <1>2, <2>3 DEF Claim
    <3>5. tab' \in [Tabs -> TabStates]
      <4>1. CASE Goes(b, "list", attempt'.token, 0, FALSE)
        <5>1. 0 \in 0..MaxTokens /\ "list" \in Working
          BY DEF Working
        <5> QED BY <3>3, <4>1, <5>1, TabTypes
      <4>2. CASE Leaves(b)
        BY <4>2, LeavesTypes
      <4> QED BY <3>4, <4>1, <4>2
    <3> QED BY <2>1, <3>2, <3>5 DEF PlusTypeOK
  <2> QED BY <2>2, <2>3
<1>3. ASSUME NEW b \in Tabs, ReleaseStale(b) PROVE PlusTypeOK'
  <2>1. tab' \in [Tabs -> TabStates]
    BY <1>3, TurnTypes DEF ReleaseStale
  <2> QED BY <1>3, <2>1, NothingTypes DEF ReleaseStale, PlusTypeOK
<1>4. ASSUME NEW b \in Tabs, ListOpen(b) PROVE PlusTypeOK'
  <2>1. \E t \in 0..MaxTokens : Turns(b, "mark") \/ Brings(b, "complete", t)
    BY <1>4 DEF ListOpen, SeesOpen, OpenSessions, Tokens
  <2>2. tab' \in [Tabs -> TabStates]
    BY <2>1, TurnTypes DEF Working
  <2> QED BY <1>4, <2>2 DEF ListOpen, PlusTypeOK
<1>5. ASSUME NEW b \in Tabs, MarkCreate(b) PROVE PlusTypeOK'
  <2>1. Goes(b, "create", tab[b].token, tab[b].session, TRUE) \/ Turns(b, "fail")
    BY <1>5 DEF MarkCreate
  <2>2. tab' \in [Tabs -> TabStates]
    BY <2>1, TabTypes, TurnTypes DEF Working
  <2>3. attempt' \in Attempts
    BY <1>5, RowTypes DEF MarkCreate, PlusTypeOK
  <2>4. flying' \subseteq 0..MaxTokens
    BY <1>5 DEF MarkCreate, PlusTypeOK
  <2> QED BY <1>5, <2>2, <2>3, <2>4 DEF MarkCreate, PlusTypeOK
<1>6. ASSUME NEW b \in Tabs, CreateAnswers(b) PROVE PlusTypeOK'
  <2>1. tab' \in [Tabs -> TabStates]
    BY <1>6, TurnTypes DEF CreateAnswers, Working
  <2> QED BY <1>6, <2>1 DEF CreateAnswers, PlusTypeOK
<1>7. ASSUME NEW b \in Tabs, NEW heard \in BOOLEAN, Keep(b, heard) PROVE PlusTypeOK'
  <2>1. Leaves(b) \/ Turns(b, "fail")
    BY <1>7 DEF Keep
  <2>2. tab' \in [Tabs -> TabStates]
    BY <2>1, TurnTypes, LeavesTypes DEF Working
  <2>3. attempt' \in Attempts
    BY <1>7, RowTypes DEF Keep, PlusTypeOK
  <2>4. troubles' \in 0..MaxTroubles
    BY <1>7 DEF Keep, GoesWell, Trouble, PlusTypeOK
  <2> QED BY <1>7, <2>2, <2>3, <2>4 DEF Keep, PlusTypeOK
<1>8. ASSUME NEW b \in Tabs, GiveUp(b) PROVE PlusTypeOK'
  <2>1. tab' \in [Tabs -> TabStates]
    BY <1>8, LeavesTypes DEF GiveUp
  <2>2. attempt' \in Attempts
    BY <1>8, RowTypes, NothingTypes DEF GiveUp, PlusTypeOK
  <2> QED BY <1>8, <2>1, <2>2 DEF GiveUp, PlusTypeOK
<1>9. ASSUME NEW b \in Tabs, TabCallFails(b) \/ TabDies(b) PROVE PlusTypeOK'
  <2>1. troubles' \in 0..MaxTroubles
    BY <1>9 DEF TabCallFails, TabDies, Trouble, PlusTypeOK
  <2>5. flying' \subseteq flying
    BY <1>9 DEF TabCallFails, TabDies
  <2>2. UNCHANGED <<attempt, tokens, sessions, subscribed>>
    BY <1>9 DEF TabCallFails, TabDies
  <2>3. Leaves(b) \/ Turns(b, "fail")
    BY <1>9 DEF TabCallFails, TabDies
  <2>4. tab' \in [Tabs -> TabStates]
    BY <2>3, TurnTypes, LeavesTypes DEF Working
  <2> QED BY <2>1, <2>2, <2>4, <2>5 DEF PlusTypeOK
<1>10. ASSUME NEW t \in Tokens, CreateLands(t) \/ ForgetsKey(t) PROVE PlusTypeOK'
  BY <1>10 DEF CreateLands, ForgetsKey, PlusTypeOK, Tokens
<1>11. ASSUME NEW t \in Tokens, CustomerPays(t) PROVE PlusTypeOK'
  BY <1>11 DEF CustomerPays, PlusTypeOK, Tokens
<1>12. ASSUME NEW t \in Tokens, SessionExpires(t) PROVE PlusTypeOK'
  <2>1. attempt' \in Attempts
    BY <1>12, LeaseTypes DEF SessionExpires, PlusTypeOK
  <2> QED BY <1>12, <2>1 DEF SessionExpires, PlusTypeOK
<1>13. CASE LeaseEnds \/ AttemptAges
  <2>1. attempt' \in Attempts
    BY <1>13, LeaseTypes, RowTypes DEF LeaseEnds, AttemptAges
  <2> QED BY <1>13, <2>1 DEF LeaseEnds, AttemptAges, PlusTypeOK
<1>14. CASE SubscriptionEnds
  BY <1>14 DEF SubscriptionEnds, PlusTypeOK
<1>15. CASE UNCHANGED plusVars
  BY <1>15 DEF plusVars, PlusTypeOK
<1> QED
  BY <1>1, <1>2, <1>3, <1>4, <1>5, <1>6, <1>7, <1>8, <1>9, <1>10, <1>11, <1>12, <1>13,
     <1>14, <1>15 DEF PlusNext

\* The first state is typed.
LEMMA PlusTypeInit == PlusInit => PlusTypeOK
<1> SUFFICES ASSUME PlusInit PROVE PlusTypeOK
  OBVIOUS
<1>1. tab \in [Tabs -> TabStates] /\ attempt \in Attempts
  BY NothingTypes DEF PlusInit
<1>2. sessions \in [Tokens -> {"none", "open", "paid", "expired"}]
  BY DEF PlusInit
<1>3. tokens \in 0..MaxTokens /\ troubles \in 0..MaxTroubles
  BY PlusAssumption DEF PlusInit
<1>4. flying \subseteq 0..MaxTokens /\ subscribed \in BOOLEAN
  BY DEF PlusInit
<1> QED BY <1>1, <1>2, <1>3, <1>4 DEF PlusTypeOK

\* Every reachable state has the types of PlusTypeOK.
THEOREM PlusTypeCorrect == PlusSpec => []PlusTypeOK
BY PlusTypeInit, PlusTypeStep, PTL DEF PlusSpec

----------------------------------------------------------------------------
(* One payable session.                                                    *)

\* No invocation outlives its lease, and no create its caller.
Punctual == ~TabsOutlive /\ ~LateCreates

\* While no invocation owns the lease, those at work only clean up.
LEMMA OnlyCleaners ==
    ASSUME PlusTypeOK, PlusInv, NEW c \in Tabs, tab[c].pc \in Working, ~Owns(c)
    PROVE  tab[c].pc = "fail" /\ ~Creating(tab[c].token)
BY DEF PlusInv, WorkersOwn, OwnsOrCleans

\* What changes neither the row nor who works under it, adds no session and no
\* create, keeps the invariant.
LEMMA RowStays ==
    ASSUME PlusTypeOK, PlusTypeOK', PlusInv, NEW b \in Tabs,
           UNCHANGED <<attempt, tokens>>,
           \A c \in Tabs \ {b} : tab'[c] = tab[c],
           tab'[b].token \in {0, tab[b].token},
           tab'[b].pc \in Working => tab[b].pc \in Working /\ tab'[b].token = tab[b].token,
           tab'[b].pc \in Working /\ tab[b].pc = "fail" => tab'[b].pc = "fail",
           tab'[b].pc = "mark" => OpenSessions = {},
           tab'[b].pc # "create",
           flying' \subseteq flying, tab[b].pc = "create" => tab[b].token \notin flying',
           OpenSessions' \subseteq OpenSessions
    PROVE  PlusInv'
<1> USE DEF PlusInv, OwnsOrCleans, Owns, Leases, Creating
<1>1. TokensAreKnown'
  BY DEF TokensAreKnown, PlusTypeOK
<1>2. WorkersOwn'
  BY DEF WorkersOwn, Working
<1>3. OneOwner'
  BY DEF OneOwner
<1>4. CreatesAreAwaited'
  BY DEF CreatesAreAwaited
<1>5. OwnersCreateAlone' /\ OnePayableSession'
  BY DEF OwnersCreateAlone, OnePayableSession
<1> QED BY <1>1, <1>2, <1>3, <1>4, <1>5

\* Time and the customer end sessions and leases, and never take the row from an owner.
LEMMA TabsStay ==
    ASSUME PlusTypeOK, PlusTypeOK', PlusInv, UNCHANGED <<tokens, tab, flying>>,
           attempt'.token = attempt.token, attempt'.status = attempt.status,
           attempt' = attempt \/ \A b \in Tabs : ~Owns(b),
           OpenSessions' \subseteq OpenSessions, attempt'.leased => attempt.leased
    PROVE  PlusInv'
<1> USE DEF PlusInv, OwnsOrCleans, Owns, Leases, Creating
<1>1. TokensAreKnown'
  BY DEF TokensAreKnown
<1>2. WorkersOwn'
  BY DEF WorkersOwn, Working
<1>3. OneOwner'
  BY DEF OneOwner
<1>4. CreatesAreAwaited'
  BY DEF CreatesAreAwaited
<1>5. OwnersCreateAlone' /\ OnePayableSession'
  BY DEF OwnersCreateAlone, OnePayableSession
<1> QED BY <1>1, <1>2, <1>3, <1>4, <1>5

\* An invocation that frees a row it owned, or keeps a session in it, goes on to
\* clean up or leaves; nobody else owned the row.
LEMMA OwnerLetsGo ==
    ASSUME PlusTypeOK, PlusTypeOK', PlusInv, NEW b \in Tabs, Owns(b), tab[b].pc # "create",
           UNCHANGED <<tokens, sessions, flying>>,
           \A c \in Tabs \ {b} : tab'[c] = tab[c],
           attempt' = NoAttempt \/ attempt'.token = attempt.token,
           attempt'.status # "creating" \/ (~attempt'.leased /\ tab'[b] = Away),
           tab'[b] = Away \/ (tab'[b].pc = "fail" /\ tab'[b].token = tab[b].token)
    PROVE  PlusInv'
<1> USE DEF PlusInv, OwnsOrCleans, Owns, Leases, Creating, NoAttempt, Away
<1>1. TokensAreKnown'
  <2>1. tokens >= 0
    BY DEF PlusTypeOK
  <2> QED BY <2>1 DEF TokensAreKnown
<1>2. WorkersOwn'
  <2> SUFFICES ASSUME NEW c \in Tabs, tab'[c].pc \in Working
               PROVE  OwnsOrCleans(c)'
    BY DEF WorkersOwn
  <2>1. CASE c = b
    BY <2>1 DEF WorkersOwn, Working
  <2>2. CASE c # b
    <3>1. tab'[c] = tab[c] /\ ~Owns(c)
      BY <2>2 DEF OneOwner
    <3>2. tab[c].token > 0 /\ tab[c].pc = "fail" /\ ~Creating(tab[c].token)
      BY <3>1 DEF WorkersOwn
    <3>3. attempt'.status = "creating" => attempt.status = "creating" /\ attempt'.token = attempt.token
      OBVIOUS
    <3> QED BY <3>1, <3>2, <3>3
  <2> QED BY <2>1, <2>2
<1>3. OneOwner'
  <2>1. \A c \in Tabs : ~Owns(c)'
    BY DEF Working
  <2> QED BY <2>1 DEF OneOwner
<1>4. CreatesAreAwaited'
  BY DEF CreatesAreAwaited
<1>5. OwnersCreateAlone' /\ OnePayableSession'
  BY DEF OwnersCreateAlone, OnePayableSession, OpenSessions
<1> QED BY <1>1, <1>2, <1>3, <1>4, <1>5

\* A claim makes its invocation the one owner: with a new token, or with that of a
\* create whose lease has ended.
LEMMA OwnerComes ==
    ASSUME PlusTypeOK, PlusTypeOK', PlusInv, NEW b \in Tabs, ~attempt.leased,
           tab[b].pc \notin Working,
           UNCHANGED <<sessions, flying>>,
           \A c \in Tabs \ {b} : tab'[c] = tab[c],
           attempt'.status = "creating",
           \/ attempt.status = "creating" /\ attempt'.token = attempt.token /\ tokens' = tokens
           \/ attempt'.token = tokens + 1 /\ tokens' = tokens + 1,
           tab'[b] = Away \/ (tab'[b].pc = "list" /\ tab'[b].token = attempt'.token /\ attempt'.leased)
    PROVE  PlusInv'
<1> USE DEF PlusInv, OwnsOrCleans, Owns, Leases, Creating, Away
<1>0. \A c \in Tabs : tab[c].token \in Nat /\ tokens \in Nat /\ attempt.token \in Nat
  BY PlusAssumption, FieldTypes DEF PlusTypeOK
<1>1. TokensAreKnown'
  BY <1>0 DEF TokensAreKnown
<1>6. \A c \in Tabs \ {b} : tab[c].pc \in Working => tab[c].pc = "fail" /\ tab[c].token > 0 /\ tab[c].token # attempt'.token
  BY <1>0 DEF WorkersOwn, TokensAreKnown
<1>2. WorkersOwn'
  <2> SUFFICES ASSUME NEW c \in Tabs, tab'[c].pc \in Working
               PROVE  OwnsOrCleans(c)'
    BY DEF WorkersOwn
  <2>1. CASE c = b
    BY <2>1, <1>0 DEF Working, TokensAreKnown
  <2>2. CASE c # b
    BY <2>2, <1>6
  <2> QED BY <2>1, <2>2
<1>3. OneOwner'
  BY <1>6 DEF OneOwner
<1>4. CreatesAreAwaited'
  BY DEF CreatesAreAwaited, Working
<1>5. OwnersCreateAlone' /\ OnePayableSession'
  BY DEF OwnersCreateAlone, OnePayableSession, OpenSessions
<1> QED BY <1>1, <1>2, <1>3, <1>4, <1>5

\* An owner that saw no session marks its create, which leaves.
LEMMA OwnerCreates ==
    ASSUME PlusTypeOK, PlusTypeOK', PlusInv, NEW b \in Tabs, tab[b].pc = "mark",
           UNCHANGED <<tokens, sessions>>,
           \A c \in Tabs \ {b} : tab'[c] = tab[c],
           attempt'.status = attempt.status, attempt'.token = attempt.token, attempt'.leased,
           flying' = flying \cup {tab[b].token},
           tab'[b].pc = "create", tab'[b].token = tab[b].token
    PROVE  PlusInv'
<1> USE DEF PlusInv, OwnsOrCleans, Owns, Leases, Creating
<1>0. Owns(b)
  BY DEF WorkersOwn, Working
<1>1. TokensAreKnown'
  BY DEF TokensAreKnown
<1>2. WorkersOwn'
  BY <1>0 DEF WorkersOwn, Working
<1>3. OneOwner'
  BY <1>0 DEF OneOwner, Working
<1>4. CreatesAreAwaited'
  BY DEF CreatesAreAwaited
<1>5. OpenSessions = {} /\ OpenSessions' = OpenSessions
  BY DEF OwnersCreateAlone, OpenSessions
<1>6. OwnersCreateAlone' /\ OnePayableSession'
  BY <1>5 DEF OwnersCreateAlone, OnePayableSession
<1> QED BY <1>1, <1>2, <1>3, <1>4, <1>6

\* A create that lands opens the only session: its owner waits, and saw none.
LEMMA CreateLandsAlone ==
    ASSUME PlusTypeOK, PlusTypeOK', PlusInv, NEW t \in Tokens, t \in flying,
           UNCHANGED <<tokens, tab, attempt>>,
           flying' = flying \ {t}, OpenSessions' \subseteq OpenSessions \cup {t}
    PROVE  PlusInv'
<1> USE DEF PlusInv, OwnsOrCleans, Owns, Leases, Creating
<1>1. TokensAreKnown' /\ WorkersOwn' /\ OneOwner' /\ CreatesAreAwaited'
  BY DEF TokensAreKnown, WorkersOwn, OneOwner, CreatesAreAwaited
<1>2. PICK b \in Tabs : tab[b].pc = "create" /\ tab[b].token = t
  BY DEF CreatesAreAwaited
<1>3. Owns(b) /\ OpenSessions' \subseteq {t}
  BY <1>2 DEF WorkersOwn, OwnersCreateAlone, Working
<1>4. \A c \in Tabs : tab[c].pc \in {"mark", "create"} => c = b
  BY <1>3 DEF WorkersOwn, OneOwner, Working
<1>5. OwnersCreateAlone' /\ OnePayableSession'
  BY <1>2, <1>3, <1>4 DEF OwnersCreateAlone, OnePayableSession
<1> QED BY <1>1, <1>5

\* What an invocation's move leaves of the others and makes of it.
LEMMA GoesTo ==
    ASSUME PlusTypeOK, NEW b \in Tabs, NEW pc, NEW t, NEW s, NEW g, Goes(b, pc, t, s, g)
    PROVE  /\ \A c \in Tabs \ {b} : tab'[c] = tab[c]
           /\ tab'[b].pc = pc /\ tab'[b].token = t
BY DEF PlusTypeOK, Goes

\* Who leaves is away, and the others stay.
LEMMA LeavesOthers ==
    ASSUME PlusTypeOK, NEW b \in Tabs, Leaves(b)
    PROVE  (\A c \in Tabs \ {b} : tab'[c] = tab[c]) /\ tab'[b] = Away
BY DEF PlusTypeOK, Leaves

\* Who turns to its next call keeps its token, and the others stay.
LEMMA TurnsTo ==
    ASSUME PlusTypeOK, NEW b \in Tabs, NEW pc, NEW s, Turns(b, pc) \/ Brings(b, pc, s)
    PROVE  /\ \A c \in Tabs \ {b} : tab'[c] = tab[c]
           /\ tab'[b].pc = pc /\ tab'[b].token = tab[b].token
BY DEF PlusTypeOK, Goes, Turns, Brings

\* Every step keeps the invariant when nobody outlives the lease and no create lands late.
LEMMA PlusStep ==
    ASSUME Punctual, PlusTypeOK, PlusTypeOK', PlusInv, [PlusNext]_plusVars
    PROVE  PlusInv'
<1>1. ASSUME NEW b \in Tabs, Look(b) PROVE PlusInv'
  <2>1. Turns(b, "claim") /\ tab[b].pc = "idle" /\ OpenSessions' = OpenSessions
    BY <1>1 DEF Look, OpenSessions
  <2>2. /\ \A c \in Tabs \ {b} : tab'[c] = tab[c]
        /\ tab'[b].pc = "claim" /\ tab'[b].token = tab[b].token
    BY <2>1, TurnsTo
  <2> QED BY <1>1, <2>1, <2>2, RowStays DEF Look, Working
<1>2. ASSUME NEW b \in Tabs, NEW heard \in BOOLEAN, Claim(b, heard) PROVE PlusInv'
  <2>0. tab[b].pc \in {"claim", "claim_again"} /\ OpenSessions' = OpenSessions
        /\ UNCHANGED <<sessions, flying>>
    BY <1>2 DEF Claim, OpenSessions
  <2>1. CASE attempt.leased
    <3>1. Brings(b, "release", attempt.session) \/ Leaves(b)
      BY <1>2, <2>1 DEF Claim
    <3>2. /\ \A c \in Tabs \ {b} : tab'[c] = tab[c]
          /\ tab'[b].token \in {0, tab[b].token} /\ tab'[b].pc \in {"idle", "release"}
      BY <3>1, TurnsTo, LeavesOthers DEF Away
    <3>3. UNCHANGED <<attempt, tokens>>
      BY <1>2, <2>1 DEF Claim
    <3> QED BY <2>0, <3>2, <3>3, RowStays DEF Working
  <2>2. CASE ~attempt.leased
    <3>1. \/ attempt.status = "creating" /\ attempt' = Lease(TRUE) /\ UNCHANGED tokens
          \/ NewToken
      BY <1>2, <2>2 DEF Claim, Reclaims
    <3>2. Goes(b, "list", attempt'.token, 0, FALSE) \/ Leaves(b)
      BY <1>2, <2>2 DEF Claim
    <3>3. /\ \A c \in Tabs \ {b} : tab'[c] = tab[c]
          /\ tab'[b] = Away \/ (tab'[b].pc = "list" /\ tab'[b].token = attempt'.token)
      <4>1. CASE Goes(b, "list", attempt'.token, 0, FALSE)
        BY <4>1, GoesTo
      <4>2. CASE Leaves(b)
        BY <4>2, LeavesOthers
      <4> QED BY <3>2, <4>1, <4>2
    <3>4. /\ attempt'.status = "creating" /\ attempt'.leased
          /\ \/ attempt.status = "creating" /\ attempt'.token = attempt.token /\ tokens' = tokens
             \/ attempt'.token = tokens + 1 /\ tokens' = tokens + 1
      BY <3>1 DEF Lease, Row, NewToken
    <3> QED BY <2>0, <2>2, <3>3, <3>4, OwnerComes DEF Working
  <2> QED BY <2>1, <2>2
<1>3. ASSUME NEW b \in Tabs, ReleaseStale(b) PROVE PlusInv'
  <2>1. CASE attempt' = attempt
    <3>1. Turns(b, "claim_again") /\ tab[b].pc = "release" /\ OpenSessions' = OpenSessions
      BY <1>3 DEF ReleaseStale, OpenSessions
    <3>2. /\ \A c \in Tabs \ {b} : tab'[c] = tab[c]
          /\ tab'[b].pc = "claim_again" /\ tab'[b].token = tab[b].token
      BY <3>1, TurnsTo
    <3> QED BY <1>3, <2>1, <3>1, <3>2, RowStays DEF ReleaseStale, Working
  <2>2. CASE attempt' = NoAttempt /\ attempt.status = "ready"
    <3>1. /\ \A c \in Tabs \ {b} : tab'[c] = tab[c]
          /\ tab'[b].pc = "claim_again" /\ tab'[b].token = tab[b].token
      BY <1>3, TurnsTo DEF ReleaseStale
    <3>2. tab[b].pc = "release" /\ UNCHANGED <<tokens, sessions, flying>>
      BY <1>3 DEF ReleaseStale
    <3>3. \A c \in Tabs : ~Owns(c) /\ ~Owns(c)'
      BY <2>2 DEF Owns, Leases, Creating, NoAttempt
    <3>4. TokensAreKnown'
      BY <2>2, <3>1, <3>2 DEF PlusInv, TokensAreKnown, NoAttempt, PlusTypeOK
    <3>5. WorkersOwn'
      BY <2>2, <3>1, <3>2, <3>3 DEF PlusInv, WorkersOwn, OwnsOrCleans, Working, NoAttempt, Creating
    <3>6. OneOwner' /\ CreatesAreAwaited'
      BY <3>1, <3>2, <3>3 DEF PlusInv, OneOwner, CreatesAreAwaited
    <3>7. OwnersCreateAlone' /\ OnePayableSession'
      BY <3>1, <3>2 DEF PlusInv, OwnersCreateAlone, OnePayableSession, OpenSessions
    <3> QED BY <3>4, <3>5, <3>6, <3>7 DEF PlusInv
  <2> QED BY <1>3, <2>1, <2>2 DEF ReleaseStale
<1>4. ASSUME NEW b \in Tabs, ListOpen(b) PROVE PlusInv'
  <2>1. /\ tab[b].pc = "list" /\ OpenSessions' = OpenSessions
        /\ UNCHANGED <<attempt, tokens, flying>>
    BY <1>4 DEF ListOpen, OpenSessions
  <2>2. (OpenSessions = {} /\ Turns(b, "mark")) \/ \E t \in OpenSessions : Brings(b, "complete", t)
    BY <1>4 DEF ListOpen, SeesOpen
  <2>3. /\ \A c \in Tabs \ {b} : tab'[c] = tab[c]
        /\ tab'[b].token = tab[b].token /\ tab'[b].pc \in {"mark", "complete"}
        /\ tab'[b].pc = "mark" => OpenSessions = {}
    <3>1. CASE OpenSessions = {} /\ Turns(b, "mark")
      BY <3>1, TurnsTo
    <3>2. ASSUME NEW t \in OpenSessions, Brings(b, "complete", t)
          PROVE  /\ \A c \in Tabs \ {b} : tab'[c] = tab[c]
                 /\ tab'[b].token = tab[b].token /\ tab'[b].pc = "complete"
      BY <3>2, TurnsTo
    <3> QED BY <2>2, <3>1, <3>2
  <2> QED BY <2>1, <2>3, RowStays DEF Working
<1>5. ASSUME NEW b \in Tabs, MarkCreate(b) PROVE PlusInv'
  <2>0. tab[b].pc = "mark" /\ OpenSessions' = OpenSessions /\ UNCHANGED <<tokens, sessions>>
    BY <1>5 DEF MarkCreate, OpenSessions
  <2>1. CASE Leases(tab[b].token)
    <3>1. /\ attempt' = Row(attempt.status, attempt.session, TRUE, TRUE)
          /\ flying' = flying \cup {tab[b].token}
          /\ Goes(b, "create", tab[b].token, tab[b].session, TRUE)
      BY <1>5, <2>1 DEF MarkCreate
    <3>2. /\ \A c \in Tabs \ {b} : tab'[c] = tab[c]
          /\ tab'[b].pc = "create" /\ tab'[b].token = tab[b].token
      BY <3>1, GoesTo
    <3>3. attempt'.status = attempt.status /\ attempt'.token = attempt.token /\ attempt'.leased
      BY <3>1 DEF Row
    <3> QED BY <2>0, <3>1, <3>2, <3>3, OwnerCreates
  <2>2. CASE ~Leases(tab[b].token)
    BY <2>0, <2>2 DEF PlusInv, WorkersOwn, OwnsOrCleans, Owns, Working
  <2> QED BY <2>1, <2>2
<1>6. ASSUME NEW b \in Tabs, CreateAnswers(b) PROVE PlusInv'
  <2>1. /\ tab[b].pc = "create" /\ tab[b].token \notin flying
        /\ OpenSessions' = OpenSessions /\ UNCHANGED <<attempt, tokens, flying>>
    BY <1>6 DEF CreateAnswers, OpenSessions
  <2>2. /\ \A c \in Tabs \ {b} : tab'[c] = tab[c]
        /\ tab'[b].token = tab[b].token /\ tab'[b].pc = "complete"
    BY <1>6, TurnsTo DEF CreateAnswers
  <2> QED BY <2>1, <2>2, RowStays DEF Working
<1>7. ASSUME NEW b \in Tabs, NEW heard \in BOOLEAN, Keep(b, heard) PROVE PlusInv'
  <2>0. /\ tab[b].pc = "complete" /\ OpenSessions' = OpenSessions
        /\ UNCHANGED <<tokens, sessions, flying>>
    BY <1>7 DEF Keep, OpenSessions
  <2>1. Owns(b)
    BY <2>0 DEF PlusInv, WorkersOwn, OwnsOrCleans, Working
  <2>2. /\ \A c \in Tabs \ {b} : tab'[c] = tab[c]
        /\ tab'[b] = Away \/ (tab'[b].pc = "fail" /\ tab'[b].token = tab[b].token)
    <3>1. Leaves(b) \/ Turns(b, "fail")
      BY <1>7 DEF Keep
    <3> QED BY <3>1, TurnsTo, LeavesOthers
  <2>3. \/ attempt' = attempt
        \/ attempt' = Row("ready", tab[b].session, TRUE, TRUE)
    BY <1>7 DEF Keep
  <2>4. CASE attempt' = attempt
    BY <2>0, <2>2, <2>4, RowStays DEF Working, Away
  <2>5. CASE attempt' = Row("ready", tab[b].session, TRUE, TRUE)
    BY <2>0, <2>1, <2>2, <2>5, OwnerLetsGo DEF Row
  <2> QED BY <2>3, <2>4, <2>5
<1>8. ASSUME NEW b \in Tabs, GiveUp(b) PROVE PlusInv'
  <2>0. /\ tab[b].pc = "fail" /\ OpenSessions' = OpenSessions
        /\ UNCHANGED <<tokens, sessions, flying>>
    BY <1>8 DEF GiveUp, OpenSessions
  <2>1. (\A c \in Tabs \ {b} : tab'[c] = tab[c]) /\ tab'[b] = Away
    BY <1>8, LeavesOthers DEF GiveUp
  <2>2. CASE ~Creating(tab[b].token)
    <3>1. attempt' = attempt
      BY <1>8, <2>2 DEF GiveUp
    <3> QED BY <2>0, <2>1, <3>1, RowStays DEF Working, Away
  <2>3. CASE Creating(tab[b].token)
    <3>1. Owns(b)
      BY <2>0, <2>3 DEF PlusInv, WorkersOwn, OwnsOrCleans, Working
    <3>2. attempt' = NoAttempt \/ attempt' = Row("creating", attempt.session, FALSE, TRUE)
      BY <1>8, <2>3 DEF GiveUp
    <3> QED BY <2>0, <2>1, <3>1, <3>2, OwnerLetsGo DEF Row, NoAttempt
  <2> QED BY <2>2, <2>3
<1>9. ASSUME NEW b \in Tabs, TabCallFails(b) \/ TabDies(b) PROVE PlusInv'
  <2>0. OpenSessions' = OpenSessions /\ UNCHANGED <<attempt, tokens>>
    BY <1>9 DEF TabCallFails, TabDies, OpenSessions
  <2>1. flying' = flying \ {tab[b].token}
    BY <1>9 DEF TabCallFails, TabDies, Punctual
  <2>2. Leaves(b) \/ (Turns(b, "fail") /\ tab[b].pc \in Working)
    BY <1>9 DEF TabCallFails, TabDies, Working
  <2>3. /\ \A c \in Tabs \ {b} : tab'[c] = tab[c]
        /\ \/ tab'[b] = Away
           \/ tab'[b].pc = "fail" /\ tab'[b].token = tab[b].token /\ tab[b].pc \in Working
    BY <2>2, TurnsTo, LeavesOthers
  <2> QED BY <2>0, <2>1, <2>3, RowStays DEF Working, Away
<1>10. ASSUME NEW t \in Tokens, CreateLands(t) PROVE PlusInv'
  <2>1. OpenSessions' \subseteq OpenSessions \cup {t}
    BY <1>10 DEF CreateLands, OpenSessions, PlusTypeOK
  <2> QED BY <1>10, <2>1, CreateLandsAlone DEF CreateLands
<1>11. ASSUME NEW t \in Tokens, CustomerPays(t) \/ SessionExpires(t) \/ ForgetsKey(t) PROVE PlusInv'
  <2>1. OpenSessions' \subseteq OpenSessions
    BY <1>11 DEF CustomerPays, SessionExpires, ForgetsKey, OpenSessions, PlusTypeOK
  <2>2. attempt' = attempt \/ (attempt' = Lease(FALSE) /\ attempt.status = "ready")
    BY <1>11 DEF CustomerPays, SessionExpires, ForgetsKey
  <2>3. UNCHANGED <<tokens, tab, flying>>
    BY <1>11 DEF CustomerPays, SessionExpires, ForgetsKey
  <2> QED BY <2>1, <2>2, <2>3, TabsStay DEF Lease, Row, Owns, Leases, Creating
<1>12. CASE LeaseEnds
  <2>1. \A b \in Tabs : ~Owns(b)
    BY <1>12 DEF LeaseEnds, Punctual, Owns, Leases, Creating, Holders, Working
  <2>2. attempt' = Lease(FALSE) /\ OpenSessions' = OpenSessions
        /\ UNCHANGED <<tokens, tab, flying>>
    BY <1>12 DEF LeaseEnds, OpenSessions
  <2> QED BY <2>1, <2>2, TabsStay DEF Lease, Row
<1>13. CASE AttemptAges
  <2>1. \A b \in Tabs : ~Owns(b)
    BY <1>13 DEF AttemptAges, Owns, Leases
  <2>2. /\ attempt' = Row("creating", attempt.session, FALSE, FALSE) /\ attempt.status = "creating"
        /\ OpenSessions' = OpenSessions /\ UNCHANGED <<tokens, tab, flying>>
    BY <1>13 DEF AttemptAges, OpenSessions
  <2> QED BY <2>1, <2>2, TabsStay DEF Row
<1>14. CASE SubscriptionEnds \/ UNCHANGED plusVars
  <2>1. UNCHANGED <<tokens, tab, flying, attempt>> /\ OpenSessions' = OpenSessions
    BY <1>14 DEF SubscriptionEnds, plusVars, OpenSessions
  <2> QED BY <2>1, TabsStay
<1> QED
  BY <1>1, <1>2, <1>3, <1>4, <1>5, <1>6, <1>7, <1>8, <1>9, <1>10, <1>11, <1>12, <1>13,
     <1>14 DEF PlusNext

\* Before the first checkout there is no session.
LEMMA PlusBegins == PlusInit => PlusInv
BY PlusAssumption DEF PlusInit, PlusInv, TokensAreKnown, WorkersOwn, OneOwner, Owns, Working,
   CreatesAreAwaited, OwnersCreateAlone, OnePayableSession, OpenSessions, NoAttempt, Away

\* While no invocation outlives its lease and no create its caller, simultaneous tabs,
\* retries after a lost answer and returns on another day leave one payable session.
THEOREM OneSession == Punctual => (PlusSpec => []OnePayableSession)
<1> SUFFICES ASSUME Punctual PROVE PlusSpec => []OnePayableSession
  OBVIOUS
<1>1. PlusInit => PlusTypeOK /\ PlusInv
  BY PlusBegins, PlusTypeInit
<1>2. PlusTypeOK /\ PlusInv /\ [PlusNext]_plusVars => (PlusTypeOK /\ PlusInv)'
  BY PlusTypeStep, PlusStep
<1>3. PlusInv => OnePayableSession
  BY DEF PlusInv
<1> QED
  BY <1>1, <1>2, <1>3, PTL DEF PlusSpec
=============================================================================
