------------------------ MODULE RefundMessageOutbox ------------------------
(***************************************************************************)
(* The outbox of customer messages: one message per case, written by a     *)
(* person ("manual") or the notice of a finished refund, bound to the      *)
(* customer's conversation ("in_thread") or not ("automatic"), the drains  *)
(* that claim and deliver it, the two transports, and the delivery events  *)
(* of the transactional provider.                                          *)
(*                                                                         *)
(* Each SQL function is one transaction and one action; the steps of a     *)
(* drain between two of them are separate.  A claim token is the number of *)
(* the try, which nothing ever lowers.  A case has at most one active      *)
(* message (a unique index), so cases meet only inside a drain.            *)
(***************************************************************************)
EXTENDS Naturals, FiniteSets, FiniteSetsExt

CONSTANTS
    Cases,        \* refund cases, each with one message
    Workers,      \* drains that may overlap
    EventKinds,   \* ranks of the delivery events the provider may report
    MaxChanges,   \* bound: changes of cases and of the contact switch
    MaxFaults     \* bound: crashes, refusals, lost answers and failed calls

ASSUME OutboxAssumption ==
    EventKinds \subseteq 1..6 /\ MaxChanges \in Nat /\ MaxFaults \in Nat

VARIABLES
    kind,      \* delivery_kind of the message of each case
    msg,       \* refund_case_messages
    gmail,     \* status of the row of refund_gmail_messages with its operation key
    thread,    \* when a Gmail conversation was linked to the case
    version,   \* official_action_version of the case
    contact,   \* automatic customer contact, the setting and the environment
    events,    \* refund_transactional_delivery_events
    wk,        \* drains
    mails,     \* what the providers sent to the customer
    told,      \* cases that record the contact
    changes, faults

outboxVars == <<kind, msg, gmail, thread, version, contact, events, wk, mails, told,
                changes, faults>>

MaxTries == 3
Kinds == {"manual", "automatic", "in_thread"}
States == {"none", "queued", "claimed", "sent", "failed", "unknown"}
Ended == {"sent", "failed", "unknown"}
\* refund_transactional_delivery_state_rank: 1 accepted, 2 deferred, 3 delivered,
\* 4 failed, 5 bounced, 6 complained; 0 is no state, or unknown.
Ranks == 0..6
Message == [state : States, status : {"pending", "sent", "failed"}, token : 0..MaxTries,
            old : BOOLEAN, tries : 0..MaxTries, attempted : BOOLEAN,
            expects : 1..(MaxChanges + 1), resend : BOOLEAN, bound : BOOLEAN, rank : Ranks]
NoMessage == [state |-> "none", status |-> "pending", token |-> 0, old |-> FALSE,
              tries |-> 0, attempted |-> FALSE, expects |-> 1, resend |-> FALSE,
              bound |-> FALSE, rank |-> 0]
Idle == [pc |-> "idle", todo |-> {}, case |-> "none", token |-> 0, outcome |-> "failed"]

OutboxInit ==
    /\ kind \in [Cases -> Kinds]
    /\ msg = [c \in Cases |-> NoMessage]
    /\ gmail = [c \in Cases |-> "none"]
    /\ thread = [c \in Cases |-> "none"]
    /\ version = [c \in Cases |-> 1]
    /\ contact = TRUE
    /\ events = [c \in Cases |-> {}]
    /\ wk = [w \in Workers |-> Idle]
    /\ mails = [c \in Cases |-> [gmail |-> 0, resend |-> 0]]
    /\ told = {}
    /\ changes = 0 /\ faults = 0

Current(c) == msg[c].expects = version[c]
Automatic(c) == kind[c] # "manual"
Off(c) == Automatic(c) /\ ~contact
Own(w) == wk[w].case
HoldsClaim(w) ==
    LET m == msg[Own(w)]
    IN m.state = "claimed" /\ m.token = wk[w].token /\ m.status = "pending"
To(w, pc) == wk' = [wk EXCEPT ![w].pc = pc]
Gives(w, outcome) == wk' = [wk EXCEPT ![w].pc = "finish", ![w].outcome = outcome]
\* An error that leaves the delivery loop ends the drain and forgets its other claims.
Throws(w) == wk' = [wk EXCEPT ![w] = Idle]
NextClaim(w) ==
    wk' = [wk EXCEPT ![w] = IF wk[w].todo = {} THEN Idle
                            ELSE [Idle EXCEPT !.pc = "read", !.todo = wk[w].todo]]

----------------------------------------------------------------------------
(* What the database functions do with a row.                              *)

\* guard_refund_transactional_delivery_status
Guarded(was, m) ==
    IF was.resend /\ was.rank >= 4 /\ m.status = "sent" THEN [m EXCEPT !.status = "failed"] ELSE m

End(m, state) ==
    Guarded(m, [m EXCEPT !.state = state, !.token = 0, !.old = FALSE,
                         !.status = IF state = "sent" THEN "sent" ELSE "failed"])

Requeued(m) == [m EXCEPT !.state = "queued", !.token = 0, !.old = FALSE]
Abandoned(m) == m.state = "claimed" /\ m.old

\* Fault: the last event to arrive wins.
ApplyLast(m, known, new) ==
    IF m.resend /\ m.bound /\ known # {}
    THEN [m EXCEPT !.rank = new, !.status = IF new >= 4 THEN "failed" ELSE @]
    ELSE m
\* apply_refund_transactional_delivery_events: the highest rank ever reported.
Apply(m, known, new) ==
    IF m.resend /\ m.bound /\ known # {} /\ Max(known) >= m.rank
    THEN [m EXCEPT !.rank = Max(known), !.status = IF Max(known) >= 4 THEN "failed" ELSE @]
    ELSE m

Proof(c) == gmail[c] = "sent" \/ (msg[c].resend /\ msg[c].bound /\ msg[c].rank \in 1..3)

\* A notice that went to the provider and whose drain is gone is never sent again.
Recovers(c) == Automatic(c) /\ Abandoned(msg[c]) /\ msg[c].attempted
RecoversSent(c) == Recovers(c) /\ msg[c].status = "pending" /\ Proof(c)
\* Fault: an attempt is taken for a success.
ReviewBelieves(c) ==
    IF Recovers(c) THEN End(msg[c], "sent") ELSE msg[c]
Review(c) ==
    LET m == msg[c]
    IN CASE Recovers(c) -> End(m, IF RecoversSent(c) THEN "sent" ELSE "unknown")
         [] ~Recovers(c) /\ m.status = "pending" /\ ~Current(c)
              -> End(m, IF m.attempted THEN "unknown" ELSE "failed")
         [] ~Recovers(c) /\ m.status = "pending" /\ Current(c) /\ Abandoned(m)
              -> IF m.tries >= MaxTries THEN End(m, "failed") ELSE Requeued(m)
         [] OTHER -> m

\* Fault: claims that were abandoned are not looked for.
DueQueued(c) == msg[c].state = "queued"
Due(c) == \/ msg[c].state = "queued"
          \/ msg[c].state = "claimed" /\ (msg[c].old \/ ~Current(c))
Claimable(c) == Review(c).state = "queued" /\ Review(c).status = "pending"
\* Fault: one try too many.
OneMoreTry(m) == m.tries <= MaxTries
\* the check constraint on manual_delivery_attempt_count
MayTry(m) == m.tries < MaxTries
Claimed(m) == [m EXCEPT !.state = "claimed", !.token = m.tries + 1, !.tries = @ + 1]

----------------------------------------------------------------------------
(* People and the refund write messages.                                   *)

Enqueue(c) ==
    /\ msg[c].state = "none" /\ ~Off(c)
    /\ msg' = [msg EXCEPT ![c].state = "queued", ![c].expects = version[c]]
    /\ UNCHANGED <<kind, gmail, thread, version, contact, events, wk, mails, told, changes, faults>>

----------------------------------------------------------------------------
(* A drain.  It claims the messages of S, all of them or one by its id.  A *)
(* try beyond the third violates a check constraint, and the claim of all  *)
(* of them is undone.                                                      *)

Claim(w, S) ==
    LET due == {c \in S : Due(c)}
        taken == {c \in due : Claimable(c)}
    IN /\ wk[w].pc = "idle" /\ due # {}
       /\ \A c \in taken : MayTry(Review(c))
       /\ msg' = [c \in Cases |-> IF c \in taken THEN Claimed(Review(c))
                                  ELSE IF c \in due THEN Review(c) ELSE msg[c]]
       /\ told' = told \cup {c \in due : RecoversSent(c) /\ Current(c)}
       /\ wk' = IF taken = {} THEN wk
                ELSE [wk EXCEPT ![w].pc = "read",
                                ![w].todo = {<<c, Review(c).tries + 1>> : c \in taken}]
       /\ UNCHANGED <<kind, gmail, thread, version, contact, events, mails, changes, faults>>

\* The row and the case are read, and the gate of the environment.
Read(w) ==
    /\ wk[w].pc = "read"
    /\ \E ref \in wk[w].todo :
         LET c == ref[1]
             m == msg[c]
             mine == [wk[w] EXCEPT !.case = c, !.token = ref[2], !.todo = @ \ {ref}]
             Then(pc, outcome) == wk' = [wk EXCEPT ![w] =
                                            [mine EXCEPT !.pc = pc, !.outcome = outcome]]
         IN \/ /\ m.state = "claimed" /\ m.token = ref[2] /\ m.status = "pending"
               /\ \/ ~Current(c) /\ Then("finish", "failed")
                  \/ /\ Current(c) /\ Automatic(c) /\ m.resend
                     /\ Then("mark_again", IF m.bound THEN "sent" ELSE "unknown")
                  \/ /\ Current(c) /\ ~(Automatic(c) /\ m.resend)
                     /\ Then(IF Off(c) /\ ~m.attempted THEN "defer" ELSE "mark", "failed")
            \/ /\ ~(m.state = "claimed" /\ m.token = ref[2] /\ m.status = "pending")
               /\ Throws(w)
    /\ UNCHANGED <<kind, msg, gmail, thread, version, contact, events, mails, told, changes, faults>>

\* Fault: the token is not compared.
MayMarkAny(w) == LET m == msg[Own(w)] IN m.state = "claimed" /\ m.status = "pending"
MayMark(w) == HoldsClaim(w) /\ Current(Own(w))

\* service_mark_refund_manual_message_provider_attempt; "mark_again" is the mark
\* of a row whose outcome its evidence already decides.
Mark(w) ==
    LET c == Own(w)
    IN /\ wk[w].pc \in {"mark", "mark_again"}
       /\ \/ ~MayMark(w) /\ Gives(w, "failed") /\ UNCHANGED msg
          \/ MayMark(w) /\ ~msg[c].attempted /\ Off(c) /\ To(w, "defer") /\ UNCHANGED msg
          \/ /\ MayMark(w) /\ (msg[c].attempted \/ ~Off(c))
             /\ msg' = [msg EXCEPT ![c].attempted = TRUE]
             /\ To(w, IF wk[w].pc = "mark" THEN "dispatch" ELSE "finish")
       /\ UNCHANGED <<kind, gmail, thread, version, contact, events, mails, told, changes, faults>>

\* dispatchRefundCaseGmailReply chooses the transport, and claims the Gmail row
\* (service_claim_refund_gmail_outbound_v3).
UsesGmail(c) == kind[c] = "in_thread" \/ (kind[c] = "manual" /\ thread[c] # "none")
\* Fault: a row that was claimed before does not stop a second send.
GmailRowIsNew(c) == gmail[c] # "sent"
GmailIsFree(c) == gmail[c] = "none"
Dispatch(w) ==
    LET c == Own(w)
    IN /\ wk[w].pc = "dispatch"
       /\ \/ /\ ~UsesGmail(c)
             /\ To(w, IF Off(c) THEN "defer" ELSE "resend_mark") /\ UNCHANGED <<msg, gmail>>
          \/ /\ UsesGmail(c) /\ GmailIsFree(c)
             /\ \/ /\ msg[c].status = "pending" /\ ~Off(c)
                   /\ gmail' = [gmail EXCEPT ![c] = "pending"] /\ To(w, "gmail")
                \/ msg[c].status = "pending" /\ Off(c) /\ To(w, "defer") /\ UNCHANGED gmail
                \/ msg[c].status # "pending" /\ Gives(w, "failed") /\ UNCHANGED gmail
             /\ UNCHANGED msg
          \/ /\ UsesGmail(c) /\ ~GmailIsFree(c) /\ gmail[c] = "sent"
             /\ msg' = [msg EXCEPT ![c] = IF @.status = "pending"
                                          THEN Guarded(@, [@ EXCEPT !.status = "sent"]) ELSE @]
             /\ Gives(w, "sent") /\ UNCHANGED gmail
          \/ /\ UsesGmail(c) /\ ~GmailIsFree(c) /\ gmail[c] # "sent"
             /\ Gives(w, IF gmail[c] = "failed" THEN "failed" ELSE "unknown")
             /\ UNCHANGED <<msg, gmail>>
       /\ UNCHANGED <<kind, thread, version, contact, events, mails, told, changes, faults>>

\* The environment is checked again: the claimed row is removed and its message
\* deferred, whoever's claim it has now.
GmailGate(w) ==
    LET c == Own(w)
    IN /\ wk[w].pc = "gmail" /\ Off(c)
       /\ \/ /\ msg[c].status = "pending" /\ msg[c].state = "claimed"
             /\ gmail' = [gmail EXCEPT ![c] = "none"]
             /\ msg' = [msg EXCEPT ![c] = [Requeued(@) EXCEPT !.attempted = FALSE]]
          \/ /\ ~(msg[c].status = "pending" /\ msg[c].state = "claimed")
             /\ gmail' = [gmail EXCEPT ![c] = "failed"] /\ UNCHANGED msg
       /\ To(w, "defer")
       /\ UNCHANGED <<kind, thread, version, contact, events, mails, told, changes, faults>>

\* Gmail sends and answers; or refuses; or nobody learns whether it sent.
GmailSend(w, handled, answer) ==
    /\ wk[w].pc = "gmail"
    /\ (answer = "sent") => handled
    /\ (answer = "failed") => ~handled
    /\ faults' = IF answer = "sent" THEN faults ELSE faults + 1
    /\ faults' <= MaxFaults
    /\ mails' = IF handled THEN [mails EXCEPT ![Own(w)].gmail = @ + 1] ELSE mails
    /\ wk' = [wk EXCEPT ![w].pc = "gmail_record", ![w].outcome = answer]
    /\ UNCHANGED <<kind, msg, gmail, thread, version, contact, events, told, changes>>

\* service_finish_refund_gmail_outbound
GmailRecord(w) ==
    /\ wk[w].pc = "gmail_record"
    /\ gmail' = [gmail EXCEPT ![Own(w)] = wk[w].outcome]
    /\ To(w, "finish")
    /\ UNCHANGED <<kind, msg, thread, version, contact, events, mails, told, changes, faults>>

\* service_mark_refund_transactional_delivery_attempt
MayUseResend(c) ==
    /\ msg[c].status \in {"pending", "failed"} /\ gmail[c] = "none"
    /\ Automatic(c) => Current(c)
ResendMark(w) ==
    LET c == Own(w)
    IN /\ wk[w].pc = "resend_mark"
       /\ \/ ~MayUseResend(c) /\ Gives(w, "failed") /\ UNCHANGED msg
          \/ MayUseResend(c) /\ Off(c) /\ To(w, "defer") /\ UNCHANGED msg
          \/ /\ MayUseResend(c) /\ ~Off(c)
             /\ msg' = [msg EXCEPT ![c].resend = TRUE, ![c].rank = 0]
             /\ To(w, "resend")
       /\ UNCHANGED <<kind, gmail, thread, version, contact, events, mails, told, changes, faults>>

\* The provider sends a message once for its idempotency key, which is the id.
ResendSend(w, handled, answer) ==
    /\ wk[w].pc = "resend"
    /\ (answer = "sent") => handled
    /\ (answer = "failed") => ~handled
    /\ faults' = IF answer = "sent" THEN faults ELSE faults + 1
    /\ faults' <= MaxFaults
    /\ mails' = IF handled THEN [mails EXCEPT ![Own(w)].resend = 1] ELSE mails
    /\ IF answer = "sent" THEN To(w, "bind") ELSE Gives(w, answer)
    /\ UNCHANGED <<kind, msg, gmail, thread, version, contact, events, told, changes>>

\* service_bind_refund_transactional_delivery, with the trigger that applies events
Bound(c) ==
    Apply([msg[c] EXCEPT !.resend = TRUE, !.bound = TRUE, !.rank = IF @ > 1 THEN @ ELSE 1],
          events[c], 1)
Bind(w) ==
    LET c == Own(w)
    IN /\ wk[w].pc = "bind"
       /\ \/ gmail[c] # "none" /\ Gives(w, "unknown") /\ UNCHANGED msg
          \/ /\ gmail[c] = "none"
             /\ msg' = [msg EXCEPT ![c] = Bound(c)]
             /\ Gives(w, "sent")
       /\ UNCHANGED <<kind, gmail, thread, version, contact, events, mails, told, changes, faults>>

MayFinish(w) == HoldsClaim(w)
\* service_finish_refund_manual_message_delivery
Finish(w) ==
    LET c == Own(w)
        m == msg[c]
    IN /\ wk[w].pc = "finish"
       /\ \/ m.state = "sent" /\ m.status = "sent" /\ NextClaim(w) /\ UNCHANGED <<msg, told>>
          \/ /\ ~(m.state = "sent" /\ m.status = "sent") /\ MayFinish(w)
             /\ msg' = [msg EXCEPT ![c] = End(@, wk[w].outcome)]
             /\ told' = IF wk[w].outcome = "sent" /\ Current(c) THEN told \cup {c} ELSE told
             /\ NextClaim(w)
          \/ /\ ~(m.state = "sent" /\ m.status = "sent") /\ ~MayFinish(w)
             /\ Throws(w) /\ UNCHANGED <<msg, told>>
       /\ UNCHANGED <<kind, gmail, thread, version, contact, events, mails, changes, faults>>

MayDefer(w) == HoldsClaim(w) /\ ~msg[Own(w)].resend /\ gmail[Own(w)] = "none"
\* service_defer_refund_automatic_completion_delivery
Defer(w) ==
    LET c == Own(w)
        m == msg[c]
        waiting == m.state = "queued" /\ ~m.attempted /\ ~m.resend /\ gmail[c] = "none"
    IN /\ wk[w].pc = "defer"
       /\ \/ waiting /\ NextClaim(w) /\ UNCHANGED msg
          \/ /\ ~waiting /\ MayDefer(w)
             /\ msg' = [msg EXCEPT ![c] = [Requeued(@) EXCEPT !.attempted = FALSE]]
             /\ NextClaim(w)
          \/ ~waiting /\ ~MayDefer(w) /\ Throws(w) /\ UNCHANGED msg
       /\ UNCHANGED <<kind, gmail, thread, version, contact, events, mails, told, changes, faults>>

\* A call is done and its answer is lost; the loop calls it failed.
AnswerIsLost(w) ==
    LET c == Own(w)
    IN /\ faults < MaxFaults /\ faults' = faults + 1
       /\ \/ /\ wk[w].pc = "mark" /\ MayMark(w) /\ (msg[c].attempted \/ ~Off(c))
             /\ msg' = [msg EXCEPT ![c].attempted = TRUE]
             /\ Gives(w, "failed") /\ UNCHANGED gmail
          \/ /\ wk[w].pc = "dispatch" /\ UsesGmail(c) /\ GmailIsFree(c)
             /\ msg[c].status = "pending" /\ ~Off(c)
             /\ gmail' = [gmail EXCEPT ![c] = "pending"]
             /\ Gives(w, "failed") /\ UNCHANGED msg
          \/ /\ wk[w].pc = "bind" /\ gmail[c] = "none"
             /\ msg' = [msg EXCEPT ![c] = Bound(c)]
             /\ Gives(w, "unknown") /\ UNCHANGED gmail
       /\ UNCHANGED <<kind, thread, version, contact, events, mails, told, changes>>

\* A call to the database fails: what was accepted becomes unknown, and a result
\* that cannot be recorded leaves the claim to grow old.
CallFails(w) ==
    /\ faults < MaxFaults /\ faults' = faults + 1
    /\ \/ wk[w].pc \in {"mark", "mark_again", "dispatch", "resend_mark"} /\ Gives(w, "failed")
       \/ wk[w].pc = "gmail_record" /\ wk[w].outcome = "sent"
          /\ wk' = [wk EXCEPT ![w].outcome = "unknown"]
       \/ wk[w].pc = "bind" /\ Gives(w, "unknown")
       \/ wk[w].pc = "finish" /\ wk[w].outcome = "sent" /\ Gives(w, "unknown")
       \/ (wk[w].pc \in {"read", "defer"} \/ (wk[w].pc = "finish" /\ wk[w].outcome # "sent"))
          /\ Throws(w)
    /\ UNCHANGED <<kind, msg, gmail, thread, version, contact, events, mails, told, changes>>

Crash(w) ==
    /\ wk[w].pc # "idle" /\ faults < MaxFaults /\ faults' = faults + 1
    /\ Throws(w)
    /\ UNCHANGED <<kind, msg, gmail, thread, version, contact, events, mails, told, changes>>

----------------------------------------------------------------------------
(* The rest of the world.                                                  *)

\* service_record_refund_transactional_delivery_event: any order, before or after Bind.
DeliveryEvent(c, k) ==
    /\ mails[c].resend = 1 /\ k \in EventKinds \ events[c]
    /\ events' = [events EXCEPT ![c] = @ \cup {k}]
    /\ msg' = [msg EXCEPT ![c] = Apply(@, events[c] \cup {k}, k)]
    /\ UNCHANGED <<kind, gmail, thread, version, contact, wk, mails, told, changes, faults>>

\* Ten minutes pass since the claim.
GrowsOld(c) ==
    /\ msg[c].state = "claimed" /\ ~msg[c].old
    /\ msg' = [msg EXCEPT ![c].old = TRUE]
    /\ UNCHANGED <<kind, gmail, thread, version, contact, events, wk, mails, told, changes, faults>>

CaseChanges(c) ==
    /\ changes < MaxChanges /\ changes' = changes + 1
    /\ version' = [version EXCEPT ![c] = @ + 1]
    /\ UNCHANGED <<kind, msg, gmail, thread, contact, events, wk, mails, told, faults>>

SwitchContact ==
    /\ changes < MaxChanges /\ changes' = changes + 1
    /\ contact' = ~contact
    /\ UNCHANGED <<kind, msg, gmail, thread, version, events, wk, mails, told, faults>>

\* The customer writes, and the conversation is linked to the case.
LinkThread(c) ==
    /\ kind[c] = "manual" /\ thread[c] = "none"
    /\ thread' = [thread EXCEPT ![c] = IF msg[c].tries = 0 THEN "early" ELSE "late"]
    /\ UNCHANGED <<kind, msg, gmail, version, contact, events, wk, mails, told, changes, faults>>

Sweep(w) == Claim(w, Cases)
WorkerStep(w) ==
    \/ Read(w) \/ Mark(w) \/ Dispatch(w) \/ GmailGate(w) \/ GmailRecord(w) \/ ResendMark(w) \/ Bind(w)
    \/ Finish(w) \/ Defer(w)
    \/ \E handled \in BOOLEAN, a \in {"sent", "failed", "unknown"} :
         GmailSend(w, handled, a) \/ ResendSend(w, handled, a)

OutboxNext ==
    \/ \E w \in Workers : WorkerStep(w) \/ AnswerIsLost(w) \/ CallFails(w) \/ Crash(w) \/ Sweep(w)
    \/ \E w \in Workers, c \in Cases : Claim(w, {c})
    \/ \E c \in Cases : Enqueue(c) \/ GrowsOld(c) \/ CaseChanges(c) \/ LinkThread(c)
    \/ \E c \in Cases, k \in EventKinds : DeliveryEvent(c, k)
    \/ SwitchContact

OutboxSpec == OutboxInit /\ [][OutboxNext]_outboxVars
\* The sweep is scheduled, a running drain goes on, and time passes.
OutboxFairness ==
    /\ \A w \in Workers : WF_outboxVars(WorkerStep(w)) /\ WF_outboxVars(Sweep(w))
    /\ \A c \in Cases : WF_outboxVars(GrowsOld(c))
FairOutboxSpec == OutboxSpec /\ OutboxFairness

----------------------------------------------------------------------------
(* Properties.                                                             *)

\* The columns and the drains keep their types; tries stay within their check constraint.
OutboxTypeOK ==
    /\ kind \in [Cases -> Kinds]
    /\ msg \in [Cases -> Message]
    /\ gmail \in [Cases -> {"none", "pending", "sent", "failed", "unknown"}]
    /\ thread \in [Cases -> {"none", "early", "late"}]
    /\ version \in [Cases -> 1..(MaxChanges + 1)] /\ contact \in BOOLEAN
    /\ events \in [Cases -> SUBSET EventKinds]
    /\ \A w \in Workers : wk[w].outcome \in Ended /\ wk[w].token \in 0..MaxTries
    /\ \A c \in Cases : mails[c].gmail \in Nat /\ mails[c].resend \in 0..1
    /\ told \subseteq Cases
    /\ changes \in 0..MaxChanges /\ faults \in 0..MaxFaults

\* The customer gets a message once, however often it is claimed, with drains
\* that overlap, die or lose answers; but a conversation that is linked after
\* the first try gives the second try another transport.
OneMail ==
    \A c \in Cases :
        /\ mails[c].gmail <= 1
        /\ thread[c] # "late" => mails[c].gmail + mails[c].resend <= 1

\* A message that records no provider attempt was never sent, so that cancelling
\* it or queueing it again is safe.
UnattemptedIsUnsent ==
    \A c \in Cases : ~msg[c].attempted => mails[c].gmail + mails[c].resend = 0

\* A message that counts as sent, and a case that records the contact, reached
\* a provider.
SentWasSent ==
    \A c \in Cases : (msg[c].state = "sent" \/ c \in told) =>
        mails[c].gmail + mails[c].resend > 0

\* Whatever the order of the events and of the binding, the delivery state is the
\* worst that was reported, and a message that bounced is not a success.
EventsDecide ==
    \A c \in Cases : LET m == msg[c] IN
        /\ m.bound /\ m.rank # 0 => m.rank = Max(events[c] \cup {1})
        /\ m.rank >= 4 => m.status = "failed"

\* A queued message is sent, failed or handed to people while automatic contact
\* stays on; or its row is claimed for good because its status was written by
\* another function than the one that settles claims.
Stuck(c) == msg[c].state = "claimed" /\ msg[c].status # "pending"
MessagesEnd ==
    []contact => \A c \in Cases : msg[c].state = "queued" ~> (msg[c].state \in Ended \/ Stuck(c))

\* A paused automatic notice does not keep the message of a person from going out.
PausedLaneBlocksNobody ==
    \A c \in Cases : kind[c] = "manual" /\ msg[c].state = "queued" ~> msg[c].state # "queued"
=============================================================================
