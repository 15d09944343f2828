---------------------------- MODULE ResourceQuota ----------------------------
(***************************************************************************)
(* The quota of a user for a platform resource                             *)
(* (src/src/quotas/quotas.service.ts, the platform branch of               *)
(* toolbox/plugins/builtin/abstract-resource-tool.ts, server.llm.driver.ts *)
(* and users/listeners/user-created.listener.ts).                          *)
(*                                                                         *)
(* A chat reads the quota row (and renews it if its period is over),       *)
(* refuses with 402 or calls the bot with the tokens it saw, and writes    *)
(* back, without waiting, the tokens the bot says remain.  The read, the   *)
(* renewal and the write are separate statements of the database, and the  *)
(* bot takes its time between them.                                        *)
(***************************************************************************)
EXTENDS Integers, FiniteSets

CONSTANTS
    Request,      \* chats of one user that reach the resource
    Costs,        \* tokens a call may use
    Allowance,    \* tokens of a period, the second item of the `reset` rule
    MaxClock,     \* bound on the periods that pass
    MaxInFlight   \* how many requests the user has in flight, their writes included

ASSUME QuotaAssumption ==
    /\ Costs \subseteq Nat
    /\ Allowance \in Nat \ {0}
    /\ MaxClock \in Nat
    /\ MaxInFlight \in Nat \ {0}

VARIABLES
    clock,      \* the current period
    user,       \* announced: UserCreatedEvent is under way
    rule,       \* the quota row: none, fixed (without a `reset` rule) or renewed
    quota,      \* its quota
    validTo,    \* its invalidAt, as the last period it is good for
    pc,         \* a request: idle, read, reset, drive, write, done, refused
    for,        \* what it reads the quota for: to filter the configs, or to load it
    seen,       \* quota.quota as loaded, later the tokens the bot says remain
    period,     \* the period of the quota it renews or has seen
    spent,      \* history: tokens used on the quota of a period
    total,      \* history: tokens used in all
    overlapped  \* history: a request began while another was in flight

vars == <<clock, user, rule, quota, validTo, pc, for, seen, period, spent, total, overlapped>>
row == <<rule, quota, validTo>>

TypeOK ==
    /\ clock \in 0..MaxClock
    /\ user \in {"announced", "handled"}
    /\ rule \in {"none", "fixed", "renewed"}
    /\ quota \in Int
    /\ validTo \in 0..MaxClock
    /\ pc \in [Request -> {"idle", "read", "reset", "drive", "write", "done", "refused"}]
    /\ for \in [Request -> {"filter", "load"}]
    /\ seen \in [Request -> Int]
    /\ period \in [Request -> 0..MaxClock]
    /\ spent \in [0..MaxClock -> Nat]
    /\ total \in Nat
    /\ overlapped \in BOOLEAN

\* A user whose row exists (put there by hand, as the tests do), or one just registered.
Init ==
    /\ clock = 0
    /\ user \in {"announced", "handled"}
    /\ rule \in IF user = "handled" THEN {"fixed", "renewed"} ELSE {"none"}
    /\ quota = IF rule = "none" THEN 0 ELSE Allowance
    /\ validTo = 0
    /\ pc = [r \in Request |-> "idle"]
    /\ for = [r \in Request |-> "load"]
    /\ seen = [r \in Request |-> 0]
    /\ period = [r \in Request |-> 0]
    /\ spent = [p \in 0..MaxClock |-> 0]
    /\ total = 0
    /\ overlapped = FALSE

-----------------------------------------------------------------------------
Granted == rule # "none"

InFlight == {r \in Request : pc[r] \notin {"idle", "done", "refused"}}

\* The resource is bound to the actor already, or chosen among the user's configs.
Ask(r, bound) ==
    /\ pc[r] = "idle"
    /\ Cardinality(InFlight) < MaxInFlight
    /\ pc' = [pc EXCEPT ![r] = "read"]
    /\ for' = [for EXCEPT ![r] = IF bound THEN "load" ELSE "filter"]
    /\ overlapped' = (overlapped \/ InFlight # {})
    /\ UNCHANGED <<clock, user, row, seen, period, spent, total>>

Spent(q) == q <= 0
Expired(v) == v < clock

\* What follows $getQuota: the config is usable and its quota is loaded, the bot is
\* called, or the chat is refused (400 without a config, 402 without quota).
Got(r, q, v) ==
    /\ pc' = [pc EXCEPT ![r] =
                IF for[r] = "filter"
                THEN IF Spent(q) /\ Expired(v) THEN "refused" ELSE "read"
                ELSE IF Spent(q) \/ Expired(v) THEN "refused" ELSE "drive"]
    /\ for' = [for EXCEPT ![r] = "load"]
    /\ seen' = [seen EXCEPT ![r] = q]
    /\ period' = [period EXCEPT ![r] = v]

\* $getQuota finds no row: nothing limits the chat, and nothing will be written.
ReadNothing(r) ==
    /\ pc[r] = "read" /\ ~Granted
    /\ pc' = [pc EXCEPT ![r] = IF for[r] = "filter" THEN "read" ELSE "done"]
    /\ for' = [for EXCEPT ![r] = "load"]
    /\ UNCHANGED <<clock, user, row, seen, period, spent, total, overlapped>>

ReadQuota(r) ==
    /\ pc[r] = "read" /\ Granted
    /\ ~(Expired(validTo) /\ rule = "renewed")
    /\ Got(r, quota, validTo)
    /\ UNCHANGED <<clock, user, row, spent, total, overlapped>>

\* Faulty variant: the loop over the periods goes round once too often.
RenewedTooFar == clock + 1

\* The end of the period that is running: invalidAt += period until it is not past.
Renewed == clock

\* The period of the row is over: its end is moved past now, in memory first.
ReadExpired(r) ==
    /\ pc[r] = "read" /\ Granted
    /\ Expired(validTo) /\ rule = "renewed"
    /\ pc' = [pc EXCEPT ![r] = "reset"]
    /\ period' = [period EXCEPT ![r] = Renewed]
    /\ UNCHANGED <<clock, user, row, for, seen, spent, total, overlapped>>

\* Faulty variant: the renewal moves the end of the period only.
ResetKeepsQuota(r) ==
    /\ pc[r] = "reset"
    /\ validTo' = period[r]
    /\ Got(r, Allowance, period[r])
    /\ UNCHANGED <<clock, user, rule, quota, spent, total, overlapped>>

\* The update that renews the row, by its id alone.
Reset(r) ==
    /\ pc[r] = "reset"
    /\ quota' = Allowance
    /\ validTo' = period[r]
    /\ Got(r, Allowance, period[r])
    /\ UNCHANGED <<clock, user, rule, spent, total, overlapped>>

\* The bot keeps within the tokens it is given, and says how many are left of them.
Answer(r, cost) ==
    /\ pc[r] = "drive"
    /\ cost <= seen[r]
    /\ seen' = [seen EXCEPT ![r] = @ - cost]
    /\ spent' = [spent EXCEPT ![period[r]] = @ + cost]
    /\ total' = total + cost
    /\ pc' = [pc EXCEPT ![r] = IF cost = 0 THEN "done" ELSE "write"]
    /\ UNCHANGED <<clock, user, row, for, period, overlapped>>

\* No bot, no session, or no usage report: no update, or one that sets nothing.
NoUsage(r) ==
    /\ pc[r] = "drive"
    /\ pc' = [pc EXCEPT ![r] = "done"]
    /\ UNCHANGED <<clock, user, row, for, seen, period, spent, total, overlapped>>

\* Faulty variant: what was used before is charged again.
WriteDecrements(r) ==
    /\ pc[r] = "write"
    /\ quota' = quota - (Allowance - seen[r])
    /\ pc' = [pc EXCEPT ![r] = "done"]
    /\ UNCHANGED <<clock, user, rule, validTo, for, seen, period, spent, total, overlapped>>

\* $updateQuota, some time after the chat was answered.
Write(r) ==
    /\ pc[r] = "write"
    /\ quota' = seen[r]
    /\ pc' = [pc EXCEPT ![r] = "done"]
    /\ UNCHANGED <<clock, user, rule, validTo, for, seen, period, spent, total, overlapped>>

-----------------------------------------------------------------------------
\* The platform's configuration of the resource, and a field of a parsed JSON object.
Configured == [quota |-> Allowance]
Undefined == "undefined"
JsonField(json, k) == IF k \in DOMAIN json THEN json[k] ELSE Undefined

\* createQuota for a user of another realm, with `quota: json[1]`: the database takes a
\* number only, and the rejected promise is dropped.
UserCreated ==
    /\ user = "announced"
    /\ user' = "handled"
    /\ LET q == JsonField(Configured, "1")
       IN  IF q = Undefined
           THEN UNCHANGED row
           ELSE rule' = "renewed" /\ quota' = q /\ validTo' = clock
    /\ UNCHANGED <<clock, pc, for, seen, period, spent, total, overlapped>>

Tick ==
    /\ clock < MaxClock
    /\ clock' = clock + 1
    /\ UNCHANGED <<user, row, pc, for, seen, period, spent, total, overlapped>>

Next ==
    \/ \E r \in Request :
          \/ \E bound \in BOOLEAN : Ask(r, bound)
          \/ ReadNothing(r) \/ ReadQuota(r) \/ ReadExpired(r) \/ Reset(r)
          \/ \E cost \in Costs : Answer(r, cost)
          \/ NoUsage(r) \/ Write(r)
    \/ UserCreated
    \/ Tick

Spec == Init /\ [][Next]_vars

-----------------------------------------------------------------------------
(***************************************************************************)
(* Properties                                                              *)
(***************************************************************************)

\* Whatever overlaps, and whichever write comes last, the row never charges for more
\* tokens than all the user's calls have used: updates may be lost, never invented.
NeverOvercharged == Granted => quota >= Allowance - total

\* "Currently, we offer 3k ChatGPT tokens to test for free each day.", "reset quota if
\* necessary": for a user who waits until each call is written the row holds, between
\* calls, exactly what is left of its period's tokens, and no period's are spent more than
\* once.  (Of calls that overlap, one may take back what another charged, and the second
\* of two renewals what the first has used.)
Accounted ==
    ~overlapped =>
        /\ Granted /\ InFlight = {} => quota = Allowance - spent[validTo]
        /\ \A p \in 0..MaxClock : spent[p] <= Allowance
=============================================================================
