------------------------- MODULE ResourceQuotaProofs -------------------------
(***************************************************************************)
(* Proofs about ResourceQuota for every set of requests and costs, every   *)
(* allowance and any number of periods.                                    *)
(***************************************************************************)
EXTENDS ResourceQuota, TLAPS

\* Without `reset` rules a period is given no second row: the configuration has no field 1.
LEMMA NothingGranted == UserCreated => UNCHANGED row
<1>1. JsonField(Configured, "1") = Undefined
  BY DEF JsonField, Configured, Undefined
<1> QED
  BY <1>1 DEF UserCreated

\* How a step that looks at a quota leaves the request.
LEMMA GotTyped ==
  ASSUME TypeOK, NEW r \in Request, NEW q \in Int, NEW v \in 0..MaxClock, Got(r, q, v)
  PROVE  /\ pc' \in [Request -> {"idle", "read", "reset", "drive", "write", "done", "refused"}]
         /\ for' \in [Request -> {"filter", "load"}]
         /\ seen' \in [Request -> Int]
         /\ period' \in [Request -> 0..MaxClock]
BY DEF Got, TypeOK

-----------------------------------------------------------------------------
(* Type correctness. *)

LEMMA InitTypeOK == Init => TypeOK
<1> SUFFICES ASSUME Init PROVE TypeOK
  OBVIOUS
<1>1. rule \in {"none", "fixed", "renewed"} /\ quota \in Int
  BY QuotaAssumption DEF Init
<1>2. /\ pc \in [Request -> {"idle", "read", "reset", "drive", "write", "done", "refused"}]
      /\ for \in [Request -> {"filter", "load"}]
      /\ seen \in [Request -> Int]
  BY DEF Init
<1>3. clock \in 0..MaxClock /\ validTo \in 0..MaxClock
  BY QuotaAssumption DEF Init
<1>4. period \in [Request -> 0..MaxClock] /\ spent \in [0..MaxClock -> Nat]
  BY <1>3 DEF Init
<1> QED
  BY <1>1, <1>2, <1>3, <1>4, Zenon DEF Init, TypeOK

LEMMA StepTypeOK == TypeOK /\ [Next]_vars => TypeOK'
<1> SUFFICES ASSUME TypeOK, [Next]_vars PROVE TypeOK'
  OBVIOUS
<1> USE QuotaAssumption DEF row
<1>1. ASSUME NEW r \in Request, NEW bound \in BOOLEAN, Ask(r, bound) PROVE TypeOK'
  BY <1>1 DEF Ask, TypeOK
<1>2. ASSUME NEW r \in Request, ReadNothing(r) PROVE TypeOK'
  BY <1>2 DEF ReadNothing, TypeOK
<1>3. ASSUME NEW r \in Request, ReadQuota(r) PROVE TypeOK'
  BY <1>3, GotTyped DEF ReadQuota, TypeOK
<1>4. ASSUME NEW r \in Request, ReadExpired(r) PROVE TypeOK'
  BY <1>4 DEF ReadExpired, Renewed, TypeOK
<1>5. ASSUME NEW r \in Request, Reset(r) PROVE TypeOK'
  <2>1. period[r] \in 0..MaxClock /\ Allowance \in Int
    BY DEF TypeOK
  <2> QED
    BY <1>5, <2>1, GotTyped DEF Reset, TypeOK
<1>6. ASSUME NEW r \in Request, NEW cost \in Costs, Answer(r, cost) PROVE TypeOK'
  <2>1. cost \in Nat
    OBVIOUS
  <2>2. spent' \in [0..MaxClock -> Nat] /\ seen' \in [Request -> Int] /\ total' \in Nat
    BY <1>6, <2>1 DEF Answer, TypeOK
  <2> QED
    BY <1>6, <2>2 DEF Answer, TypeOK
<1>7. ASSUME NEW r \in Request, NoUsage(r) PROVE TypeOK'
  BY <1>7 DEF NoUsage, TypeOK
<1>8. ASSUME NEW r \in Request, Write(r) PROVE TypeOK'
  BY <1>8 DEF Write, TypeOK
<1>9. CASE UserCreated
  BY <1>9, NothingGranted DEF UserCreated, TypeOK
<1>10. CASE Tick
  BY <1>10 DEF Tick, TypeOK
<1>11. CASE UNCHANGED vars
  BY <1>11 DEF vars, TypeOK
<1> QED
  BY <1>1, <1>2, <1>3, <1>4, <1>5, <1>6, <1>7, <1>8, <1>9, <1>10, <1>11 DEF Next

(* quotas.service.ts, abstract-resource-tool.ts: every state has its types. *)
THEOREM TypeCorrect == Spec => []TypeOK
<1> QED
  BY InitTypeOK, StepTypeOK, PTL DEF Spec

-----------------------------------------------------------------------------
(***************************************************************************)
(* What a call has seen.  A request past its read (Charging) works on a    *)
(* row that is there.  The tokens it holds may be long out of date, but    *)
(* they were the row's once, which never charged more than was used then;  *)
(* since then the total has only grown.                                    *)
(***************************************************************************)
Charging(r) == pc[r] \in {"reset", "drive", "write"}

SeenIsFair ==
    \A r \in Request : /\ Charging(r) => Granted
                       /\ pc[r] \in {"drive", "write"} => seen[r] >= Allowance - total

CInv == TypeOK /\ SeenIsFair /\ NeverOvercharged

LEMMA InitCInv == Init => CInv
<1> SUFFICES ASSUME Init PROVE CInv
  OBVIOUS
<1> QED
  BY InitTypeOK, QuotaAssumption
     DEF Init, CInv, SeenIsFair, Charging, NeverOvercharged, Granted

\* Looking at a fair quota: what is kept of it is fair.
LEMMA GotFair ==
  ASSUME CInv, NEW r \in Request, NEW q \in Int, NEW v \in 0..MaxClock, Got(r, q, v),
         q >= Allowance - total, Granted, total' = total, rule' = rule
  PROVE  SeenIsFair'
<1>1. \A s \in Request \ {r} : pc'[s] = pc[s] /\ seen'[s] = seen[s]
  BY DEF Got, CInv, TypeOK
<1>2. pc'[r] \in {"read", "refused", "drive"} /\ seen'[r] = q
  BY DEF Got, CInv, TypeOK
<1> QED
  BY <1>1, <1>2 DEF CInv, SeenIsFair, Charging, Granted

LEMMA StepCInv == CInv /\ [Next]_vars => CInv'
<1> SUFFICES ASSUME CInv, [Next]_vars PROVE CInv'
  OBVIOUS
<1> USE QuotaAssumption DEF row, Granted
<1>1. TypeOK /\ TypeOK'
  BY StepTypeOK DEF CInv
<1>2. ASSUME NEW r \in Request, NEW bound \in BOOLEAN, Ask(r, bound) PROVE CInv'
  BY <1>1, <1>2 DEF Ask, CInv, SeenIsFair, Charging, NeverOvercharged, TypeOK
<1>3. ASSUME NEW r \in Request, ReadNothing(r) PROVE CInv'
  BY <1>1, <1>3 DEF ReadNothing, CInv, SeenIsFair, Charging, NeverOvercharged, TypeOK
<1>4. ASSUME NEW r \in Request, ReadQuota(r) PROVE CInv'
  <2>1. SeenIsFair'
    BY <1>1, <1>4, GotFair DEF ReadQuota, CInv, NeverOvercharged, TypeOK
  <2> QED
    BY <1>1, <1>4, <2>1 DEF ReadQuota, CInv, NeverOvercharged
<1>5. ASSUME NEW r \in Request, ReadExpired(r) PROVE CInv'
  BY <1>1, <1>5 DEF ReadExpired, CInv, SeenIsFair, Charging, NeverOvercharged, TypeOK
<1>6. ASSUME NEW r \in Request, Reset(r) PROVE CInv'
  <2>1. Allowance >= Allowance - total /\ period[r] \in 0..MaxClock /\ Granted
    BY <1>1, <1>6 DEF Reset, CInv, SeenIsFair, Charging, TypeOK
  <2>2. SeenIsFair'
    BY <1>6, <2>1, GotFair DEF Reset
  <2> QED
    BY <1>1, <1>6, <2>1, <2>2 DEF Reset, CInv, NeverOvercharged
<1>7. ASSUME NEW r \in Request, NEW cost \in Costs, Answer(r, cost) PROVE CInv'
  <2>1. cost \in Nat /\ total \in Nat /\ total' = total + cost /\ rule' = rule /\ quota' = quota
    BY <1>1, <1>7 DEF Answer, TypeOK
  <2>2. \A s \in Request \ {r} : pc'[s] = pc[s] /\ seen'[s] = seen[s]
    BY <1>1, <1>7 DEF Answer, TypeOK
  <2>3. /\ pc[r] = "drive" /\ pc'[r] \in {"done", "write"}
        /\ seen[r] \in Int /\ seen'[r] = seen[r] - cost
    BY <1>1, <1>7 DEF Answer, TypeOK
  <2>4. SeenIsFair'
    <3> SUFFICES ASSUME NEW s \in Request
                 PROVE  /\ Charging(s)' => Granted
                        /\ pc'[s] \in {"drive", "write"} => seen'[s] >= Allowance - total'
      BY <2>1 DEF SeenIsFair
    <3>1. CASE s = r
      BY <2>1, <2>3, <3>1 DEF CInv, SeenIsFair, Charging
    <3>2. CASE s # r
      <4>1. seen[s] \in Int
        BY <1>1 DEF TypeOK
      <4> QED
        BY <2>1, <2>2, <3>2, <4>1 DEF CInv, SeenIsFair, Charging
    <3> QED
      BY <3>1, <3>2
  <2>5. NeverOvercharged'
    BY <1>1, <2>1 DEF CInv, NeverOvercharged, TypeOK
  <2> QED
    BY <1>1, <2>4, <2>5 DEF CInv
<1>8. ASSUME NEW r \in Request, NoUsage(r) PROVE CInv'
  BY <1>1, <1>8 DEF NoUsage, CInv, SeenIsFair, Charging, NeverOvercharged, TypeOK
<1>9. ASSUME NEW r \in Request, Write(r) PROVE CInv'
  BY <1>1, <1>9 DEF Write, CInv, SeenIsFair, Charging, NeverOvercharged, TypeOK
<1>10. CASE UserCreated
  BY <1>1, <1>10, NothingGranted
     DEF UserCreated, CInv, SeenIsFair, Charging, NeverOvercharged
<1>11. CASE Tick
  BY <1>1, <1>11 DEF Tick, CInv, SeenIsFair, Charging, NeverOvercharged
<1>12. CASE UNCHANGED vars
  BY <1>1, <1>12 DEF vars, CInv, SeenIsFair, Charging, NeverOvercharged
<1> QED
  BY <1>2, <1>3, <1>4, <1>5, <1>6, <1>7, <1>8, <1>9, <1>10, <1>11, <1>12 DEF Next

(* abstract-resource-tool.ts:87-131: however calls overlap and whichever write of the *)
(* quota comes last, the row never charges for more than all calls have used.         *)
THEOREM NeverOverchargedHolds == Spec => []NeverOvercharged
<1>1. CInv => NeverOvercharged
  BY DEF CInv
<1> QED
  BY <1>1, InitCInv, StepCInv, PTL DEF Spec

-----------------------------------------------------------------------------
(***************************************************************************)
(* The books of a user whose calls do not overlap.  Between calls, and     *)
(* while a call works, the row holds what is left of its period; from the  *)
(* answer of the bot to the write it is the request that holds it.  A      *)
(* period after the row's is untouched, so that a renewal starts anew.     *)
(***************************************************************************)
Alone == \A r, s \in InFlight : r = s

Untouched == \A p \in 0..MaxClock : p > validTo => spent[p] = 0

WithinAllowance == \A p \in 0..MaxClock : spent[p] <= Allowance

RowHolds == Granted /\ (\A r \in Request : pc[r] # "write") => quota = Allowance - spent[validTo]

CallHolds(r) ==
    /\ Charging(r) => Granted
    /\ pc[r] = "reset" => period[r] > validTo /\ period[r] <= clock
    /\ pc[r] \in {"drive", "write"} => period[r] = validTo
    /\ pc[r] \in {"drive", "write"} => seen[r] = Allowance - spent[validTo]

Books ==
    /\ Alone /\ validTo <= clock
    /\ Untouched /\ WithinAllowance /\ RowHolds
    /\ \A r \in Request : CallHolds(r)

AInv == TypeOK /\ (~overlapped => Books)

LEMMA InitAInv == Init => AInv
<1> SUFFICES ASSUME Init PROVE AInv
  OBVIOUS
<1>1. TypeOK
  BY InitTypeOK
<1>2. \A r \in Request : pc[r] = "idle"
  BY DEF Init
<1>3. /\ \A p \in 0..MaxClock : spent[p] = 0
      /\ clock = 0 /\ validTo = 0 /\ 0 \in 0..MaxClock
  BY QuotaAssumption DEF Init
<1>4. Granted => quota = Allowance
  BY DEF Init, Granted
<1>5. Alone /\ (\A r \in Request : CallHolds(r))
  BY <1>2 DEF Alone, InFlight, CallHolds, Charging
<1>6. Untouched /\ WithinAllowance /\ RowHolds
  BY <1>3, <1>4, QuotaAssumption DEF Untouched, WithinAllowance, RowHolds
<1> QED
  BY <1>1, <1>3, <1>5, <1>6 DEF AInv, Books

\* A step of a request that was in flight keeps it the only one.
LEMMA StaysAlone ==
  ASSUME TypeOK, Alone, NEW r \in Request, pc[r] \notin {"idle", "done", "refused"},
         \A s \in Request \ {r} : pc'[s] = pc[s]
  PROVE  Alone' /\ \A s \in Request \ {r} : pc[s] \in {"idle", "done", "refused"}
BY DEF Alone, InFlight

\* The other requests are not in flight, so nothing is asked of them.
LEMMA OthersHold ==
  ASSUME NEW r \in Request, CallHolds(r)',
         \A s \in Request \ {r} : pc'[s] \in {"idle", "done", "refused"}
  PROVE  \A s \in Request : CallHolds(s)'
BY DEF CallHolds, Charging

\* Looking at a row that holds what is left: the call now holds the same.
LEMMA GotHolds ==
  ASSUME TypeOK, NEW r \in Request, NEW q \in Int, NEW v \in 0..MaxClock, Got(r, q, v),
         Granted', v = validTo', q = Allowance - spent'[validTo']
  PROVE  /\ CallHolds(r)'
         /\ pc'[r] # "write"
         /\ \A s \in Request \ {r} : pc'[s] = pc[s]
<1>1. pc'[r] \in {"read", "refused", "drive"} /\ seen'[r] = q /\ period'[r] = v
  BY DEF Got, TypeOK
<1>2. \A s \in Request \ {r} : pc'[s] = pc[s]
  BY DEF Got, TypeOK
<1> QED
  BY <1>1, <1>2 DEF CallHolds, Charging

LEMMA ReadBooks ==
  ASSUME AInv, ~overlapped, NEW r \in Request, ReadQuota(r)
  PROVE  Books'
<1> USE QuotaAssumption DEF row
<1>1. Books /\ TypeOK /\ pc[r] = "read" /\ Granted
  BY DEF AInv, ReadQuota
<1>2. /\ UNCHANGED <<clock, rule, quota, validTo, spent>> /\ Got(r, quota, validTo)
      /\ quota \in Int /\ validTo \in 0..MaxClock
  BY <1>1 DEF ReadQuota, TypeOK
<1>3. \A s \in Request \ {r} : pc[s] \in {"idle", "done", "refused"}
  BY <1>1 DEF Books, Alone, InFlight
<1>4. quota = Allowance - spent[validTo]
  BY <1>1, <1>3 DEF Books, RowHolds
<1>5. /\ CallHolds(r)' /\ pc'[r] # "write"
      /\ \A s \in Request \ {r} : pc'[s] = pc[s]
  BY <1>1, <1>2, <1>4, GotHolds DEF Granted
<1>6. Alone' /\ \A s \in Request : CallHolds(s)'
  BY <1>1, <1>3, <1>5, StaysAlone, OthersHold DEF Books
<1> QED
  BY <1>1, <1>2, <1>4, <1>6 DEF Books, Untouched, WithinAllowance, RowHolds

LEMMA ResetBooks ==
  ASSUME AInv, ~overlapped, NEW r \in Request, Reset(r)
  PROVE  Books'
<1> USE QuotaAssumption DEF row
<1>1. Books /\ TypeOK /\ pc[r] = "reset" /\ Granted
  BY DEF AInv, Reset, Books, CallHolds, Charging
<1>2. /\ UNCHANGED <<clock, rule, spent>> /\ Got(r, Allowance, period[r])
      /\ quota' = Allowance /\ validTo' = period[r]
      /\ period[r] \in 0..MaxClock /\ validTo \in 0..MaxClock /\ clock \in 0..MaxClock
  BY <1>1 DEF Reset, TypeOK
<1>3. \A s \in Request \ {r} : pc[s] \in {"idle", "done", "refused"}
  BY <1>1 DEF Books, Alone, InFlight
<1>4. period[r] > validTo /\ period[r] <= clock /\ spent[period[r]] = 0
  BY <1>1, <1>2 DEF Books, CallHolds, Untouched
<1>5. /\ CallHolds(r)' /\ pc'[r] # "write"
      /\ \A s \in Request \ {r} : pc'[s] = pc[s]
  BY <1>1, <1>2, <1>4, GotHolds DEF Granted
<1>6. Alone' /\ \A s \in Request : CallHolds(s)'
  BY <1>1, <1>3, <1>5, StaysAlone, OthersHold DEF Books
<1>7. Untouched' /\ WithinAllowance'
  BY <1>1, <1>2, <1>4 DEF Books, Untouched, WithinAllowance
<1>8. RowHolds'
  BY <1>2, <1>4 DEF RowHolds
<1> QED
  BY <1>2, <1>4, <1>6, <1>7, <1>8 DEF Books

LEMMA AnswerBooks ==
  ASSUME AInv, ~overlapped, NEW r \in Request, NEW cost \in Costs, Answer(r, cost)
  PROVE  Books'
<1> USE QuotaAssumption DEF row
<1>1. Books /\ TypeOK /\ pc[r] = "drive" /\ cost \in Nat /\ Granted
  BY DEF AInv, Answer, Books, CallHolds, Charging
<1>2. /\ UNCHANGED <<clock, rule, quota, validTo, period>> /\ validTo \in 0..MaxClock
      /\ period[r] = validTo /\ seen[r] = Allowance - spent[validTo] /\ cost <= seen[r]
      /\ spent \in [0..MaxClock -> Nat]
  BY <1>1 DEF Answer, TypeOK, Books, CallHolds
<1>3. /\ spent'[validTo] = spent[validTo] + cost
      /\ \A p \in 0..MaxClock : p # validTo => spent'[p] = spent[p]
      /\ seen'[r] = seen[r] - cost
      /\ pc'[r] = IF cost = 0 THEN "done" ELSE "write"
      /\ \A s \in Request \ {r} : pc'[s] = pc[s]
  BY <1>1, <1>2 DEF Answer, TypeOK
<1>4. /\ Alone' /\ \A s \in Request \ {r} : pc'[s] \in {"idle", "done", "refused"}
  BY <1>1, <1>3, StaysAlone DEF Books
<1>5. CallHolds(r)'
  BY <1>1, <1>2, <1>3 DEF CallHolds, Charging, Granted
<1>6. Untouched' /\ WithinAllowance'
  <2>1. spent'[validTo] <= Allowance
    BY <1>1, <1>2, <1>3
  <2> QED
    BY <1>1, <1>2, <1>3, <2>1 DEF Books, Untouched, WithinAllowance
<1>7. RowHolds'
  <2>1. \A s \in Request : pc[s] # "write"
    BY <1>1, <1>3, <1>4
  <2>2. quota = Allowance - spent[validTo]
    BY <1>1, <2>1 DEF Books, RowHolds
  <2> QED
    BY <1>2, <1>3, <2>2 DEF RowHolds
<1> QED
  BY <1>1, <1>2, <1>4, <1>5, <1>6, <1>7, OthersHold DEF Books

LEMMA WriteBooks ==
  ASSUME AInv, ~overlapped, NEW r \in Request, Write(r)
  PROVE  Books'
<1> USE QuotaAssumption DEF row
<1>1. Books /\ TypeOK /\ pc[r] = "write" /\ Granted
  BY DEF AInv, Write, Books, CallHolds, Charging
<1>2. /\ UNCHANGED <<clock, rule, validTo, spent, seen, period>> /\ quota' = seen[r]
      /\ seen[r] = Allowance - spent[validTo]
  BY <1>1 DEF Write, Books, CallHolds
<1>3. /\ pc'[r] = "done"
      /\ \A s \in Request \ {r} : pc'[s] = pc[s]
  BY <1>1 DEF Write, TypeOK
<1>4. /\ Alone' /\ \A s \in Request \ {r} : pc'[s] \in {"idle", "done", "refused"}
  BY <1>1, <1>3, StaysAlone DEF Books
<1>5. CallHolds(r)'
  BY <1>3 DEF CallHolds, Charging
<1> QED
  BY <1>1, <1>2, <1>4, <1>5, OthersHold DEF Books, Untouched, WithinAllowance, RowHolds

\* The other steps of a request leave row and books alone.
LEMMA OtherBooks ==
  ASSUME AInv, ~overlapped', NEW r \in Request,
         \/ \E bound \in BOOLEAN : Ask(r, bound)
         \/ ReadNothing(r) \/ ReadExpired(r) \/ NoUsage(r)
  PROVE  Books'
<1> USE QuotaAssumption DEF row
<1>1. Books /\ TypeOK /\ ~overlapped
  <2>1. overlapped => overlapped'
    BY Zenon DEF Ask, ReadNothing, ReadExpired, NoUsage
  <2> QED
    BY <2>1 DEF AInv
<1>2. /\ UNCHANGED <<clock, rule, quota, validTo, spent, seen>>
      /\ \A s \in Request \ {r} : pc'[s] = pc[s]
  BY <1>1 DEF Ask, ReadNothing, ReadExpired, NoUsage, TypeOK
<1>3. /\ Alone' /\ \A s \in Request \ {r} : pc'[s] \in {"idle", "done", "refused"}
  <2>1. CASE \E bound \in BOOLEAN : Ask(r, bound)
    <3>1. InFlight = {}
      BY <2>1 DEF Ask
    <3>2. \A s \in Request \ {r} : pc'[s] \in {"idle", "done", "refused"}
      BY <1>2, <3>1 DEF InFlight
    <3> QED
      BY <3>2 DEF Alone, InFlight
  <2>2. CASE ReadNothing(r) \/ ReadExpired(r) \/ NoUsage(r)
    <3>1. pc[r] \notin {"idle", "done", "refused"}
      BY <2>2 DEF ReadNothing, ReadExpired, NoUsage
    <3> QED
      BY <1>1, <1>2, <3>1, StaysAlone DEF Books
  <2> QED
    BY <2>1, <2>2
<1>4. CallHolds(r)' /\ pc[r] # "write" /\ pc'[r] # "write"
  <2>1. CASE \E bound \in BOOLEAN : Ask(r, bound)
    BY <1>1, <2>1 DEF Ask, CallHolds, Charging, TypeOK
  <2>2. CASE ReadNothing(r)
    BY <1>1, <2>2 DEF ReadNothing, CallHolds, Charging, TypeOK
  <2>3. CASE ReadExpired(r)
    BY <1>1, <2>3 DEF ReadExpired, Renewed, Expired, CallHolds, Charging, TypeOK, Granted
  <2>4. CASE NoUsage(r)
    BY <1>1, <2>4 DEF NoUsage, CallHolds, Charging, TypeOK
  <2> QED
    BY <2>1, <2>2, <2>3, <2>4
<1>5. RowHolds'
  BY <1>1, <1>2, <1>4 DEF Books, RowHolds, Granted
<1> QED
  BY <1>1, <1>2, <1>3, <1>4, <1>5, OthersHold DEF Books, Untouched, WithinAllowance

LEMMA StepAInv == AInv /\ [Next]_vars => AInv'
<1> SUFFICES ASSUME AInv, [Next]_vars, ~overlapped' PROVE Books'
  BY StepTypeOK DEF AInv
<1> USE DEF row
<1>1. ASSUME NEW r \in Request, ReadQuota(r) \/ Reset(r) \/ Write(r) PROVE Books'
  BY <1>1, ReadBooks, ResetBooks, WriteBooks DEF ReadQuota, Reset, Write
<1>2. ASSUME NEW r \in Request, NEW cost \in Costs, Answer(r, cost) PROVE Books'
  BY <1>2, AnswerBooks DEF Answer
<1>3. CASE UserCreated
  BY <1>3, NothingGranted
     DEF UserCreated, AInv, Books, Alone, InFlight, Untouched, WithinAllowance, RowHolds,
         Granted, CallHolds, Charging
<1>4. CASE Tick
  <2>1. clock \in Nat /\ validTo \in Nat /\ clock' = clock + 1 /\ period \in [Request -> Int]
    BY <1>4, QuotaAssumption DEF Tick, AInv, TypeOK
  <2>2. Books /\ UNCHANGED <<row, pc, for, seen, period, spent>>
    BY <1>4 DEF Tick, AInv
  <2>3. \A r \in Request : CallHolds(r)'
    BY <2>1, <2>2 DEF Books, CallHolds, Charging, Granted
  <2> QED
    BY <2>1, <2>2, <2>3 DEF Books, Alone, InFlight, Untouched, WithinAllowance, RowHolds, Granted
<1>5. CASE UNCHANGED vars
  BY <1>5 DEF vars, AInv, Books, Alone, InFlight, Untouched, WithinAllowance, RowHolds,
              Granted, CallHolds, Charging
<1> QED
  BY <1>1, <1>2, <1>3, <1>4, <1>5, OtherBooks DEF Next

(* user-created.listener.ts, quotas.service.ts:60-101: for a user who waits until each call *)
(* is written the row is right between calls, and no period is spent more than once.        *)
THEOREM AccountedHolds == Spec => []Accounted
<1>1. AInv => Accounted
  BY DEF AInv, Books, Accounted, WithinAllowance, RowHolds, InFlight
<1> QED
  BY <1>1, InitAInv, StepAInv, PTL DEF Spec
=============================================================================
