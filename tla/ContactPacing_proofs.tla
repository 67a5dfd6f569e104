------------------------ MODULE ContactPacing_proofs ------------------------
(***************************************************************************)
(* How far the rounded cooldown and a gate that runs ahead of its contact  *)
(* may be off, for any window, any cooldown and any number of executions.  *)
(***************************************************************************)
EXTENDS ContactPacing, TLAPS

Stages == {"idle", "fresh", "late"}

PacingTyped ==
    /\ clock \in 0 .. TicksPerDay - 1
    /\ age \in Nat /\ age =< Never
    /\ sent \in Nat
    /\ exec \in [Executions -> Stages]

\* An execution cleared in this tick was cleared inside the window; one cleared in
\* the tick before may have seen the window close since.
WindowInv ==
    \A e \in Executions :
        /\ exec[e] = "fresh" => InWindow(Hour, StartHour, EndHour)
        /\ exec[e] = "late" =>
             \/ InWindow(Hour, StartHour, EndHour)
             \/ clock = TicksPerHour * EndHour % TicksPerDay

AgeOk == age = Never \/ age >= TicksPerHour * MinHours - 1

\* With one execution at a time the age it was cleared with only grows until its
\* contact is written.
CooldownInv == \A e \in Executions : exec[e] # "idle" => AgeOk

OneAtATime == \A e, f \in Executions : e = f

LEMMA Ticks ==
    /\ TicksPerHour = 20 /\ TicksPerDay = 480
    /\ AgeCap \in Nat /\ AgeCap = 20 * MinHours + 2 /\ Never = 20 * MinHours + 3
  BY PacingAssumption DEF TicksPerHour, TicksPerDay, AgeCap, Never

\* The gate lets a contact pass inside the window only.
LEMMA GateAsksWindow ==
    ASSUME Allowed(Context)
    PROVE  InWindow(Hour, StartHour, EndHour) /\ Context.cooled
  <1>1. /\ 6 \in DOMAIN Rules /\ Rules[6] = "CONTACT_HOURS_IST"
        /\ 7 \in DOMAIN Rules /\ Rules[7] = "CONTACT_COOLDOWN"
    BY DEF Rules
  <1>2. ~Fails("CONTACT_HOURS_IST", Context) /\ ~Fails("CONTACT_COOLDOWN", Context)
    BY <1>1 DEF Allowed
  <1>3. Context.action \in ContactActions
    BY DEF Context, ContactActions
  <1>4. Context.inWindow /\ Context.cooled
    BY <1>2, <1>3 DEF Fails
  <1> QED BY <1>4 DEF Context

\* Rounding half up gives away half a tenth of an hour, one tick, and no more.
LEMMA RoundingGivesOneTick ==
    ASSUME NEW ticks \in Nat, NEW hours \in Nat, CooldownOk(ticks, hours)
    PROVE  ticks >= TicksPerHour * hours - 1
  BY DEF CooldownOk, RoundedTenths, TicksPerHour

LEMMA GateAsksAge ==
    ASSUME PacingTyped, Allowed(Context)
    PROVE  AgeOk
  <1>1. age = Never \/ CooldownOk(age, MinHours)
    BY GateAsksWindow DEF Context
  <1> QED BY <1>1, RoundingGivesOneTick, PacingAssumption DEF AgeOk, PacingTyped

\* A tick after an hour inside the window is inside it, or the one it closes at.
LEMMA TickLeavesWindow ==
    ASSUME PacingTyped, InWindow(Hour, StartHour, EndHour),
           clock' = (clock + 1) % TicksPerDay
    PROVE  \/ InWindow(Hour', StartHour, EndHour)
           \/ clock' = TicksPerHour * EndHour % TicksPerDay
  <1> DEFINE h == clock \div 20
  <1>1. clock \in 0 .. 479 /\ h \in 0 .. 23 /\ 20 * h =< clock /\ clock < 20 * h + 20
    BY Ticks DEF PacingTyped
  <1>2. h >= StartHour /\ h < EndHour
    BY DEF InWindow, Hour, TicksPerHour
  <1>3. StartHour \in 0 .. 23 /\ EndHour \in 0 .. 24
    BY PacingAssumption
  <1>4. clock' = (clock + 1) % 480
    BY Ticks
  <1>5. Hour' = clock' \div 20
    BY DEF Hour, TicksPerHour
  <1> HIDE DEF h
  <1>6. CASE clock + 1 < 20 * h + 20
    <2>1. clock' = clock + 1
      BY <1>1, <1>4, <1>6
    <2>2. clock' \div 20 = h
      BY <1>1, <1>6, <2>1
    <2> QED BY <1>2, <1>5, <2>2 DEF InWindow
  <1>7. CASE clock + 1 = 20 * h + 20
    <2>1. CASE h + 1 = EndHour
      <3>1. clock + 1 = TicksPerHour * EndHour
        BY <1>1, <1>3, <1>7, <2>1 DEF TicksPerHour
      <3> QED BY <3>1, <1>4, Ticks
    <2>2. CASE h + 1 # EndHour
      <3>1. h + 1 < EndHour /\ h + 1 =< 23
        BY <1>1, <1>2, <1>3, <2>2
      <3>2. clock' = clock + 1
        BY <1>1, <1>4, <1>7, <3>1
      <3>3. clock' \div 20 = h + 1
        BY <1>1, <1>7, <3>2
      <3> QED BY <1>1, <1>2, <1>3, <1>5, <3>1, <3>3 DEF InWindow
    <2> QED BY <2>1, <2>2
  <1> QED BY <1>1, <1>6, <1>7

LEMMA PacingInit == Init => PacingTyped /\ WindowInv /\ CooldownInv
  BY Ticks, PacingAssumption DEF Init, PacingTyped, WindowInv, CooldownInv, Stages

LEMMA TypedNext == PacingTyped /\ [Next]_vars => PacingTyped'
  <1> SUFFICES ASSUME PacingTyped, [Next]_vars PROVE PacingTyped'
    OBVIOUS
  <1>1. ASSUME NEW e \in Executions, Evaluate(e) PROVE PacingTyped'
    BY <1>1 DEF Evaluate, PacingTyped, Stages, Never, AgeCap
  <1>2. ASSUME NEW e \in Executions, Contact(e) PROVE PacingTyped'
    BY <1>2, Ticks DEF Contact, PacingTyped, Stages
  <1>3. CASE Tick
    <2>1. clock' \in 0 .. TicksPerDay - 1
      BY <1>3, Ticks DEF Tick, PacingTyped
    <2>2. age' \in Nat /\ age' =< Never
      BY <1>3, Ticks, PacingAssumption DEF Tick, PacingTyped
    <2>3. exec' \in [Executions -> Stages] /\ sent' \in Nat
      BY <1>3 DEF Tick, PacingTyped, Stages
    <2>4. Never' = Never
      BY DEF Never, AgeCap
    <2> QED BY <2>1, <2>2, <2>3, <2>4 DEF PacingTyped
  <1>4. CASE UNCHANGED vars
    BY <1>4 DEF vars, PacingTyped
  <1> QED BY <1>1, <1>2, <1>3, <1>4 DEF Next

LEMMA WindowNext == PacingTyped /\ WindowInv /\ [Next]_vars => WindowInv'
  <1> SUFFICES ASSUME PacingTyped, WindowInv, [Next]_vars PROVE WindowInv'
    OBVIOUS
  <1>1. ASSUME NEW e \in Executions, Evaluate(e) PROVE WindowInv'
    <2>1. clock' = clock /\ InWindow(Hour, StartHour, EndHour)
      BY <1>1, GateAsksWindow DEF Evaluate
    <2>2. exec' = [exec EXCEPT ![e] = "fresh"] /\ exec \in [Executions -> Stages]
      BY <1>1 DEF Evaluate, PacingTyped
    <2> QED BY <2>1, <2>2 DEF WindowInv, Hour
  <1>2. ASSUME NEW e \in Executions, Contact(e) PROVE WindowInv'
    <2>1. /\ clock' = clock /\ exec' = [exec EXCEPT ![e] = "idle"]
          /\ exec \in [Executions -> Stages]
      BY <1>2 DEF Contact, PacingTyped
    <2> QED BY <2>1 DEF WindowInv, Hour
  <1>3. CASE Tick
    <2>1. /\ clock' = (clock + 1) % TicksPerDay
          /\ \A e \in Executions :
               /\ exec'[e] # "fresh"
               /\ exec'[e] = "late" => exec[e] = "fresh"
      BY <1>3 DEF Tick, PacingTyped
    <2>2. ASSUME NEW e \in Executions, exec'[e] = "late"
          PROVE  \/ InWindow(Hour', StartHour, EndHour)
                 \/ clock' = TicksPerHour * EndHour % TicksPerDay
      <3>1. InWindow(Hour, StartHour, EndHour)
        BY <2>1, <2>2 DEF WindowInv
      <3> QED BY <2>1, <3>1, TickLeavesWindow
    <2>3. InWindow(Hour', StartHour, EndHour) <=> InWindow(Hour, StartHour, EndHour)'
      BY DEF InWindow
    <2> QED BY <2>1, <2>2, <2>3 DEF WindowInv, TicksPerDay, TicksPerHour
  <1>4. CASE UNCHANGED vars
    BY <1>4 DEF vars, WindowInv, Hour
  <1> QED BY <1>1, <1>2, <1>3, <1>4 DEF Next

LEMMA CooldownNext ==
    OneAtATime /\ PacingTyped /\ CooldownInv /\ [Next]_vars => CooldownInv'
  <1> SUFFICES ASSUME OneAtATime, PacingTyped, CooldownInv, [Next]_vars
               PROVE  CooldownInv'
    OBVIOUS
  <1>1. ASSUME NEW e \in Executions, Evaluate(e) PROVE CooldownInv'
    <2>1. age' = age /\ AgeOk
      BY <1>1, GateAsksAge DEF Evaluate
    <2> QED BY <2>1 DEF CooldownInv, AgeOk, Never, AgeCap
  <1>2. ASSUME NEW e \in Executions, Contact(e) PROVE CooldownInv'
    <2>1. exec'[e] = "idle"
      BY <1>2 DEF Contact, PacingTyped
    <2> QED BY <2>1 DEF CooldownInv, OneAtATime
  <1>3. CASE Tick
    <2>1. \A e \in Executions : exec'[e] # "idle" => exec[e] # "idle"
      BY <1>3 DEF Tick, PacingTyped
    <2>2. ASSUME AgeOk PROVE AgeOk'
      <3>1. age' = IF age < AgeCap THEN age + 1 ELSE age
        BY <1>3 DEF Tick
      <3>2. age \in Nat /\ age =< Never
        BY DEF PacingTyped
      <3>3. age' = Never \/ age' >= 20 * MinHours - 1
        BY <2>2, <3>1, <3>2, Ticks, PacingAssumption DEF AgeOk, TicksPerHour
      <3> QED BY <3>3 DEF AgeOk, TicksPerHour, Never, AgeCap
    <2> QED BY <2>1, <2>2 DEF CooldownInv
  <1>4. CASE UNCHANGED vars
    BY <1>4 DEF vars, CooldownInv, AgeOk, Never, AgeCap
  <1> QED BY <1>1, <1>2, <1>3, <1>4 DEF Next

\* A step that writes a contact row is the contact of an execution past the gate.
LEMMA WhoContacts ==
    ASSUME PacingTyped, [Next]_vars, Contacts
    PROVE  \E e \in Executions : exec[e] \in {"fresh", "late"}
  <1>1. \E e \in Executions : Contact(e)
    BY DEF Contacts, Next, vars, Tick, Evaluate
  <1> QED BY <1>1 DEF Contact, PacingTyped, Stages

\* Executions of any number: a contact row is written inside the IST window, or in
\* the one tick after it closes by an execution cleared just before.
THEOREM WindowIsKept == Spec => WrittenInsideWindow
  <1>1. PacingTyped /\ WindowInv /\ [Next]_vars
          => [Contacts => \/ InWindow(Hour, StartHour, EndHour)
                          \/ \E e \in Executions :
                               /\ exec[e] = "late"
                               /\ clock = TicksPerHour * EndHour % TicksPerDay]_vars
    BY WhoContacts DEF WindowInv
  <1> QED BY <1>1, PacingInit, TypedNext, WindowNext,
             PTL DEF Spec, WrittenInsideWindow

\* Executions one at a time: a second contact comes at most one tick, half of what
\* the age is rounded to, before the cooldown has passed.
THEOREM CooldownIsKept ==
    ASSUME OneAtATime
    PROVE  Spec => CooldownKeptUpToRounding
  <1>1. PacingTyped /\ CooldownInv /\ [Next]_vars
          => [Contacts => age = Never \/ age >= TicksPerHour * MinHours - 1]_vars
    BY WhoContacts DEF CooldownInv, AgeOk
  <1>2. PacingTyped /\ CooldownInv /\ [Next]_vars => CooldownInv'
    BY CooldownNext
  <1> QED BY <1>1, <1>2, PacingInit, TypedNext,
             PTL DEF Spec, CooldownKeptUpToRounding
=============================================================================
