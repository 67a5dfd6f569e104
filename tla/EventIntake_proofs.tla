------------------------ MODULE EventIntake_proofs -------------------------
(***************************************************************************)
(* An event makes one case, a source row is worked on by one case, and the *)
(* rows nobody works on are bounded by the handlers that died, for any     *)
(* number of events, customers, handlers and faults.                       *)
(***************************************************************************)
EXTENDS EventIntake, FiniteSetTheorems, TLAPS

Holding == {"upsert", "source", "commit"}

\* The parts of the invariant about events and keys say nothing of customers.
Filed == << ledger, caseOf, taken, cases >>

LEMMA IdleOK == Idle \in Records /\ Idle.at = "idle"
  BY IntakeAssumption DEF Idle, Request, Records

\* The next id is a new one.
LEMMA NewIdOK ==
    ASSUME IsFiniteSet(cases)
    PROVE  NewId \in Nat /\ NewId # 0
  <1>1. Cardinality(cases) \in Nat
    BY FS_CardinalityType
  <1> QED BY <1>1 DEF NewId

\* Receipts name the event's case.
LEMMA Receipts ==
    ASSUME IntakeInv, UNCHANGED answered
    PROVE  \A e \in Events : answered'[e] \subseteq {caseOf[e]} \ {0}
  BY DEF IntakeInv, EventOK

\* A handler moves and files nothing: what it comes to hold nobody held before.
LEMMA Moves ==
    ASSUME IntakeInv, NEW r \in Requests, NEW s \in Records,
           req' = [req EXCEPT ![r] = s], UNCHANGED Filed,
           \A e \in Events : answered'[e] \subseteq {caseOf[e]} \ {0},
           RequestOK(r)',
           s.at \in Holding =>
             /\ s.event \notin ledger
             /\ \A q \in Requests \ {r} : ~HoldsEvent(q, s.event),
           s.at = "commit" /\ s.event # NoEvent /\ KeyOf[s.event] # NoKey =>
             /\ KeyOf[s.event] \notin taken
             /\ \A q \in Requests \ {r} : ~HoldsKey(q, KeyOf[s.event]),
           s.at = "open" => s.key = NoKey
    PROVE  /\ IsFiniteSet(taken)' /\ IsFiniteSet(cases)' /\ (\A c \in cases : c.id # 0)'
           /\ req' \in [Requests -> Records]
           /\ \A q \in Requests : RequestOK(q)'
           /\ \A e \in Events : EventOK(e)'
           /\ \A k \in Keys : KeyOK(k)'
  <1>1. /\ req \in [Requests -> Records] /\ req' \in [Requests -> Records]
        /\ req'[r] = s /\ \A q \in Requests \ {r} : req'[q] = req[q]
        /\ UNCHANGED << ledger, caseOf, taken, cases >>
    BY DEF IntakeInv, TypeOK, Filed
  <1>2. ASSUME NEW q \in Requests
        PROVE  RequestOK(q)'
    BY <1>1 DEF IntakeInv, RequestOK
  <1>3. ASSUME NEW e \in Events
        PROVE  EventOK(e)'
    <2>1. EventOK(e)
      BY DEF IntakeInv
    <2>2. \A q \in Requests \ {r} : HoldsEvent(q, e)' <=> HoldsEvent(q, e)
      BY <1>1 DEF HoldsEvent
    <2>3. HoldsEvent(r, e)' =>
            e \notin ledger /\ \A q \in Requests \ {r} : ~HoldsEvent(q, e)
      BY <1>1 DEF HoldsEvent, Holding
    <2>4. /\ \A q \in Requests : HoldsEvent(q, e)' => e \notin ledger
          /\ \A p, q \in Requests : HoldsEvent(p, e)' /\ HoldsEvent(q, e)' => p = q
      BY <2>1, <2>2, <2>3 DEF EventOK
    <2> QED BY <1>1, <2>1, <2>4 DEF EventOK
  <1>4. ASSUME NEW k \in Keys
        PROVE  KeyOK(k)'
    <2>1. KeyOK(k) /\ k # NoKey
      BY IntakeAssumption DEF IntakeInv
    <2>2. \A q \in Requests \ {r} : /\ HoldsKey(q, k)' <=> HoldsKey(q, k)
                                    /\ Opens(q, k)' <=> Opens(q, k)
      BY <1>1 DEF HoldsKey, Opens
    <2>3. /\ HoldsKey(r, k)' =>
               k \notin taken /\ \A q \in Requests \ {r} : ~HoldsKey(q, k)
          /\ ~Opens(r, k)'
      BY <1>1, <2>1 DEF HoldsKey, Opens
    <2>4. /\ \A q \in Requests : HoldsKey(q, k)' => k \notin taken
          /\ \A p, q \in Requests : HoldsKey(p, k)' /\ HoldsKey(q, k)' => p = q
          /\ \A q \in Requests : Opens(q, k)' =>
               k \in taken /\ \A c \in cases : c.key # k
          /\ \A p, q \in Requests : Opens(p, k)' /\ Opens(q, k)' => p = q
      BY <2>1, <2>2, <2>3 DEF KeyOK
    <2> QED BY <1>1, <2>1, <2>4 DEF KeyOK
  <1> QED BY <1>1, <1>2, <1>3, <1>4 DEF IntakeInv

-----------------------------------------------------------------------------
(* Steps that file nothing *)

LEMMA ReceiveStep ==
    ASSUME IntakeInv, NEW r \in Requests,
           \/ \E e \in Events : Receive(r, e)
           \/ \E n \in 1 .. MaxBatch : Simulate(r, n)
           \/ Die(r)
    PROVE  IntakeInv'
  <1>1. TypeOK
    BY DEF IntakeInv
  <1>2. PICK s \in Records :
          /\ req' = [req EXCEPT ![r] = s]
          /\ s.at \in {"idle", "insert", "resolve"}
          /\ s.at = "insert" => s.event \in Events
    <2>1. ASSUME NEW e \in Events, Receive(r, e)
          PROVE  Request("insert", e, NoCustomer, NoKey, 0) \in Records
      BY DEF Request, Records
    <2>2. ASSUME NEW n \in 1 .. MaxBatch, Simulate(r, n)
          PROVE  Request("resolve", NoEvent, NoCustomer, NoKey, n) \in Records
      BY IntakeAssumption DEF Request, Records
    <2> QED
      BY <2>1, <2>2, IdleOK DEF Receive, Simulate, Die, Done, Request
  <1>3. UNCHANGED << rows, answered >>
    BY DEF Receive, Simulate, Die
  <1>4. RequestOK(r)'
    BY <1>1, <1>2 DEF RequestOK, TypeOK
  <1>5. UNCHANGED << Filed, answered >>
    BY <1>3 DEF rows, Filed
  <1>6. /\ IsFiniteSet(taken)' /\ IsFiniteSet(cases)' /\ (\A c \in cases : c.id # 0)'
        /\ req' \in [Requests -> Records]
        /\ \A q \in Requests : RequestOK(q)'
        /\ \A e \in Events : EventOK(e)'
        /\ \A k \in Keys : KeyOK(k)'
    BY <1>2, <1>4, <1>5, Receipts, Moves DEF Holding
  <1>7. faults' \in 0 .. MaxFaults
    BY <1>1, IntakeAssumption DEF TypeOK, Receive, Simulate, Die
  <1>8. TypeOK'
    BY <1>1, <1>3, <1>6, <1>7 DEF TypeOK, rows
  <1> QED BY <1>6, <1>8 DEF IntakeInv

LEMMA TransactionStep ==
    ASSUME IntakeInv, NEW r \in Requests,
           CreateEvent(r) \/ UpsertCustomer(r) \/ CreateSource(r) \/ FindEvent(r)
    PROVE  IntakeInv'
  <1>1. /\ TypeOK /\ RequestOK(r) /\ req[r] \in Records /\ req[r].event \in Events
        /\ req \in [Requests -> Records]
    BY DEF IntakeInv, TypeOK, RequestOK, CreateEvent, UpsertCustomer, CreateSource,
           FindEvent
  <1> DEFINE e == req[r].event
             k == KeyOf[e]
             Rest(s) == /\ \A q \in Requests \ {r} : ~HoldsEvent(q, e)
                        /\ e \notin ledger /\ s.event = e
  <1>2. /\ UNCHANGED << rows, answered, faults >>
        /\ UNCHANGED << Filed, answered >> /\ caseOf' = caseOf
    BY DEF rows, Filed, CreateEvent, UpsertCustomer, CreateSource, FindEvent
  <1>3. EventOK(e) /\ e # NoEvent /\ EmailOf[e] \in Customers
    BY <1>1, IntakeAssumption DEF IntakeInv
  <1>4. ASSUME req[r].at \in Holding
        PROVE  e \notin ledger /\ \A q \in Requests \ {r} : ~HoldsEvent(q, e)
    BY <1>3, <1>4 DEF EventOK, HoldsEvent, Holding
  <1>5. PICK s \in Records :
          /\ req' = [req EXCEPT ![r] = s]
          /\ RequestOK(r)'
          /\ s.at \in Holding =>
               /\ s.event \notin ledger
               /\ \A q \in Requests \ {r} : ~HoldsEvent(q, s.event)
          /\ s.at = "commit" /\ s.event # NoEvent /\ KeyOf[s.event] # NoKey =>
               /\ KeyOf[s.event] \notin taken
               /\ \A q \in Requests \ {r} : ~HoldsKey(q, KeyOf[s.event])
          /\ s.at # "open"
    <2>1. CASE CreateEvent(r)
      <3> DEFINE at == IF e \in ledger THEN "find" ELSE "upsert"
                 s == [req[r] EXCEPT !.at = at]
      <3>1. /\ s \in Records /\ s.at = at /\ s.event = e
            /\ req' = [req EXCEPT ![r] = s] /\ req'[r] = s
        BY <1>1, <2>1 DEF Records, CreateEvent, To
      <3>2. \A q \in Requests \ {r} : ~HoldsEvent(q, e)
        BY <2>1 DEF CreateEvent
      <3>3. RequestOK(r)'
        BY <1>1, <3>1 DEF RequestOK
      <3>4. s.at \in {"find", "upsert"} /\ (s.at = "upsert" => e \notin ledger)
        BY <3>1
      <3> HIDE DEF s, at
      <3> QED BY <3>1, <3>2, <3>3, <3>4 DEF Holding
    <2>2. CASE UpsertCustomer(r)
      <3> DEFINE s == [req[r] EXCEPT !.at = "source", !.customer = EmailOf[e]]
      <3>1. /\ s \in Records /\ s.at = "source" /\ s.event = e
            /\ s.customer \in Customers
            /\ req' = [req EXCEPT ![r] = s] /\ req'[r] = s
        BY <1>1, <1>3, <2>2 DEF Records, UpsertCustomer
      <3>2. req[r].at \in Holding
        BY <2>2 DEF UpsertCustomer, Holding
      <3>3. RequestOK(r)'
        BY <1>1, <3>1 DEF RequestOK
      <3> QED BY <1>4, <3>1, <3>2, <3>3 DEF Holding
    <2>3. CASE CreateSource(r)
      <3> DEFINE at == IF k \in taken THEN "find" ELSE "commit"
                 s == [req[r] EXCEPT !.at = at]
      <3>1. /\ s \in Records /\ s.at = at /\ s.event = e
            /\ s.customer = req[r].customer
            /\ req' = [req EXCEPT ![r] = s] /\ req'[r] = s
        BY <1>1, <2>3 DEF Records, CreateSource, To
      <3>2. req[r].at \in Holding /\ \A q \in Requests : ~HoldsKey(q, k)
        BY <2>3 DEF CreateSource, Holding
      <3>3. req[r].customer \in Customers
        BY <1>1, <2>3 DEF CreateSource, RequestOK
      <3>4. RequestOK(r)'
        BY <1>1, <3>1, <3>3 DEF RequestOK
      <3>5. s.at \in {"find", "commit"} /\ (s.at = "commit" => k \notin taken)
        BY <3>1
      <3>6. e \notin ledger /\ \A q \in Requests \ {r} : ~HoldsEvent(q, e)
        BY <1>4, <3>2
      <3>7. \A q \in Requests \ {r} : ~HoldsKey(q, KeyOf[s.event])
        BY <3>1, <3>2
      <3> HIDE DEF s, at
      <3> QED BY <3>1, <3>4, <3>5, <3>6, <3>7 DEF Holding
    <2>4. CASE FindEvent(r)
      <3> DEFINE t == Request("answer", e, NoCustomer, NoKey, caseOf[e])
                 s == IF caseOf[e] = 0 THEN Idle ELSE t
      <3>1. /\ t \in Records /\ t.at = "answer" /\ t.event = e /\ t.n = caseOf[e]
        BY <1>1 DEF Request, Records, TypeOK
      <3>2. s \in Records /\ req' = [req EXCEPT ![r] = s] /\ req'[r] = s
        BY <1>1, <2>4, <3>1, IdleOK DEF FindEvent, Done
      <3>3. s.at \in {"idle", "answer"}
            /\ (s.at = "answer" => s.n = caseOf[s.event] /\ s.n # 0 /\ s.event = e)
        BY <3>1, IdleOK
      <3> HIDE DEF s
      <3>4. RequestOK(r)'
        BY <1>1, <1>2, <3>2, <3>3 DEF RequestOK
      <3> QED BY <3>2, <3>3, <3>4 DEF Holding
    <2> QED BY <2>1, <2>2, <2>3, <2>4
  <1>6. /\ IsFiniteSet(taken)' /\ IsFiniteSet(cases)' /\ (\A c \in cases : c.id # 0)'
        /\ req' \in [Requests -> Records]
        /\ \A q \in Requests : RequestOK(q)'
        /\ \A f \in Events : EventOK(f)'
        /\ \A j \in Keys : KeyOK(j)'
    BY <1>2, <1>5, Receipts, Moves
  <1>7. TypeOK'
    BY <1>1, <1>2, <1>6 DEF TypeOK, rows
  <1> QED BY <1>6, <1>7 DEF IntakeInv

LEMMA SimulationStep ==
    ASSUME IntakeInv, NEW r \in Requests, ResolveCustomer(r) \/ CountInvoices(r)
    PROVE  IntakeInv'
  <1>1. TypeOK /\ RequestOK(r) /\ req[r] \in Records /\ req \in [Requests -> Records]
    BY DEF IntakeInv, TypeOK
  <1>2. /\ UNCHANGED << Filed, answered >> /\ faults' = faults
        /\ UNCHANGED << ledger, caseOf, taken, cases >>
    BY DEF rows, Filed, ResolveCustomer, CountInvoices, AfterCustomer
  <1>3. customers' \subseteq Customers
    BY <1>1 DEF TypeOK, rows, ResolveCustomer, CountInvoices, AfterCustomer
  <1>4. PICK s \in Records :
          /\ req' = [req EXCEPT ![r] = s] /\ RequestOK(r)'
          /\ s.at \in {"number", "create", "open"} /\ (s.at = "open" => s.key = NoKey)
    <2>1. CASE ResolveCustomer(r)
      <3>1. PICK x \in Customers, stage \in {"number", "open"} :
              req' = [req EXCEPT ![r] = Request(stage, NoEvent, x, NoKey, req[r].n)]
        BY <2>1 DEF ResolveCustomer, AfterCustomer
      <3> DEFINE s == Request(stage, NoEvent, x, NoKey, req[r].n)
      <3>2. s \in Records /\ s.at = stage /\ s.key = NoKey /\ s.customer = x
            /\ s.event = NoEvent
        BY <1>1 DEF Request, Records
      <3>3. req'[r] = s
        BY <1>1, <3>1
      <3> HIDE DEF s
      <3>4. RequestOK(r)'
        BY <3>2, <3>3 DEF RequestOK
      <3> QED BY <3>1, <3>2, <3>4 DEF s
    <2>2. CASE CountInvoices(r)
      <3> DEFINE invoices == {k \in taken : k[1] = "invoice"}
                 s == [req[r] EXCEPT !.at = "create",
                                     !.key = << "invoice", Cardinality(invoices) + 1 >>]
      <3>1. req' = [req EXCEPT ![r] = s] /\ req'[r] = s
        BY <1>1, <2>2 DEF CountInvoices
      <3>2. /\ s.key \in Keys /\ s \in Records /\ s.at = "create"
            /\ s.customer = req[r].customer /\ s.event = req[r].event
        <4> DEFINE key == << "invoice", Cardinality(invoices) + 1 >>
        <4>1. IsFiniteSet(invoices)
          BY FS_Subset DEF IntakeInv
        <4>2. Cardinality(invoices) \in Nat
          BY <4>1, FS_CardinalityType
        <4> HIDE DEF invoices
        <4>3. key \in Keys
          BY <4>2 DEF Keys
        <4> HIDE DEF key
        <4>4. LET u == [req[r] EXCEPT !.at = "create", !.key = key]
              IN  /\ u.key = key /\ u \in Records /\ u.at = "create"
                  /\ u.customer = req[r].customer /\ u.event = req[r].event
          BY <1>1, <4>3 DEF Records
        <4> QED BY <4>3, <4>4 DEF key
      <3>3. RequestOK(r)'
        BY <1>1, <2>2, <3>1, <3>2 DEF RequestOK, CountInvoices
      <3> QED BY <3>1, <3>2, <3>3
    <2> QED BY <2>1, <2>2
  <1>5. /\ IsFiniteSet(taken)' /\ IsFiniteSet(cases)' /\ (\A c \in cases : c.id # 0)'
        /\ req' \in [Requests -> Records]
        /\ \A q \in Requests : RequestOK(q)'
        /\ \A e \in Events : EventOK(e)'
        /\ \A k \in Keys : KeyOK(k)'
    BY <1>2, <1>4, Receipts, Moves DEF Holding
  <1>6. TypeOK'
    BY <1>1, <1>2, <1>3, <1>5 DEF TypeOK
  <1> QED BY <1>5, <1>6 DEF IntakeInv

LEMMA AnswerStep ==
    ASSUME IntakeInv, NEW r \in Requests, Answer(r)
    PROVE  IntakeInv'
  <1>1. /\ TypeOK /\ RequestOK(r) /\ req \in [Requests -> Records]
        /\ answered \in [Events -> SUBSET Nat]
    BY DEF IntakeInv, TypeOK
  <1> DEFINE e == req[r].event
  <1>2. /\ e \in Events /\ req[r].n = caseOf[e] /\ req[r].n # 0
        /\ answered' = [answered EXCEPT ![e] = answered[e] \cup {req[r].n}]
        /\ req' = [req EXCEPT ![r] = Idle] /\ caseOf[e] \in Nat
    BY <1>1 DEF Answer, RequestOK, Done, TypeOK
  <1>3. UNCHANGED rows /\ UNCHANGED Filed /\ UNCHANGED << ledger, caseOf, faults >>
    BY DEF Answer, rows, Filed
  <1>4. \A f \in Events : answered[f] \subseteq {caseOf[f]} \ {0}
    BY DEF IntakeInv, EventOK
  <1>5. /\ answered' \in [Events -> SUBSET Nat]
        /\ \A f \in Events : answered'[f] \subseteq {caseOf[f]} \ {0}
    BY <1>1, <1>2, <1>4
  <1>6. RequestOK(r)'
    BY <1>1, <1>2, IdleOK DEF RequestOK
  <1>7. /\ IsFiniteSet(taken)' /\ IsFiniteSet(cases)' /\ (\A c \in cases : c.id # 0)'
        /\ req' \in [Requests -> Records]
        /\ \A q \in Requests : RequestOK(q)'
        /\ \A f \in Events : EventOK(f)'
        /\ \A k \in Keys : KeyOK(k)'
    BY <1>2, <1>3, <1>5, <1>6, IdleOK, Moves DEF Holding
  <1>8. TypeOK'
    BY <1>1, <1>3, <1>5, <1>7 DEF TypeOK, rows
  <1> QED BY <1>7, <1>8 DEF IntakeInv

-----------------------------------------------------------------------------
(* Steps that file *)

LEMMA CommitStep ==
    ASSUME IntakeInv, NEW r \in Requests, Commit(r)
    PROVE  IntakeInv'
  <1> DEFINE e == req[r].event
             k == KeyOf[e]
             x == req[r].customer
             c == Case(NewId, e, k, x)
             s == Request("answer", e, NoCustomer, NoKey, NewId)
  <1>1. /\ TypeOK /\ RequestOK(r) /\ req \in [Requests -> Records]
        /\ req[r].at = "commit" /\ e \in Events /\ x \in Customers
        /\ k \in Keys \cup {NoKey} /\ e # NoEvent
        /\ caseOf \in [Events -> Nat]
    BY IntakeAssumption DEF IntakeInv, TypeOK, RequestOK, Commit
  <1>2. /\ cases' = cases \cup {c} /\ ledger' = ledger \cup {e}
        /\ caseOf' = [caseOf EXCEPT ![e] = NewId]
        /\ customers' = customers \cup {x}
        /\ taken' = IF k = NoKey THEN taken ELSE taken \cup {k}
        /\ req' = [req EXCEPT ![r] = s]
        /\ UNCHANGED << answered, faults >>
    BY DEF Commit
  <1>3. NewId \in Nat /\ NewId # 0
    BY NewIdOK DEF IntakeInv
  <1>4. c.id = NewId /\ c.event = e /\ c.key = k /\ c.customer = x
    BY DEF Case
  <1>5. /\ s \in Records /\ s.at = "answer" /\ s.event = e /\ s.n = NewId
    BY <1>1, <1>3 DEF Request, Records
  <1>6. c \in [id : Nat, event : Events \cup {NoEvent},
               key : Keys \cup {NoKey}, customer : Customers]
    BY <1>1, <1>3 DEF Case
  <1>7. /\ IsFiniteSet(taken') /\ IsFiniteSet(cases')
        /\ \A d \in cases' : d.id # 0
    BY <1>2, <1>3, <1>4, FS_AddElement DEF IntakeInv
  <1>8. /\ EventOK(e) /\ HoldsEvent(r, e)
        /\ e \notin ledger /\ caseOf[e] = 0 /\ answered[e] = {}
        /\ \A d \in cases : d.event # e
    <2>1. EventOK(e) /\ HoldsEvent(r, e)
      BY <1>1 DEF IntakeInv, HoldsEvent
    <2>2. e \notin ledger /\ caseOf[e] = 0
      BY <2>1 DEF EventOK
    <2>3. \A d \in cases : d.event # e
      BY <2>1, <2>2 DEF EventOK, IntakeInv
    <2> QED BY <2>1, <2>2, <2>3 DEF EventOK
  <1>9. ASSUME k # NoKey
        PROVE  /\ KeyOK(k) /\ k \notin taken /\ HoldsKey(r, k)
               /\ \A d \in cases : d.key # k
               /\ \A q \in Requests : ~Opens(q, k)
    <2>1. KeyOK(k) /\ HoldsKey(r, k)
      BY <1>1, <1>9 DEF IntakeInv, HoldsKey
    <2> QED BY <2>1 DEF KeyOK
  <1> HIDE DEF c, s, x
  <1>10. /\ req' \in [Requests -> Records] /\ req'[r] = s
         /\ \A q \in Requests \ {r} : req'[q] = req[q]
    BY <1>1, <1>2, <1>5
  <1>11. TypeOK'
    <2>1. taken' \subseteq Keys /\ ledger' \subseteq Events
          /\ customers' \subseteq Customers
      BY <1>1, <1>2 DEF TypeOK
    <2>2. caseOf' \in [Events -> Nat]
      BY <1>1, <1>2, <1>3
    <2>3. cases' \subseteq [id : Nat, event : Events \cup {NoEvent},
                            key : Keys \cup {NoKey}, customer : Customers]
      BY <1>1, <1>2, <1>6 DEF TypeOK
    <2> QED BY <1>1, <1>2, <1>10, <2>1, <2>2, <2>3 DEF TypeOK
  <1>12. ASSUME NEW q \in Requests
         PROVE  RequestOK(q)'
    <2>1. CASE q = r
      BY <1>1, <1>2, <1>3, <1>5, <1>10, <2>1 DEF RequestOK
    <2>2. CASE q # r
      <3>1. RequestOK(q) /\ req'[q] = req[q]
        BY <1>10, <2>2 DEF IntakeInv
      <3>2. ASSUME req[q].at = "answer"
            PROVE  caseOf'[req[q].event] = caseOf[req[q].event]
        <4>1. req[q].event \in Events /\ caseOf[req[q].event] # 0
          BY <3>1, <3>2 DEF RequestOK
        <4> QED BY <1>1, <1>2, <1>8, <4>1
      <3> QED BY <3>1, <3>2 DEF RequestOK
    <2> QED BY <2>1, <2>2
  <1>13. ASSUME NEW f \in Events
         PROVE  EventOK(f)'
    <2>1. EventOK(f)
      BY DEF IntakeInv
    <2>2. /\ \A q \in Requests \ {r} : HoldsEvent(q, f)' <=> HoldsEvent(q, f)
          /\ ~HoldsEvent(r, f)'
      BY <1>5, <1>10 DEF HoldsEvent
    <2>3. CASE f = e
      <3>1. caseOf'[f] = NewId /\ f \in ledger' /\ answered'[f] = {}
        BY <1>1, <1>2, <1>8, <2>3
      <3>2. /\ c \in cases' /\ c.event = f /\ c.id = NewId
            /\ \A d \in cases' : d.event = f => d = c
        BY <1>2, <1>4, <1>8, <2>3
      <3>3. \A q \in Requests : ~HoldsEvent(q, f)'
        BY <1>8, <2>2, <2>3 DEF EventOK
      <3> QED BY <1>3, <3>1, <3>2, <3>3 DEF EventOK
    <2>4. CASE f # e
      <3>1. caseOf'[f] = caseOf[f] /\ (f \in ledger' <=> f \in ledger)
            /\ answered'[f] = answered[f]
        BY <1>1, <1>2, <2>4
      <3>2. \A d \in cases' : d.event = f <=> d \in cases /\ d.event = f
        BY <1>2, <1>4, <2>4
      <3>3. cases \subseteq cases'
        BY <1>2
      <3> QED BY <2>1, <2>2, <3>1, <3>2, <3>3 DEF EventOK
    <2> QED BY <2>3, <2>4
  <1>14. ASSUME NEW j \in Keys
         PROVE  KeyOK(j)'
    <2>1. KeyOK(j) /\ j # NoKey
      BY IntakeAssumption DEF IntakeInv
    <2>2. /\ \A q \in Requests \ {r} : /\ HoldsKey(q, j)' <=> HoldsKey(q, j)
                                       /\ Opens(q, j)' <=> Opens(q, j)
          /\ ~HoldsKey(r, j)' /\ ~Opens(r, j)'
      BY <1>5, <1>10 DEF HoldsKey, Opens
    <2>3. CASE j = k
      <3>1. j \in taken' /\ \A d \in cases' : d.key = j => d = c
        BY <1>2, <1>9, <2>1, <2>3
      <3>2. \A q \in Requests : ~HoldsKey(q, j)' /\ ~Opens(q, j)'
        BY <1>9, <2>1, <2>2, <2>3 DEF KeyOK
      <3> QED BY <3>1, <3>2 DEF KeyOK
    <2>4. CASE j # k
      <3>1. j \in taken' <=> j \in taken
        BY <1>2, <2>4
      <3>2. \A d \in cases' : d.key = j <=> d \in cases /\ d.key = j
        BY <1>2, <1>4, <2>4
      <3> QED BY <2>1, <2>2, <3>1, <3>2 DEF KeyOK
    <2> QED BY <2>3, <2>4
  <1> QED BY <1>7, <1>11, <1>12, <1>13, <1>14 DEF IntakeInv

LEMMA InvoiceStep ==
    ASSUME IntakeInv, NEW r \in Requests, CreateInvoice(r)
    PROVE  IntakeInv'
  <1> DEFINE k == req[r].key
             s == [req[r] EXCEPT !.at = "open"]
  <1>1. /\ TypeOK /\ RequestOK(r) /\ req \in [Requests -> Records]
        /\ req[r] \in Records /\ req[r].at = "create" /\ k \in Keys
    BY DEF IntakeInv, TypeOK, RequestOK, CreateInvoice
  <1>2. /\ UNCHANGED << ledger, caseOf, customers, cases, answered, faults >>
        /\ \A q \in Requests : ~HoldsKey(q, k)
    BY DEF CreateInvoice
  <1>3. CASE k \in taken
    <2>1. req' = [req EXCEPT ![r] = Idle] /\ UNCHANGED taken
      BY <1>3 DEF CreateInvoice, Done
    <2>2. UNCHANGED Filed /\ RequestOK(r)'
      BY <1>1, <1>2, <2>1, IdleOK DEF Filed, RequestOK
    <2>3. /\ IsFiniteSet(taken)' /\ IsFiniteSet(cases)' /\ (\A c \in cases : c.id # 0)'
          /\ req' \in [Requests -> Records]
          /\ \A q \in Requests : RequestOK(q)'
          /\ \A f \in Events : EventOK(f)'
          /\ \A j \in Keys : KeyOK(j)'
      BY <1>2, <2>1, <2>2, IdleOK, Receipts, Moves DEF Holding
    <2>4. TypeOK'
      BY <1>1, <1>2, <2>1, <2>3 DEF TypeOK
    <2> QED BY <2>3, <2>4 DEF IntakeInv
  <1>4. CASE k \notin taken
    <2>1. req' = [req EXCEPT ![r] = s] /\ taken' = taken \cup {k}
      BY <1>4 DEF CreateInvoice, To
    <2>2. /\ s \in Records /\ s.at = "open" /\ s.key = k /\ s.event = req[r].event
          /\ s.customer = req[r].customer
      BY <1>1 DEF Records
    <2> HIDE DEF s
    <2>3. /\ req' \in [Requests -> Records] /\ req'[r] = s
          /\ \A q \in Requests \ {r} : req'[q] = req[q]
      BY <1>1, <2>1, <2>2
    <2>4. TypeOK'
      BY <1>1, <1>2, <2>1, <2>3 DEF TypeOK
    <2>5. IsFiniteSet(taken)' /\ IsFiniteSet(cases)' /\ (\A c \in cases : c.id # 0)'
      BY <1>2, <2>1, FS_AddElement DEF IntakeInv
    <2>6. ASSUME NEW q \in Requests
          PROVE  RequestOK(q)'
      <3>1. RequestOK(q)
        BY DEF IntakeInv
      <3> QED BY <1>1, <1>2, <2>2, <2>3, <3>1 DEF RequestOK
    <2>7. ASSUME NEW e \in Events
          PROVE  EventOK(e)'
      <3>1. EventOK(e)
        BY DEF IntakeInv
      <3>2. \A q \in Requests : HoldsEvent(q, e)' => HoldsEvent(q, e)
        BY <2>2, <2>3 DEF HoldsEvent
      <3> QED BY <1>2, <3>1, <3>2 DEF EventOK
    <2>8. ASSUME NEW j \in Keys
          PROVE  KeyOK(j)'
      <3>1. KeyOK(j)
        BY DEF IntakeInv
      <3>2. /\ \A q \in Requests \ {r} : /\ HoldsKey(q, j)' <=> HoldsKey(q, j)
                                         /\ Opens(q, j)' <=> Opens(q, j)
            /\ ~HoldsKey(r, j)' /\ (Opens(r, j)' <=> j = k)
        BY <2>2, <2>3 DEF HoldsKey, Opens
      <3>3. CASE j = k
        <4>1. /\ j \in taken' /\ \A c \in cases' : c.key # j
              /\ \A q \in Requests : ~HoldsKey(q, j)'
              /\ \A q \in Requests : Opens(q, j)' => q = r
          BY <1>2, <1>4, <2>1, <3>1, <3>2, <3>3 DEF KeyOK
        <4> QED BY <4>1 DEF KeyOK
      <3>4. CASE j # k
        <4>1. j \in taken' <=> j \in taken
          BY <2>1, <3>4
        <4> QED BY <1>2, <3>1, <3>2, <3>4, <4>1 DEF KeyOK
      <3> QED BY <3>3, <3>4
    <2> QED BY <2>4, <2>5, <2>6, <2>7, <2>8 DEF IntakeInv
  <1> QED BY <1>3, <1>4

LEMMA OpenStep ==
    ASSUME IntakeInv, NEW r \in Requests, OpenCase(r)
    PROVE  IntakeInv'
  <1> DEFINE k == req[r].key
             x == req[r].customer
             c == Case(NewId, NoEvent, k, x)
             t == Request("resolve", NoEvent, NoCustomer, NoKey, req[r].n - 1)
  <1>1. /\ TypeOK /\ RequestOK(r) /\ req \in [Requests -> Records]
        /\ req[r] \in Records /\ req[r].at = "open" /\ x \in Customers
        /\ k \in Keys \cup {NoKey} /\ NoEvent \notin Events
    BY IntakeAssumption DEF IntakeInv, TypeOK, RequestOK, OpenCase, Records
  <1>2. /\ cases' = cases \cup {c}
        /\ UNCHANGED << ledger, caseOf, customers, taken, answered, faults >>
    BY DEF OpenCase
  <1>3. NewId \in Nat /\ NewId # 0
    BY NewIdOK DEF IntakeInv
  <1>4. /\ c.id = NewId /\ c.event = NoEvent /\ c.key = k
        /\ c \in [id : Nat, event : Events \cup {NoEvent},
                  key : Keys \cup {NoKey}, customer : Customers]
    BY <1>1, <1>3 DEF Case
  <1>5. PICK s \in Records :
          req' = [req EXCEPT ![r] = s] /\ s.at \in {"idle", "resolve"}
    <2>1. CASE req[r].n > 1
      <3>1. req[r].n - 1 \in Nat
        BY <1>1, <2>1 DEF Records
      <3>2. t \in Records /\ t.at = "resolve"
        BY <3>1 DEF Request, Records
      <3> QED BY <2>1, <3>2 DEF OpenCase
    <2>2. CASE ~(req[r].n > 1)
      BY <2>2, IdleOK DEF OpenCase, Done
    <2> QED BY <2>1, <2>2
  <1> HIDE DEF c
  <1>6. /\ req' \in [Requests -> Records] /\ req'[r] = s
        /\ \A q \in Requests \ {r} : req'[q] = req[q]
    BY <1>1, <1>5
  <1>7. TypeOK'
    <2>1. cases' \subseteq [id : Nat, event : Events \cup {NoEvent},
                            key : Keys \cup {NoKey}, customer : Customers]
      BY <1>1, <1>2, <1>4 DEF TypeOK
    <2> QED BY <1>1, <1>2, <1>6, <2>1 DEF TypeOK
  <1>8. /\ IsFiniteSet(taken') /\ IsFiniteSet(cases')
        /\ \A d \in cases' : d.id # 0
    BY <1>2, <1>3, <1>4, FS_AddElement DEF IntakeInv
  <1>9. ASSUME NEW q \in Requests
        PROVE  RequestOK(q)'
    <2>1. RequestOK(q)
      BY DEF IntakeInv
    <2> QED BY <1>2, <1>5, <1>6, <2>1 DEF RequestOK
  <1>10. ASSUME NEW e \in Events
         PROVE  EventOK(e)'
    <2>1. EventOK(e) /\ e # NoEvent
      BY <1>1 DEF IntakeInv
    <2>2. \A q \in Requests : HoldsEvent(q, e)' => HoldsEvent(q, e)
      BY <1>5, <1>6 DEF HoldsEvent
    <2>3. /\ \A d \in cases' : d.event = e <=> d \in cases /\ d.event = e
          /\ cases \subseteq cases'
      BY <1>2, <1>4, <2>1
    <2> QED BY <1>2, <2>1, <2>2, <2>3 DEF EventOK
  <1>11. ASSUME NEW j \in Keys
         PROVE  KeyOK(j)'
    <2>1. KeyOK(j)
      BY DEF IntakeInv
    <2>2. /\ \A q \in Requests \ {r} : /\ HoldsKey(q, j)' <=> HoldsKey(q, j)
                                       /\ Opens(q, j)' <=> Opens(q, j)
          /\ ~HoldsKey(r, j)' /\ ~Opens(r, j)'
      BY <1>5, <1>6 DEF HoldsKey, Opens
    <2>3. CASE j = k
      <3>1. Opens(r, j)
        BY <1>1, <2>3 DEF Opens
      <3>2. /\ j \in taken /\ \A d \in cases : d.key # j
            /\ \A q \in Requests \ {r} : ~Opens(q, j)
        BY <2>1, <3>1 DEF KeyOK
      <3>3. \A d \in cases' : d.key = j => d = c
        BY <1>2, <3>2
      <3>4. \A q \in Requests : ~HoldsKey(q, j)' /\ ~Opens(q, j)'
        BY <2>1, <2>2, <3>2 DEF KeyOK
      <3> QED BY <1>2, <3>2, <3>3, <3>4 DEF KeyOK
    <2>4. CASE j # k
      <3>1. \A d \in cases' : d.key = j <=> d \in cases /\ d.key = j
        BY <1>2, <1>4, <2>4
      <3> QED BY <1>2, <2>1, <2>2, <3>1 DEF KeyOK
    <2> QED BY <2>3, <2>4
  <1> QED BY <1>7, <1>8, <1>9, <1>10, <1>11 DEF IntakeInv

-----------------------------------------------------------------------------
(* What follows *)

LEMMA IntakeStart == Init => IntakeInv
  <1> SUFFICES ASSUME Init PROVE IntakeInv
    OBVIOUS
  <1>1. TypeOK
    BY IntakeAssumption, IdleOK DEF Init, TypeOK
  <1>2. IsFiniteSet(taken) /\ IsFiniteSet(cases) /\ \A c \in cases : c.id # 0
    BY FS_EmptySet DEF Init
  <1>3. ASSUME NEW r \in Requests
        PROVE  /\ req[r].at = "idle" /\ RequestOK(r)
               /\ \A e \in Events : ~HoldsEvent(r, e)
               /\ \A k \in Keys : ~HoldsKey(r, k) /\ ~Opens(r, k)
    BY IdleOK DEF Init, RequestOK, HoldsEvent, HoldsKey, Opens
  <1>4. \A e \in Events : EventOK(e)
    BY <1>3 DEF Init, EventOK
  <1>5. \A k \in Keys : KeyOK(k)
    BY <1>3 DEF Init, KeyOK
  <1> QED BY <1>1, <1>2, <1>3, <1>4, <1>5 DEF IntakeInv

LEMMA IntakeStep == IntakeInv /\ [Next]_vars => IntakeInv'
  <1> SUFFICES ASSUME IntakeInv, [Next]_vars PROVE IntakeInv'
    OBVIOUS
  <1>1. CASE UNCHANGED vars
    BY <1>1 DEF vars, rows, IntakeInv, TypeOK, RequestOK, EventOK, KeyOK, HoldsEvent,
                HoldsKey, Opens
  <1>2. CASE Next
    <2>1. PICK r \in Requests :
            \/ Proceed(r) \/ Die(r)
            \/ \E e \in Events : Receive(r, e)
            \/ \E n \in 1 .. MaxBatch : Simulate(r, n)
      BY <1>2 DEF Next
    <2>2. CASE Proceed(r)
      BY <2>2, TransactionStep, CommitStep, AnswerStep, SimulationStep, InvoiceStep,
         OpenStep DEF Proceed
    <2> QED BY <2>1, <2>2, ReceiveStep
  <1> QED BY <1>1, <1>2

\* The inductive invariant, for any events, keys, handlers and faults.
THEOREM IntakeHolds == Spec => []IntakeInv
  BY IntakeStart, IntakeStep, PTL DEF Spec

\* The type invariant of event intake.
THEOREM IntakeTyped == Spec => []TypeOK
  <1>1. IntakeInv => TypeOK
    BY DEF IntakeInv
  <1> QED BY <1>1, IntakeHolds, PTL

\* However often, and however concurrently, an event is delivered, it makes one
\* case, which is the one its receipts name.
THEOREM EventsMakeOneCase == Spec => []OneCasePerEvent
  <1>1. ASSUME IntakeInv, NEW e \in Events
        PROVE  LET made == {c \in cases : c.event = e} IN
               /\ Cardinality(made) = IF caseOf[e] = 0 THEN 0 ELSE 1
               /\ \A c \in made : c.id = caseOf[e]
               /\ answered[e] \subseteq {c.id : c \in made}
    <2> DEFINE made == {c \in cases : c.event = e}
    <2>1. EventOK(e) /\ \A c \in cases : c.id # 0
      BY <1>1 DEF IntakeInv
    <2>2. CASE caseOf[e] = 0
      <3>1. made = {} /\ answered[e] = {}
        BY <2>1, <2>2 DEF EventOK
      <3> QED BY <2>2, <3>1, FS_EmptySet
    <2>3. CASE caseOf[e] # 0
      <3>1. PICK c \in cases : c.event = e
        BY <2>1, <2>3 DEF EventOK
      <3>2. made = {c} /\ c.id = caseOf[e] /\ answered[e] \subseteq {caseOf[e]}
        BY <2>1, <3>1 DEF EventOK
      <3>3. Cardinality(made) = 1
        BY <3>2, FS_Singleton
      <3> QED BY <2>3, <3>2, <3>3
    <2> QED BY <2>2, <2>3
  <1>2. IntakeInv => OneCasePerEvent
    BY <1>1 DEF OneCasePerEvent
  <1> QED BY <1>2, IntakeHolds, PTL

\* No two cases are about one invoice or payment, simulated ones included.
THEOREM SourcesHaveOneCase == Spec => []OneCasePerSource
  <1>1. IntakeInv => OneCasePerSource
    BY DEF IntakeInv, TypeOK, KeyOK, OneCasePerSource
  <1> QED BY <1>1, IntakeHolds, PTL

-----------------------------------------------------------------------------
(* Source rows without a case *)

Orphans == {k \in taken : \A c \in cases : c.key # k}

\* The simulations that have written their source row and not opened its case.
Owing == {r \in Requests : req[r].at = "open" /\ req[r].key # NoKey}

\* Inductive form of OrphansBounded: a simulation that opens a case without a
\* source row owes nothing.
OrphansInv == Cardinality(Orphans) =< Cardinality(Owing) + faults

LEMMA OrphanCounts ==
    ASSUME IntakeInv
    PROVE  /\ IsFiniteSet(Orphans) /\ Cardinality(Orphans) \in Nat
           /\ IsFiniteSet(Owing) /\ Cardinality(Owing) \in Nat
           /\ faults \in Nat
  <1>1. Orphans \subseteq taken /\ IsFiniteSet(taken)
    BY DEF Orphans, IntakeInv
  <1>2. Owing \subseteq Requests /\ IsFiniteSet(Requests)
    BY IntakeAssumption DEF Owing
  <1>3. IsFiniteSet(Orphans) /\ IsFiniteSet(Owing)
    BY <1>1, <1>2, FS_Subset
  <1>4. faults \in Nat
    BY IntakeAssumption DEF IntakeInv, TypeOK
  <1> QED BY <1>3, <1>4, FS_CardinalityType

\* Who owes, when one handler moves.
LEMMA OwingMoves ==
    ASSUME IntakeInv, NEW r \in Requests, NEW s, req' = [req EXCEPT ![r] = s]
    PROVE  /\ r \in Owing' <=> s.at = "open" /\ s.key # NoKey
           /\ (r \in Owing <=> r \in Owing') => Owing' = Owing
           /\ r \notin Owing' => Owing' = Owing \ {r}
           /\ r \in Owing' => Owing' = Owing \cup {r}
  <1>1. /\ req'[r] = s
        /\ \A q \in Requests : q # r => req'[q] = req[q]
    BY DEF IntakeInv, TypeOK
  <1>2. /\ r \in Owing' <=> s.at = "open" /\ s.key # NoKey
        /\ \A q \in Requests : q # r => (q \in Owing' <=> q \in Owing)
        /\ Owing \subseteq Requests /\ Owing' \subseteq Requests
    BY <1>1 DEF Owing
  <1> QED BY <1>2

\* Steps that leave the source rows and cases alone, and nobody's debt but r's.
LEMMA NobodyOwes ==
    ASSUME IntakeInv, OrphansInv, UNCHANGED << taken, cases, faults >>,
           Owing' = Owing
    PROVE  OrphansInv'
  <1>1. Orphans' = Orphans
    BY DEF Orphans
  <1> QED BY <1>1 DEF OrphansInv

LEMMA OrphansStep ==
    ASSUME IntakeInv, OrphansInv, NEW r \in Requests,
           \/ Proceed(r) \/ Die(r)
           \/ \E e \in Events : Receive(r, e)
           \/ \E n \in 1 .. MaxBatch : Simulate(r, n)
    PROVE  OrphansInv'
  <1>0. /\ req \in [Requests -> Records] /\ req[r] \in Records
        /\ r \in Owing <=> req[r].at = "open" /\ req[r].key # NoKey
    BY DEF IntakeInv, TypeOK, Owing
  <1>1. ASSUME NEW s, req' = [req EXCEPT ![r] = s], s.at # "open" \/ s.key = NoKey,
               req[r].at # "open", UNCHANGED << taken, cases, faults >>
        PROVE  OrphansInv'
    <2>1. Owing' = Owing
      BY <1>0, <1>1, OwingMoves
    <2> QED BY <1>1, <2>1, NobodyOwes
  <1>2. ASSUME NEW e \in Events, Receive(r, e) PROVE OrphansInv'
    <2> DEFINE s == Request("insert", e, NoCustomer, NoKey, 0)
    <2>1. /\ req' = [req EXCEPT ![r] = s] /\ s.at = "insert"
          /\ req[r].at # "open" /\ UNCHANGED << taken, cases, faults >>
      BY <1>2, IdleOK DEF Receive, rows, Request
    <2> HIDE DEF s
    <2> QED BY <1>1, <2>1
  <1>3. ASSUME NEW n \in 1 .. MaxBatch, Simulate(r, n) PROVE OrphansInv'
    <2> DEFINE s == Request("resolve", NoEvent, NoCustomer, NoKey, n)
    <2>1. /\ req' = [req EXCEPT ![r] = s] /\ s.at = "resolve"
          /\ req[r].at # "open" /\ UNCHANGED << taken, cases, faults >>
      BY <1>3, IdleOK DEF Simulate, rows, Request
    <2> HIDE DEF s
    <2> QED BY <1>1, <2>1
  <1>4. ASSUME NEW at, at # "open", To(r, at), req[r].at # "open",
               UNCHANGED << taken, cases, faults >>
        PROVE  OrphansInv'
    <2> DEFINE s == [req[r] EXCEPT !.at = at]
    <2>1. s.at = at
      BY <1>0 DEF Records
    <2>2. req' = [req EXCEPT ![r] = s]
      BY <1>0, <1>4 DEF To
    <2> HIDE DEF s
    <2> QED BY <1>1, <1>4, <2>1, <2>2
  <1>5. CASE CreateEvent(r)
    <2> DEFINE at == IF req[r].event \in ledger THEN "find" ELSE "upsert"
    <2>1. /\ To(r, at) /\ at # "open" /\ req[r].at # "open"
          /\ UNCHANGED << taken, cases, faults >>
      BY <1>5 DEF CreateEvent, rows
    <2> HIDE DEF at
    <2> QED BY <1>4, <2>1
  <1>6. CASE CreateSource(r)
    <2> DEFINE at == IF KeyOf[req[r].event] \in taken THEN "find" ELSE "commit"
    <2>1. /\ To(r, at) /\ at # "open" /\ req[r].at # "open"
          /\ UNCHANGED << taken, cases, faults >>
      BY <1>6 DEF CreateSource, rows
    <2> HIDE DEF at
    <2> QED BY <1>4, <2>1
  <1>7. CASE UpsertCustomer(r)
    <2> DEFINE x == EmailOf[req[r].event]
               s == [req[r] EXCEPT !.at = "source", !.customer = x]
    <2>1. /\ req' = [req EXCEPT ![r] = s]
          /\ req[r].at # "open" /\ UNCHANGED << taken, cases, faults >>
      BY <1>0, <1>7 DEF UpsertCustomer, rows
    <2> HIDE DEF x
    <2>2. s.at = "source"
      BY <1>0 DEF Records
    <2> HIDE DEF s
    <2> QED BY <1>1, <2>1, <2>2
  <1>8. CASE FindEvent(r)
    <2> DEFINE e == req[r].event
               t == Request("answer", e, NoCustomer, NoKey, caseOf[e])
               s == IF caseOf[e] = 0 THEN Idle ELSE t
    <2>1. t.at = "answer"
      BY DEF Request
    <2>2. s.at # "open"
      <3> HIDE DEF t
      <3> QED BY <2>1, IdleOK
    <2>3. /\ req' = [req EXCEPT ![r] = s]
          /\ req[r].at # "open" /\ UNCHANGED << taken, cases, faults >>
      BY <1>8 DEF FindEvent, Done, rows
    <2> HIDE DEF s
    <2> QED BY <1>1, <2>2, <2>3
  <1>9. CASE Answer(r)
    <2>1. /\ req' = [req EXCEPT ![r] = Idle]
          /\ req[r].at # "open" /\ UNCHANGED << taken, cases, faults >>
      BY <1>9 DEF Answer, Done, rows
    <2> QED BY <1>1, <2>1, IdleOK
  <1>10. CASE ResolveCustomer(r)
    <2>1. PICK x \in Customers, stage \in AfterCustomer :
            req' = [req EXCEPT ![r] = Request(stage, NoEvent, x, NoKey, req[r].n)]
      BY <1>10 DEF ResolveCustomer
    <2>2. req[r].at # "open" /\ UNCHANGED << taken, cases, faults >>
      BY <1>10 DEF ResolveCustomer
    <2>3. Request(stage, NoEvent, x, NoKey, req[r].n).key = NoKey
      BY DEF Request
    <2> QED BY <1>1, <2>1, <2>2, <2>3
  <1>11. CASE CountInvoices(r)
    <2> DEFINE invoices == {k \in taken : k[1] = "invoice"}
               k == << "invoice", Cardinality(invoices) + 1 >>
               s == [req[r] EXCEPT !.at = "create", !.key = k]
    <2>1. /\ req' = [req EXCEPT ![r] = s]
          /\ req[r].at # "open" /\ UNCHANGED << taken, cases, faults >>
      BY <1>0, <1>11 DEF CountInvoices, rows
    <2> HIDE DEF k
    <2>2. s.at = "create"
      BY <1>0 DEF Records
    <2> HIDE DEF s
    <2> QED BY <1>1, <2>1, <2>2
  <1>12. CASE Commit(r)
    <2> DEFINE e == req[r].event
               k == KeyOf[e]
               c == Case(NewId, e, k, req[r].customer)
               s == Request("answer", e, NoCustomer, NoKey, NewId)
    <2>1. /\ cases' = cases \cup {c} /\ faults' = faults
          /\ taken' = IF k = NoKey THEN taken ELSE taken \cup {k}
          /\ req' = [req EXCEPT ![r] = s] /\ req[r].at = "commit"
      BY <1>12 DEF Commit
    <2>2. s.at = "answer" /\ c.key = k
      BY DEF Request, Case
    <2> HIDE DEF s, c
    <2>3. Owing' = Owing
      BY <1>0, <2>1, <2>2, OwingMoves
    <2>4. Orphans' \subseteq Orphans
      BY <2>1, <2>2 DEF Orphans
    <2>5. Cardinality(Orphans') \in Nat /\ Cardinality(Orphans') =< Cardinality(Orphans)
      BY <2>4, OrphanCounts, FS_Subset, FS_CardinalityType
    <2> QED BY <2>1, <2>3, <2>5, OrphanCounts DEF OrphansInv
  <1>13. CASE CreateInvoice(r)
    <2> DEFINE k == req[r].key
               s == [req[r] EXCEPT !.at = "open"]
    <2>1. req[r].at = "create" /\ cases' = cases /\ faults' = faults
      BY <1>13 DEF CreateInvoice
    <2>2. CASE k \in taken
      <3>1. req' = [req EXCEPT ![r] = Idle] /\ taken' = taken
        BY <1>13, <2>2 DEF CreateInvoice, Done
      <3> QED BY <1>1, <2>1, <3>1, IdleOK
    <2>3. CASE k \notin taken
      <3>1. /\ req' = [req EXCEPT ![r] = s] /\ taken' = taken \cup {k}
            /\ s.at = "open" /\ s.key = k /\ k # NoKey
        BY <1>0, <1>13, <2>1, <2>3, IntakeAssumption
           DEF CreateInvoice, To, Records, IntakeInv, RequestOK
      <3> HIDE DEF s
      <3>2. r \notin Owing /\ Owing' = Owing \cup {r}
        BY <1>0, <2>1, <3>1, OwingMoves
      <3>3. k \notin Orphans /\ Orphans' \subseteq Orphans \cup {k}
        BY <2>1, <2>3, <3>1 DEF Orphans
      <3>4. Cardinality(Owing') = Cardinality(Owing) + 1
        BY <3>2, OrphanCounts, FS_AddElement
      <3>5. /\ IsFiniteSet(Orphans \cup {k})
            /\ Cardinality(Orphans \cup {k}) = Cardinality(Orphans) + 1
        BY <3>3, OrphanCounts, FS_AddElement
      <3>6. /\ Cardinality(Orphans') \in Nat
            /\ Cardinality(Orphans') =< Cardinality(Orphans) + 1
        BY <3>3, <3>5, FS_Subset, FS_CardinalityType
      <3> QED BY <2>1, <3>4, <3>6, OrphanCounts DEF OrphansInv
    <2> QED BY <2>2, <2>3
  <1>14. CASE OpenCase(r)
    <2> DEFINE k == req[r].key
               c == Case(NewId, NoEvent, k, req[r].customer)
    <2>1. /\ req[r].at = "open" /\ cases' = cases \cup {c}
          /\ taken' = taken /\ faults' = faults
      BY <1>14 DEF OpenCase
    <2>2. c.key = k
      BY DEF Case
    <2> HIDE DEF c
    <2>3. PICK s : req' = [req EXCEPT ![r] = s] /\ s.at # "open"
      <3> DEFINE t == Request("resolve", NoEvent, NoCustomer, NoKey, req[r].n - 1)
      <3>1. t.at = "resolve"
        BY DEF Request
      <3> HIDE DEF t
      <3>2. req' = [req EXCEPT ![r] = t] \/ req' = [req EXCEPT ![r] = Idle]
        BY <1>14 DEF OpenCase, Done, t
      <3> QED BY <3>1, <3>2, IdleOK
    <2>4. Owing' = Owing \ {r} /\ r \notin Owing'
      BY <2>3, OwingMoves
    <2>5. CASE k = NoKey
      <3>1. Owing' = Owing
        BY <1>0, <2>4, <2>5
      <3>2. Orphans' \subseteq Orphans
        BY <2>1 DEF Orphans
      <3>3. /\ Cardinality(Orphans') \in Nat
            /\ Cardinality(Orphans') =< Cardinality(Orphans)
        BY <3>2, OrphanCounts, FS_Subset, FS_CardinalityType
      <3> QED BY <2>1, <3>1, <3>3, OrphanCounts DEF OrphansInv
    <2>6. CASE k # NoKey
      <3>1. k \in Keys /\ KeyOK(k) /\ Opens(r, k)
        BY <1>0, <2>1, <2>6 DEF Records, IntakeInv, Opens
      <3>2. k \in Orphans
        BY <3>1 DEF KeyOK, Orphans
      <3>3. Orphans' = Orphans \ {k}
        BY <2>1, <2>2 DEF Orphans
      <3>4. Cardinality(Orphans') = Cardinality(Orphans) - 1
        BY <3>2, <3>3, OrphanCounts, FS_RemoveElement
      <3>5. Cardinality(Owing') = Cardinality(Owing) - 1
        BY <1>0, <2>1, <2>4, <2>6, OrphanCounts, FS_RemoveElement
      <3> QED BY <2>1, <3>4, <3>5, OrphanCounts DEF OrphansInv
    <2> QED BY <2>5, <2>6
  <1>15. CASE Die(r)
    <2>1. /\ req' = [req EXCEPT ![r] = Idle] /\ faults' = faults + 1
          /\ taken' = taken /\ cases' = cases
      BY <1>15 DEF Die, Done, rows
    <2>2. Owing' = Owing \ {r} /\ Orphans' = Orphans
      BY <2>1, IdleOK, OwingMoves DEF Orphans
    <2>3. /\ Cardinality(Owing') \in Nat
          /\ Cardinality(Owing) =< Cardinality(Owing') + 1
      <3>1. CASE r \in Owing
        <4>1. /\ IsFiniteSet(Owing')
              /\ Cardinality(Owing') = Cardinality(Owing) - 1
          BY <2>2, <3>1, OrphanCounts, FS_RemoveElement
        <4>2. Cardinality(Owing') \in Nat
          BY <4>1, FS_CardinalityType
        <4> QED BY <4>1, <4>2, OrphanCounts
      <3>2. CASE r \notin Owing
        <4>1. Owing' = Owing
          BY <2>2, <3>2
        <4> QED BY <4>1, OrphanCounts
      <3> QED BY <3>1, <3>2
    <2>4. Cardinality(Orphans') = Cardinality(Orphans)
      BY <2>2
    <2> QED BY <2>1, <2>3, <2>4, OrphanCounts DEF OrphansInv
  <1> QED BY <1>2, <1>3, <1>5, <1>6, <1>7, <1>8, <1>9, <1>10, <1>11, <1>12, <1>13,
             <1>14, <1>15 DEF Proceed

\* A source row has a case, but for those a simulation is about to open one for,
\* and one for each handler that died.
THEOREM FewOrphans == Spec => []OrphansBounded
  <1>1. Init => OrphansInv
    <2> SUFFICES ASSUME Init PROVE OrphansInv
      OBVIOUS
    <2>1. Orphans = {} /\ faults = 0
      BY DEF Init, Orphans
    <2>2. IntakeInv
      BY IntakeStart
    <2> QED BY <2>1, <2>2, OrphanCounts, FS_EmptySet DEF OrphansInv
  <1>2. IntakeInv /\ OrphansInv /\ [Next]_vars => OrphansInv'
    <2> SUFFICES ASSUME IntakeInv, OrphansInv, [Next]_vars PROVE OrphansInv'
      OBVIOUS
    <2>1. CASE UNCHANGED vars
      <3>1. UNCHANGED << taken, cases, faults >> /\ Owing' = Owing
        BY <2>1 DEF vars, rows, Owing
      <3> QED BY <3>1, NobodyOwes
    <2>2. CASE Next
      BY <2>2, OrphansStep DEF Next
    <2> QED BY <2>1, <2>2
  <1>3. IntakeInv /\ OrphansInv => OrphansBounded
    <2> SUFFICES ASSUME IntakeInv, OrphansInv PROVE OrphansBounded
      OBVIOUS
    <2> DEFINE Open == {r \in Requests : req[r].at = "open"}
    <2>1. Owing \subseteq Open /\ IsFiniteSet(Open)
      BY IntakeAssumption, FS_Subset DEF Owing
    <2>2. Cardinality(Owing) =< Cardinality(Open) /\ Cardinality(Open) \in Nat
      BY <2>1, FS_Subset, FS_CardinalityType
    <2> HIDE DEF Open
    <2>3. Cardinality(Orphans) =< Cardinality(Open) + faults
      BY <2>2, OrphanCounts DEF OrphansInv
    <2> QED BY <2>3 DEF OrphansBounded, Orphans, Open
  <1> QED BY <1>1, <1>2, <1>3, IntakeStart, IntakeStep, PTL DEF Spec
=============================================================================
