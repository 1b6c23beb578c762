---------------------------- MODULE RequestProofs ----------------------------
(***************************************************************************)
(* Theorems about requests, for every number of lots, suppliers, clients,  *)
(* tries and faults: types, whole rows, decisions on current rows, and     *)
(* that Requests implements AtomicStore.                                   *)
(*                                                                         *)
(* The invariant says, for the handler that holds the connection, how far  *)
(* its image of the rows is from the row it started with and from the row  *)
(* that its whole request makes of it.                                     *)
(***************************************************************************)
EXTENDS Requests, FiniteSetTheorems, TLAPS

-----------------------------------------------------------------------------
(* What a request makes of a row *)

Creating == {"supplier", "register"}
Moving == {"move", "batch", "reject_retest"}

\* A request that clients send.
GoodIntent(a) ==
    /\ a \in Intent
    /\ Len(a.items) \in Nat \ {0}
    /\ \A i \in 1..Len(a.items) :
          a.items[i] \in (IF a.kind = "supplier" THEN Suppliers ELSE Lots)
    /\ a.kind \in Creating \cup {"plan", "batch", "reject_retest"} => a.expected = 0
    /\ a.kind = "batch" => a.next = "accepted"
    /\ a.kind # "batch" => Len(a.items) = 1

\* The request a of client c, carried out on the row r.
Allowed(a, r) ==
    \/ a.kind \in Creating /\ r.status = "none"
    \/ a.kind = "plan" /\ r.status = "registered" /\ r.plan = NoPlan
    \/ a.kind \in Moving /\ Concludes(a) /\ RoundOpen(r)
    \/ /\ a.kind \in Moving /\ ~Concludes(a) /\ CanTransitionTo(r.status, a.next)
       /\ a.next = "judged" => r.status = "retesting"

Made(c, a, r) ==
    IF a.kind \in Creating THEN NewRow
    ELSE IF a.kind = "plan" THEN [r EXCEPT !.plan = c, !.planEvents = @ + 1]
    ELSE IF Concludes(a)
         THEN [r EXCEPT !.status = "judged", !.version = @ + 1, !.events = @ + 1,
                        !.results = @ + 1, !.conclusions = @ + 1]
    ELSE [r EXCEPT !.status = a.next, !.version = @ + 1, !.events = @ + 1]

\* The same without its audit event.
MadeSilently(c, a, r) ==
    [Made(c, a, r) EXCEPT !.events = r.events, !.planEvents = r.planEvents]

\* The rows that the single statements of a move leave, and the last one of all.
Concluded(a, r) == IF Concludes(a) THEN [r EXCEPT !.conclusions = @ + 1] ELSE r

Updated(a, t) ==
    [t EXCEPT !.status = a.next, !.version = @ + 1,
              !.results = IF Concludes(a) THEN @ + 1 ELSE @]

Audited(a, t) ==
    IF a.kind = "plan" THEN [t EXCEPT !.planEvents = @ + 1] ELSE [t EXCEPT !.events = @ + 1]

\* The row r was the one that was read, and the one that the client knew.
Current(a, h, r) == h.seen = r.version /\ a.expected \in {0, r.version}

\* The image t of the row r, at the statement that h has reached.
Stage(c, a, h, r, t) ==
    \/ h.pc = "insert" /\ a.kind \in Creating \cup {"plan"} /\ h.seen = 0 /\ t = r
    \/ /\ h.pc = "check" /\ a.kind = "register" /\ h.seen = 0
       /\ Allowed(a, r) /\ t = MadeSilently(c, a, r)
    \/ /\ h.pc = "load" /\ a.kind = "plan"
       /\ r.status # "none" /\ r.plan = NoPlan /\ t = [r EXCEPT !.plan = c]
    \/ h.pc = "load" /\ a.kind \in Moving /\ t = r
    \/ /\ h.pc = "conclude" /\ Concludes(a)
       /\ Allowed(a, r) /\ Current(a, h, r) /\ t = r
    \/ /\ h.pc = "update" /\ a.kind \in Moving
       /\ Allowed(a, r) /\ Current(a, h, r)
       /\ t = Concluded(a, r)
    \/ h.pc = "audit" /\ Allowed(a, r) /\ Current(a, h, r) /\ t = MadeSilently(c, a, r)
    \/ h.pc = "commit" /\ r.status # "none" /\ t = r
    \/ h.pc = "commit" /\ Allowed(a, r) /\ Current(a, h, r) /\ t = Made(c, a, r)

-----------------------------------------------------------------------------
(* The invariant *)

OnFile(image) ==
    \A l \in Lots : image[l].status # "none" => image[SupplierOf[l]].status # "none"

HandlersGood ==
    \A c \in Clients :
        /\ handler[c].pc # "idle" =>
              GoodIntent(intent[c]) /\ handler[c].item <= Len(intent[c].items)
        /\ handler[c].pc = "waiting" => handler[c].seen = 0

WorkOK ==
    \A c \in Clients : conn = c /\ handler[c].pc \in InTx =>
        /\ \A e \in Entities : e # Item(c) => tx[e] = rows[e]
        /\ Stage(c, intent[c], handler[c], rows[Item(c)], tx[Item(c)])

RequestInv ==
    /\ RequestTypeOK
    /\ CommittedRowsAreWhole
    /\ OnFile(tx)
    /\ HandlersGood
    /\ WorkOK

-----------------------------------------------------------------------------
(* Rows *)

LEMMA NewRowIsWhole ==
    Absent \in Row /\ Whole(Absent) /\ NewRow \in Row /\ Whole(NewRow)
<1>1. Absent \in Row
  BY DEF Absent, Row, LotStatus
<1>2. NewRow \in Row
  BY <1>1 DEF Absent, NewRow, Row, LotStatus
<1>3. Whole(Absent)
  BY DEF Absent, Whole
<1>4. Whole(NewRow)
  BY DEF Absent, NewRow, Whole
<1> QED
  BY <1>1, <1>2, <1>3, <1>4

LEMMA CountersGrow ==
    ASSUME NEW r \in Row
    PROVE  /\ r.version + 1 \in Nat /\ r.events + 1 \in Nat /\ r.planEvents + 1 \in Nat
           /\ r.results # 2 => r.results + 1 \in 0..2
           /\ r.conclusions # 2 => r.conclusions + 1 \in 0..2
BY DEF Row

\* A whole request makes a whole row of a whole row, and one on file.
LEMMA MadeIsWhole ==
    ASSUME NEW c \in Clients, NEW a, GoodIntent(a), NEW r \in Row, Whole(r), Allowed(a, r)
    PROVE  Made(c, a, r) \in Row /\ Whole(Made(c, a, r)) /\ Made(c, a, r).status # "none"
<1>1. CASE a.kind \in Creating
  BY <1>1, NewRowIsWhole DEF Made, NewRow, Absent
<1>2. CASE a.kind = "plan"
  <2>1. r.plan = NoPlan /\ r.status = "registered"
    BY <1>2 DEF Allowed, Creating, Moving
  <2>2. c \in PlanNos \cup {NoPlan} /\ c # NoPlan
    BY RequestAssumption, AtomicAssumption
  <2>3. Made(c, a, r) = [r EXCEPT !.plan = c, !.planEvents = @ + 1]
    BY <1>2 DEF Made, Creating
  <2>4. [r EXCEPT !.plan = c, !.planEvents = @ + 1] \in Row
    BY <2>2, CountersGrow DEF Row
  <2>5. Whole([r EXCEPT !.plan = c, !.planEvents = @ + 1])
    BY <2>1, <2>2 DEF Row, Whole
  <2> QED
    BY <2>1, <2>3, <2>4, <2>5 DEF Row
<1>3. CASE Concludes(a)
  <2> DEFINE m == [r EXCEPT !.status = "judged", !.version = @ + 1, !.events = @ + 1,
                            !.results = @ + 1, !.conclusions = @ + 1]
  <2>1. r.status # "none" /\ r.results # 2 /\ r.conclusions # 2
    BY <1>3 DEF Allowed, Creating, Concludes, RoundOpen, Whole, Row
  <2>2. Made(c, a, r) = m
    BY <1>3 DEF Made, Creating, Concludes
  <2>3. m \in Row
    <3>1. "judged" \in LotStatus
      BY DEF LotStatus
    <3> QED
      BY <2>1, <3>1, CountersGrow DEF Row
  <2>4. Whole(m) /\ m.status # "none"
    BY <2>1 DEF Row, Whole
  <2> QED
    BY <2>2, <2>3, <2>4
<1>4. CASE a.kind \in Moving /\ ~Concludes(a)
  <2> DEFINE m == [r EXCEPT !.status = a.next, !.version = @ + 1, !.events = @ + 1]
  <2>1. r.status # "none" /\ a.next \in LotStatus \ {"none"}
    BY <1>4 DEF Allowed, Creating, Moving, CanTransitionTo, LotStatus
  <2>2. Made(c, a, r) = m
    BY <1>4 DEF Made, Creating, Moving
  <2>3. m \in Row
    BY <2>1, CountersGrow DEF Row
  <2>4. Whole(m) /\ m.status # "none"
    BY <2>1 DEF Row, Whole
  <2> QED
    BY <2>2, <2>3, <2>4
<1> QED
  BY <1>1, <1>2, <1>3, <1>4 DEF Allowed

\* Every image on the way is typed, and on file if the row was or is made.
LEMMA StageIsTyped ==
    ASSUME NEW c \in Clients, NEW a, GoodIntent(a), NEW h, NEW r \in Row, Whole(r),
           NEW t, Stage(c, a, h, r, t)
    PROVE  t \in Row
<1>1. Allowed(a, r) => MadeSilently(c, a, r) \in Row
  BY MadeIsWhole DEF MadeSilently, Row
<1>2. Allowed(a, r) /\ Concludes(a) => [r EXCEPT !.conclusions = @ + 1] \in Row
  BY DEF Allowed, Creating, Concludes, RoundOpen, Row
<1>3. [r EXCEPT !.plan = c] \in Row
  BY RequestAssumption DEF Row
<1> QED
  BY <1>1, <1>2, <1>3, MadeIsWhole DEF Stage, Concluded

\* The rows that the single statements write.
LEMMA SilentPlan ==
    ASSUME NEW c \in Clients, NEW a, a.kind = "plan", NEW r \in Row
    PROVE  MadeSilently(c, a, r) = [r EXCEPT !.plan = c]
<1>1. Made(c, a, r) = [r EXCEPT !.plan = c, !.planEvents = @ + 1]
  BY DEF Made, Creating
<1> QED
  BY <1>1 DEF MadeSilently, Row

LEMMA SilentMove ==
    ASSUME NEW c \in Clients, NEW a, a.kind \in Moving, NEW r \in Row
    PROVE  MadeSilently(c, a, r) = Updated(a, Concluded(a, r))
<1>1. CASE Concludes(a)
  <2>1. Made(c, a, r) = [r EXCEPT !.status = "judged", !.version = @ + 1, !.events = @ + 1,
                                  !.results = @ + 1, !.conclusions = @ + 1]
    BY <1>1 DEF Made, Creating, Moving
  <2> QED
    BY <1>1, <2>1 DEF MadeSilently, Updated, Concluded, Concludes, Row
<1>2. CASE ~Concludes(a)
  <2>1. Made(c, a, r) = [r EXCEPT !.status = a.next, !.version = @ + 1, !.events = @ + 1]
    BY <1>2 DEF Made, Creating, Moving
  <2> QED
    BY <1>2, <2>1 DEF MadeSilently, Updated, Concluded, Row
<1> QED
  BY <1>1, <1>2

LEMMA AuditedRow ==
    ASSUME NEW c \in Clients, NEW a, GoodIntent(a), NEW r \in Row, Whole(r), Allowed(a, r)
    PROVE  Made(c, a, r) = Audited(a, MadeSilently(c, a, r))
<1> DEFINE m == Made(c, a, r)
<1>1. m \in Row
  BY MadeIsWhole
<1>2. CASE a.kind = "plan"
  <2>1. m = [r EXCEPT !.plan = c, !.planEvents = @ + 1]
    BY <1>2 DEF Made, Creating
  <2>2. m.events = r.events /\ m.planEvents = r.planEvents + 1
    BY <2>1 DEF Row
  <2> HIDE DEF m
  <2> QED
    BY <1>1, <1>2, <2>2 DEF MadeSilently, Audited, Row, m
<1>3. CASE a.kind # "plan"
  <2>1. m.events = r.events + 1 /\ m.planEvents = r.planEvents
    <3>1. CASE a.kind \in Creating
      <4>1. m = NewRow /\ r.events = 0 /\ r.planEvents = 0
        BY <3>1 DEF Made, Allowed, Creating, Moving, Whole
      <4> QED
        BY <4>1 DEF NewRow, Absent
    <3>2. CASE a.kind \in Moving
      BY <3>2 DEF Made, Creating, Moving, Row
    <3> QED
      BY <1>3, <3>1, <3>2 DEF Allowed
  <2> HIDE DEF m
  <2> QED
    BY <1>1, <1>3, <2>1 DEF MadeSilently, Audited, Row, m
<1> QED
  BY <1>2, <1>3

-----------------------------------------------------------------------------
(* Steps of handlers *)

\* What the invariant says of a client whose request is under way.
LEMMA RequestFacts ==
    ASSUME RequestInv, NEW c \in Clients, handler[c].pc # "idle"
    PROVE  /\ GoodIntent(intent[c])
           /\ Item(c) \in Entities
           /\ intent[c].kind = "supplier" => Item(c) \in Suppliers /\ Item(c) \notin Lots
           /\ intent[c].kind # "supplier" => Item(c) \in Lots
           /\ rows[Item(c)] \in Row /\ Whole(rows[Item(c)])
           /\ handler[c] \in HandlerRow
<1>1. GoodIntent(intent[c]) /\ handler[c].item <= Len(intent[c].items)
  BY DEF RequestInv, HandlersGood
<1>2. handler[c] \in HandlerRow
  BY DEF RequestInv, RequestTypeOK
<1>3. handler[c].item \in 1..Len(intent[c].items)
  BY <1>1, <1>2 DEF GoodIntent, HandlerRow
<1>4. Item(c) \in (IF intent[c].kind = "supplier" THEN Suppliers ELSE Lots)
  BY <1>1, <1>3 DEF GoodIntent, Item
<1>5. Item(c) \in Entities
  BY <1>4 DEF Entities
<1>6. rows[Item(c)] \in Row /\ Whole(rows[Item(c)])
  BY <1>5 DEF RequestInv, RequestTypeOK, CommittedRowsAreWhole
<1> QED
  BY <1>1, <1>2, <1>4, <1>5, <1>6, AtomicAssumption

LEMMA ImageTyped ==
    ASSUME RequestInv, NEW c \in Clients, handler[c].pc \in InTx, conn = c
    PROVE  /\ Stage(c, intent[c], handler[c], rows[Item(c)], tx[Item(c)])
           /\ \A e \in Entities : e # Item(c) => tx[e] = rows[e]
           /\ tx[Item(c)] \in Row
<1>1. handler[c].pc # "idle"
  BY DEF InTx
<1> QED
  BY <1>1, RequestFacts DEF RequestInv, RequestTypeOK, WorkOK

\* One more statement of the open transaction.
LEMMA StatementStep ==
    ASSUME RequestInv, NEW c \in Clients, conn = c, handler[c].pc \in InTx,
           NEW h \in HandlerRow, h.pc \in InTx, h.item = handler[c].item,
           NEW row,
           Stage(c, intent[c], h, rows[Item(c)], row),
           OnFile([tx EXCEPT ![Item(c)] = row]),
           handler' = [handler EXCEPT ![c] = h],
           tx' = [tx EXCEPT ![Item(c)] = row],
           UNCHANGED <<up, rows, conn, intent, gone, tries, commits, faults>>
    PROVE  RequestInv'
<1>1. handler[c].pc # "idle" /\ h.pc # "idle"
  BY DEF InTx
<1>2. row \in Row
  BY <1>1, RequestFacts, StageIsTyped
<1>3. RequestTypeOK'
  <2>1. tx' \in [Entities -> Row]
    BY <1>2 DEF RequestInv, RequestTypeOK
  <2>2. handler' \in [Clients -> HandlerRow]
    BY DEF RequestInv, RequestTypeOK
  <2>3. conn' # NoClient
    BY RequestAssumption
  <2> QED
    BY <2>1, <2>2, <2>3 DEF RequestInv, RequestTypeOK
<1>4. CommittedRowsAreWhole'
  BY DEF RequestInv, CommittedRowsAreWhole
<1>5. OnFile(tx')
  OBVIOUS
<1>6. HandlersGood'
  <2>1. h.pc # "waiting"
    BY DEF InTx
  <2> QED
    BY <1>1, <2>1 DEF RequestInv, RequestTypeOK, HandlersGood
<1>7. WorkOK'
  <2> SUFFICES ASSUME NEW d \in Clients, conn' = d, handler'[d].pc \in InTx
               PROVE  /\ \A e \in Entities : e # Item(d)' => tx'[e] = rows'[e]
                      /\ Stage(d, intent'[d], handler'[d], rows'[Item(d)'], tx'[Item(d)'])
    BY DEF WorkOK
  <2>1. d = c /\ handler'[c] = h
    BY DEF RequestInv, RequestTypeOK
  <2>2. Item(c)' = Item(c) /\ Item(c) \in Entities
    BY <1>1, <2>1, RequestFacts DEF Item
  <2>3. tx'[Item(c)] = row /\ \A e \in Entities : e # Item(c) => tx'[e] = tx[e]
    BY <2>2 DEF RequestInv, RequestTypeOK
  <2> QED
    BY <2>1, <2>2, <2>3, ImageTyped
<1> QED
  BY <1>3, <1>4, <1>5, <1>6, <1>7 DEF RequestInv, OnFile

\* The next statement of a handler.
LEMMA NextStatement ==
    ASSUME NEW h \in HandlerRow, NEW pc \in InTx, NEW seen \in Nat
    PROVE  /\ [h EXCEPT !.pc = pc] \in HandlerRow
           /\ [h EXCEPT !.pc = pc].pc = pc
           /\ [h EXCEPT !.pc = pc].item = h.item
           /\ [h EXCEPT !.pc = pc].seen = h.seen
           /\ [h EXCEPT !.seen = seen, !.pc = pc] \in HandlerRow
           /\ [h EXCEPT !.seen = seen, !.pc = pc].pc = pc
           /\ [h EXCEPT !.seen = seen, !.pc = pc].item = h.item
           /\ [h EXCEPT !.seen = seen, !.pc = pc].seen = seen
BY DEF HandlerRow, Active

LEMMA OnFileKept ==
    ASSUME RequestInv, NEW e \in Entities, NEW row, row.status # "none",
           tx[e].status # "none" \/ e \notin Lots \/ tx[SupplierOf[e]].status # "none"
    PROVE  OnFile([tx EXCEPT ![e] = row])
<1> DEFINE image == [tx EXCEPT ![e] = row]
<1>1. ASSUME NEW l \in Lots, image[l].status # "none"
      PROVE  image[SupplierOf[l]].status # "none"
  <2>1. l \in Entities /\ SupplierOf[l] \in Entities /\ tx \in [Entities -> Row]
    BY AtomicAssumption DEF Entities, RequestInv, RequestTypeOK
  <2>2. tx[SupplierOf[l]].status # "none"
    BY <1>1, <2>1 DEF RequestInv, OnFile
  <2> QED
    BY <2>1, <2>2
<1> QED
  BY <1>1 DEF OnFile

\* A statement that writes a row, and one that leaves the image as it is.
LEMMA WriteKeepsInv ==
    ASSUME RequestInv, NEW c \in Clients, NEW here, At(c, here), here \in InTx,
           NEW pc \in InTx, NEW row, Write(c, row, pc), row.status # "none",
           \/ tx[Item(c)].status # "none"
           \/ Item(c) \notin Lots
           \/ tx[SupplierOf[Item(c)]].status # "none",
           Stage(c, intent[c], [handler[c] EXCEPT !.pc = pc], rows[Item(c)], row)
    PROVE  RequestInv'
<1>1. conn = c /\ handler[c].pc \in InTx /\ handler[c].pc # "idle"
  BY DEF At, Open, InTx
<1>2. Item(c) \in Entities /\ handler[c] \in HandlerRow
  BY <1>1, RequestFacts
<1> DEFINE h == [handler[c] EXCEPT !.pc = pc]
<1>3. h \in HandlerRow /\ h.pc \in InTx /\ h.item = handler[c].item
  BY <1>2, NextStatement
<1>4. handler' = [handler EXCEPT ![c] = h]
  BY DEF Write, Goto, RequestInv, RequestTypeOK
<1>5. OnFile([tx EXCEPT ![Item(c)] = row])
  BY <1>2, OnFileKept
<1> HIDE DEF h
<1> QED
  BY <1>1, <1>3, <1>4, <1>5, StatementStep DEF Write, h

LEMMA ContinueKeepsInv ==
    ASSUME RequestInv, NEW c \in Clients, NEW here, At(c, here), here \in InTx,
           NEW h \in HandlerRow, h.pc \in InTx, h.item = handler[c].item,
           Stage(c, intent[c], h, rows[Item(c)], tx[Item(c)]),
           handler' = [handler EXCEPT ![c] = h],
           UNCHANGED <<up, rows, tx, conn, intent, gone, tries, commits, faults>>
    PROVE  RequestInv'
<1>1. conn = c /\ handler[c].pc \in InTx
  BY DEF At, Open
<1>2. tx = [tx EXCEPT ![Item(c)] = tx[Item(c)]]
  BY DEF RequestInv, RequestTypeOK
<1>3. OnFile([tx EXCEPT ![Item(c)] = tx[Item(c)]])
  BY <1>2 DEF RequestInv
<1> QED
  BY <1>1, <1>2, <1>3, StatementStep

LEMMA InsertKeepsInv ==
    ASSUME RequestInv, NEW c \in Clients, Insert(c)
    PROVE  RequestInv'
<1> DEFINE a == intent[c]
           r == rows[Item(c)]
<1>1. At(c, "insert") /\ conn = c /\ handler[c].pc = "insert" /\ a.kind \in Creating
  BY DEF Insert, At, Open, Creating
<1>2. handler[c].pc \in InTx /\ handler[c].pc # "idle" /\ "insert" \in InTx
  BY <1>1 DEF InTx
<1>3. /\ GoodIntent(a) /\ r \in Row /\ Whole(r) /\ handler[c] \in HandlerRow
      /\ a.kind = "supplier" => Item(c) \notin Lots
      /\ a.kind # "supplier" => Item(c) \in Lots
  BY <1>2, RequestFacts
<1>4. tx[Item(c)] = r /\ handler[c].seen = 0
  BY <1>1, <1>2, ImageTyped DEF Stage
<1>5. CASE /\ r.status = "none"
           /\ Item(c) \in Lots => tx[SupplierOf[Item(c)]].status # "none"
           /\ Write(c, [NewRow EXCEPT !.events = 0],
                    IF Item(c) \in Lots THEN "check" ELSE "audit")
  <2> DEFINE pc == IF Item(c) \in Lots THEN "check" ELSE "audit"
             h == [handler[c] EXCEPT !.pc = pc]
             row == [NewRow EXCEPT !.events = 0]
  <2>1. pc \in InTx
    BY DEF InTx
  <2>2. h.pc = pc /\ h.seen = 0
    BY <1>3, <1>4, <2>1, NextStatement DEF HandlerRow
  <2>3. Allowed(a, r) /\ Current(a, h, r)
    BY <1>1, <1>3, <1>5, <2>2 DEF Allowed, Current, GoodIntent, Whole
  <2>4. row = MadeSilently(c, a, r)
    <3>1. r.events = 0 /\ r.planEvents = 0
      BY <1>3, <1>5 DEF Whole
    <3>2. Made(c, a, r) = NewRow
      BY <1>1 DEF Made
    <3>3. NewRow \in Row /\ NewRow.planEvents = 0
      BY NewRowIsWhole DEF NewRow, Absent
    <3>4. [NewRow EXCEPT !.events = 0, !.planEvents = 0] = row
      BY <3>3 DEF Row
    <3> QED
      BY <3>1, <3>2, <3>4 DEF MadeSilently
  <2>5. row.status # "none"
    BY DEF NewRow, Absent
  <2>6. Item(c) \in Lots => a.kind = "register"
    BY <1>1, <1>3 DEF Creating
  <2> HIDE DEF h, row
  <2>7. Stage(c, a, h, r, row)
    BY <2>2, <2>3, <2>4, <2>6 DEF Stage
  <2> QED
    BY <1>1, <1>2, <1>5, <2>1, <2>5, <2>7, WriteKeepsInv DEF h, row
<1>6. CASE r.status # "none" /\ Continue(c, "commit")
  <2> DEFINE h == [handler[c] EXCEPT !.pc = "commit"]
  <2>1. "commit" \in InTx
    BY DEF InTx
  <2>2. h \in HandlerRow /\ h.pc = "commit" /\ h.item = handler[c].item
    BY <1>3, <2>1, NextStatement
  <2>3. handler' = [handler EXCEPT ![c] = h]
    BY <1>6 DEF Continue, Goto, RequestInv, RequestTypeOK
  <2> HIDE DEF h
  <2>4. Stage(c, a, h, r, tx[Item(c)])
    BY <1>4, <1>6, <2>2 DEF Stage
  <2> QED
    BY <1>1, <1>2, <1>6, <2>1, <2>2, <2>3, <2>4, ContinueKeepsInv DEF Continue
<1> QED
  BY <1>4, <1>5, <1>6 DEF Insert

LEMMA CheckLotKeepsInv ==
    ASSUME RequestInv, NEW c \in Clients, CheckLot(c)
    PROVE  RequestInv'
<1> DEFINE a == intent[c]
           r == rows[Item(c)]
           h == [handler[c] EXCEPT !.pc = "audit"]
<1>1. At(c, "check") /\ conn = c /\ handler[c].pc = "check"
  BY DEF CheckLot, At, Open
<1>2. /\ handler[c].pc \in InTx /\ handler[c].pc # "idle"
      /\ "check" \in InTx /\ "audit" \in InTx
  BY <1>1 DEF InTx
<1>3. GoodIntent(a) /\ r \in Row /\ Whole(r) /\ handler[c] \in HandlerRow
  BY <1>2, RequestFacts
<1>4. /\ a.kind = "register" /\ handler[c].seen = 0
      /\ Allowed(a, r) /\ tx[Item(c)] = MadeSilently(c, a, r)
  BY <1>1, <1>2, ImageTyped DEF Stage
<1>5. h \in HandlerRow /\ h.pc = "audit" /\ h.item = handler[c].item /\ h.seen = 0
  BY <1>2, <1>3, <1>4, NextStatement
<1>6. handler' = [handler EXCEPT ![c] = h]
  BY DEF CheckLot, Continue, Goto, RequestInv, RequestTypeOK
<1> HIDE DEF h
<1>7. Current(a, h, r)
  BY <1>3, <1>4, <1>5 DEF Current, Allowed, Creating, Moving, GoodIntent, Whole
<1>8. Stage(c, a, h, r, tx[Item(c)])
  BY <1>4, <1>5, <1>7 DEF Stage
<1> QED
  BY <1>1, <1>2, <1>5, <1>6, <1>8, ContinueKeepsInv DEF CheckLot, Continue

LEMMA InsertPlanKeepsInv ==
    ASSUME RequestInv, NEW c \in Clients, InsertPlan(c)
    PROVE  RequestInv'
<1> DEFINE a == intent[c]
           r == rows[Item(c)]
<1>1. At(c, "insert") /\ conn = c /\ handler[c].pc = "insert" /\ a.kind = "plan"
  BY DEF InsertPlan, At, Open
<1>2. /\ handler[c].pc \in InTx /\ handler[c].pc # "idle"
      /\ "insert" \in InTx /\ "load" \in InTx /\ "commit" \in InTx
  BY <1>1 DEF InTx
<1>3. r \in Row /\ Whole(r) /\ handler[c] \in HandlerRow
  BY <1>2, RequestFacts
<1>4. tx[Item(c)] = r
  BY <1>1, <1>2, ImageTyped DEF Stage
<1>5. CASE r.status # "none" /\ r.plan = NoPlan /\ Write(c, [r EXCEPT !.plan = c], "load")
  <2> DEFINE h == [handler[c] EXCEPT !.pc = "load"]
             row == [r EXCEPT !.plan = c]
  <2>1. h.pc = "load"
    BY <1>2, <1>3, NextStatement
  <2>2. row.status # "none"
    BY <1>3, <1>5 DEF Row
  <2> HIDE DEF h, row
  <2>3. Stage(c, a, h, r, row)
    BY <1>1, <1>5, <2>1 DEF Stage, row
  <2> QED
    BY <1>1, <1>2, <1>4, <1>5, <2>2, <2>3, WriteKeepsInv DEF h, row
<1>6. CASE r.plan = c /\ Continue(c, "commit")
  <2> DEFINE h == [handler[c] EXCEPT !.pc = "commit"]
  <2>1. h \in HandlerRow /\ h.pc = "commit" /\ h.item = handler[c].item
    BY <1>2, <1>3, NextStatement
  <2>2. handler' = [handler EXCEPT ![c] = h]
    BY <1>6 DEF Continue, Goto, RequestInv, RequestTypeOK
  <2> HIDE DEF h
  <2>3. r.status # "none"
    BY <1>3, <1>6, AtomicAssumption, RequestAssumption DEF Whole
  <2>4. Stage(c, a, h, r, tx[Item(c)])
    BY <1>4, <2>1, <2>3 DEF Stage
  <2> QED
    BY <1>1, <1>2, <1>6, <2>1, <2>2, <2>4, ContinueKeepsInv DEF Continue
<1> QED
  BY <1>4, <1>5, <1>6 DEF InsertPlan

LEMMA LoadLotKeepsInv ==
    ASSUME RequestInv, NEW c \in Clients, LoadLot(c)
    PROVE  RequestInv'
<1> DEFINE a == intent[c]
           r == rows[Item(c)]
           t == tx[Item(c)]
           next == IF a.kind = "plan" THEN "audit"
                   ELSE IF Concludes(a) THEN "conclude" ELSE "update"
           h == [handler[c] EXCEPT !.seen = t.version, !.pc = next]
<1>1. At(c, "load") /\ conn = c /\ handler[c].pc = "load"
  BY DEF LoadLot, At, Open
<1>2. handler[c].pc \in InTx /\ handler[c].pc # "idle" /\ "load" \in InTx /\ next \in InTx
  BY <1>1 DEF InTx
<1>3. r \in Row /\ handler[c] \in HandlerRow /\ t \in Row /\ GoodIntent(a)
  BY <1>1, <1>2, RequestFacts, ImageTyped
<1>4. /\ t.status # "none" /\ a.expected \in {0, t.version}
      /\ IF a.kind = "plan" THEN t.status = "registered"
         ELSE IF Concludes(a) THEN RoundOpen(t) ELSE CanTransitionTo(t.status, a.next)
      /\ a.kind = "reject_retest" => t.status = "retesting"
  BY DEF LoadLot, VersionExpected
<1>5. \/ a.kind = "plan" /\ r.plan = NoPlan /\ t = [r EXCEPT !.plan = c]
      \/ a.kind \in Moving /\ t = r
  BY <1>1, <1>2, ImageTyped DEF Stage
<1>6. t.version \in Nat /\ t.version = r.version /\ t.status = r.status
  BY <1>3, <1>5 DEF Row
<1> HIDE DEF next
<1>7. h \in HandlerRow /\ h.pc = next /\ h.item = handler[c].item /\ h.seen = r.version
  BY <1>2, <1>3, <1>6 DEF HandlerRow, Active
<1>8. handler' = [handler EXCEPT ![c] = h]
  BY DEF LoadLot, RequestInv, RequestTypeOK, next
<1>9. UNCHANGED <<up, rows, tx, conn, intent, gone, tries, commits, faults>>
  BY DEF LoadLot
<1> HIDE DEF h
<1>10. Current(a, h, r)
  BY <1>4, <1>6, <1>7 DEF Current
<1>11. Allowed(a, r)
  BY <1>3, <1>4, <1>5, <1>6 DEF Allowed, Moving, Concludes, GoodIntent
<1>12. Stage(c, a, h, r, t)
  <2>1. CASE a.kind = "plan"
    <3>1. t = MadeSilently(c, a, r)
      BY <1>3, <1>5, <2>1, SilentPlan DEF Moving
    <3> QED
      BY <1>7, <1>10, <1>11, <2>1, <3>1 DEF Stage, next
  <2>2. CASE a.kind \in Moving
    <3>1. t = r /\ a.kind # "plan"
      BY <1>5, <2>2 DEF Moving
    <3> QED
      BY <1>7, <1>10, <1>11, <2>2, <3>1 DEF Stage, Concluded, next
  <2> QED
    BY <1>5, <2>1, <2>2
<1> HIDE DEF t
<1> QED
  BY <1>1, <1>2, <1>7, <1>8, <1>9, <1>12, ContinueKeepsInv DEF t

LEMMA ConcludeKeepsInv ==
    ASSUME RequestInv, NEW c \in Clients, Conclude(c)
    PROVE  RequestInv'
<1> DEFINE a == intent[c]
           r == rows[Item(c)]
           h == [handler[c] EXCEPT !.pc = "update"]
           row == Concluded(a, r)
<1>1. At(c, "conclude") /\ conn = c /\ handler[c].pc = "conclude"
  BY DEF Conclude, At, Open
<1>2. /\ handler[c].pc \in InTx /\ handler[c].pc # "idle"
      /\ "conclude" \in InTx /\ "update" \in InTx
  BY <1>1 DEF InTx
<1>3. r \in Row /\ handler[c] \in HandlerRow
  BY <1>2, RequestFacts
<1>4. /\ Concludes(a) /\ Allowed(a, r)
      /\ Current(a, handler[c], r) /\ tx[Item(c)] = r
  BY <1>1, <1>2, ImageTyped DEF Stage
<1>5. r.status # "none" /\ row.status # "none"
  BY <1>3, <1>4 DEF Allowed, Creating, Concludes, RoundOpen, Row, Concluded
<1>6. h.pc = "update" /\ h.seen = handler[c].seen
  BY <1>2, <1>3, NextStatement
<1>7. Write(c, row, "update")
  BY <1>4 DEF Conclude, Concluded
<1> HIDE DEF h
<1>8. Stage(c, a, h, r, row)
  BY <1>4, <1>6 DEF Stage, Current, Concludes, Moving
<1> QED
  BY <1>1, <1>2, <1>4, <1>5, <1>7, <1>8, WriteKeepsInv DEF h

LEMMA UpdateLotKeepsInv ==
    ASSUME RequestInv, NEW c \in Clients, UpdateLot(c)
    PROVE  RequestInv'
<1> DEFINE a == intent[c]
           r == rows[Item(c)]
           t == tx[Item(c)]
           h == [handler[c] EXCEPT !.pc = "audit"]
           row == Updated(a, t)
<1>1. At(c, "update") /\ conn = c /\ handler[c].pc = "update"
  BY DEF UpdateLot, At, Open
<1>2. /\ handler[c].pc \in InTx /\ handler[c].pc # "idle"
      /\ "update" \in InTx /\ "audit" \in InTx
  BY <1>1 DEF InTx
<1>3. GoodIntent(a) /\ r \in Row /\ Whole(r) /\ handler[c] \in HandlerRow
  BY <1>2, RequestFacts
<1>4. /\ a.kind \in Moving /\ Allowed(a, r) /\ Current(a, handler[c], r)
      /\ t = Concluded(a, r)
  BY <1>1, <1>2, ImageTyped DEF Stage
<1>5. row = MadeSilently(c, a, r)
  BY <1>3, <1>4, SilentMove
<1>6. row.status # "none" /\ t.status # "none"
  <2>1. t.status = r.status /\ r.status # "none"
    BY <1>3, <1>4 DEF Allowed, Creating, Moving, RoundOpen, CanTransitionTo, Concluded, Row
  <2>2. MadeSilently(c, a, r).status = Made(c, a, r).status
    BY <1>3, <1>4, MadeIsWhole DEF MadeSilently, Row
  <2> QED
    BY <1>3, <1>4, <1>5, <2>1, <2>2, MadeIsWhole
<1>7. h.pc = "audit" /\ h.seen = handler[c].seen
  BY <1>2, <1>3, NextStatement
<1>8. Write(c, row, "audit")
  BY DEF UpdateLot, Updated
<1> HIDE DEF h
<1>9. Stage(c, a, h, r, row)
  BY <1>4, <1>5, <1>7 DEF Stage, Current
<1> QED
  BY <1>1, <1>2, <1>6, <1>8, <1>9, WriteKeepsInv DEF h

LEMMA AuditKeepsInv ==
    ASSUME RequestInv, NEW c \in Clients, Audit(c)
    PROVE  RequestInv'
<1> DEFINE a == intent[c]
           r == rows[Item(c)]
           t == tx[Item(c)]
           h == [handler[c] EXCEPT !.pc = "commit"]
           row == Audited(a, t)
<1>1. At(c, "audit") /\ conn = c /\ handler[c].pc = "audit"
  BY DEF Audit, At, Open
<1>2. /\ handler[c].pc \in InTx /\ handler[c].pc # "idle"
      /\ "audit" \in InTx /\ "commit" \in InTx
  BY <1>1 DEF InTx
<1>3. GoodIntent(a) /\ r \in Row /\ Whole(r) /\ handler[c] \in HandlerRow
  BY <1>2, RequestFacts
<1>4. Allowed(a, r) /\ Current(a, handler[c], r) /\ t = MadeSilently(c, a, r)
  BY <1>1, <1>2, ImageTyped DEF Stage
<1>5. row = Made(c, a, r) /\ row.status # "none"
  <2>1. row = Made(c, a, r)
    BY <1>3, <1>4, AuditedRow
  <2> QED
    BY <1>3, <1>4, <2>1, MadeIsWhole
<1>6. t.status # "none"
  <2>1. MadeSilently(c, a, r).status = Made(c, a, r).status
    BY <1>3, <1>4, MadeIsWhole DEF MadeSilently, Row
  <2> QED
    BY <1>3, <1>4, <2>1, MadeIsWhole
<1>7. h.pc = "commit" /\ h.seen = handler[c].seen
  BY <1>2, <1>3, NextStatement
<1>8. Write(c, row, "commit")
  BY DEF Audit, Audited
<1> HIDE DEF h
<1>9. Stage(c, a, h, r, row)
  BY <1>4, <1>5, <1>7 DEF Stage, Current
<1> QED
  BY <1>1, <1>2, <1>5, <1>6, <1>8, <1>9, WriteKeepsInv DEF h

-----------------------------------------------------------------------------
(* Steps outside a transaction, and the ends of transactions *)

\* The handler of c is replaced by one that has no open transaction.
LEMMA HandlerStep ==
    ASSUME RequestInv, NEW c \in Clients,
           NEW h \in HandlerRow, h.pc \notin InTx,
           h.pc = "waiting" => h.seen = 0,
           NEW a \in Intent \cup {NoIntent},
           h.pc # "idle" => GoodIntent(a) /\ h.item <= Len(a.items),
           handler' = [handler EXCEPT ![c] = h],
           intent' = [intent EXCEPT ![c] = a],
           UNCHANGED <<up, rows, commits>>,
           \/ UNCHANGED <<tx, conn>>
           \/ tx' = rows /\ conn' = NoClient,
           gone' \in [Clients -> BOOLEAN],
           tries' \in [Clients -> 0..MaxTries],
           faults' \in 0..MaxFaults
    PROVE  RequestInv'
<1>1. RequestTypeOK'
  <2>1. handler' \in [Clients -> HandlerRow] /\ intent' \in [Clients -> Intent \cup {NoIntent}]
    BY DEF RequestInv, RequestTypeOK
  <2> QED
    BY <2>1 DEF RequestInv, RequestTypeOK
<1>2. CommittedRowsAreWhole'
  BY DEF RequestInv, CommittedRowsAreWhole
<1>3. OnFile(tx')
  BY DEF RequestInv, CommittedRowsAreWhole, OnFile
<1>4. HandlersGood'
  BY DEF RequestInv, RequestTypeOK, HandlersGood
<1>5. WorkOK'
  <2> SUFFICES ASSUME NEW d \in Clients, conn' = d, handler'[d].pc \in InTx
               PROVE  /\ \A e \in Entities : e # Item(d)' => tx'[e] = rows'[e]
                      /\ Stage(d, intent'[d], handler'[d], rows'[Item(d)'], tx'[Item(d)'])
    BY DEF WorkOK
  <2>1. d # c /\ tx' = tx /\ conn = d
    BY RequestAssumption DEF RequestInv, RequestTypeOK
  <2>2. handler'[d] = handler[d] /\ intent'[d] = intent[d]
    BY <2>1 DEF RequestInv, RequestTypeOK
  <2>3. Item(d)' = Item(d)
    BY <2>2 DEF Item
  <2> QED
    BY <2>1, <2>2, <2>3, ImageTyped
<1> QED
  BY <1>1, <1>2, <1>3, <1>4, <1>5 DEF RequestInv, OnFile

\* Nobody holds the connection.
LEMMA PoolIsFree ==
    ASSUME RequestTypeOK', CommittedRowsAreWhole', HandlersGood',
           conn' = NoClient, tx' = rows'
    PROVE  RequestInv'
<1>1. OnFile(tx')
  BY DEF CommittedRowsAreWhole, OnFile
<1>2. WorkOK'
  BY RequestAssumption DEF WorkOK
<1> QED
  BY <1>1, <1>2 DEF RequestInv, OnFile

\* A handler after its last statement about an item.
NextItem(c, outcome) ==
    LET more == handler[c].item < Len(intent[c].items)
    IN  [handler[c] EXCEPT
            !.outcome = Append(@, outcome),
            !.seen = 0,
            !.item = IF more THEN @ + 1 ELSE @,
            !.pc = IF more THEN "waiting" ELSE "reply"]

LEMMA ItemEnds ==
    ASSUME RequestInv, NEW c \in Clients, handler[c].pc # "idle",
           NEW outcome \in Outcome, EndItem(c, outcome)
    PROVE  /\ handler' = [handler EXCEPT ![c] = NextItem(c, outcome)]
           /\ NextItem(c, outcome) \in HandlerRow
           /\ NextItem(c, outcome).pc \in {"waiting", "reply"}
           /\ NextItem(c, outcome).seen = 0
           /\ NextItem(c, outcome).item <= Len(intent[c].items)
           /\ GoodIntent(intent[c])
           /\ intent[c] \in Intent \cup {NoIntent}
           /\ intent = [intent EXCEPT ![c] = intent[c]]
<1> DEFINE h == handler[c]
           more == h.item < Len(intent[c].items)
<1>1. h \in HandlerRow /\ GoodIntent(intent[c]) /\ h.item <= Len(intent[c].items)
  BY RequestFacts DEF RequestInv, HandlersGood
<1>2. handler' = [handler EXCEPT ![c] = NextItem(c, outcome)]
  BY DEF EndItem, NextItem, RequestInv, RequestTypeOK
<1>3. Append(h.outcome, outcome) \in Seq(Outcome)
  BY <1>1 DEF HandlerRow
<1>4. h.item + 1 \in Nat \ {0} /\ (more => h.item + 1 <= Len(intent[c].items))
  BY <1>1 DEF HandlerRow, GoodIntent
<1>5. NextItem(c, outcome) \in HandlerRow
  BY <1>1, <1>3, <1>4 DEF NextItem, HandlerRow, Active
<1>6. /\ NextItem(c, outcome).pc = IF more THEN "waiting" ELSE "reply"
      /\ NextItem(c, outcome).seen = 0
      /\ NextItem(c, outcome).item = IF more THEN h.item + 1 ELSE h.item
  BY <1>1 DEF NextItem, HandlerRow
<1>7. intent = [intent EXCEPT ![c] = intent[c]] /\ intent[c] \in Intent \cup {NoIntent}
  BY DEF RequestInv, RequestTypeOK
<1> QED
  BY <1>1, <1>2, <1>4, <1>5, <1>6, <1>7

\* A transaction without effect, and its connection back in the pool or still
\* with the transaction that a panic has left open.
LEMMA FailKeepsInv ==
    ASSUME RequestInv, NEW c \in Clients, handler[c].pc # "idle",
           Fail(c), faults' \in 0..MaxFaults
    PROVE  RequestInv'
<1>1. "failed" \in Outcome
  BY DEF Outcome
<1>2. EndItem(c, "failed") /\ UNCHANGED <<up, rows, intent, gone, tries, commits>>
  BY DEF Fail, Rollback
<1>3. \/ UNCHANGED <<tx, conn>>
      \/ tx' = rows /\ conn' = NoClient
  BY DEF Fail, Rollback
<1> DEFINE h == NextItem(c, "failed")
<1>4. /\ handler' = [handler EXCEPT ![c] = h] /\ h \in HandlerRow
      /\ h.pc \in {"waiting", "reply"} /\ h.seen = 0
      /\ GoodIntent(intent[c]) /\ h.item <= Len(intent[c].items)
      /\ intent[c] \in Intent \cup {NoIntent} /\ intent' = [intent EXCEPT ![c] = intent[c]]
  BY <1>1, <1>2, ItemEnds
<1>5. h.pc \notin InTx
  BY <1>4 DEF InTx
<1>6. gone' \in [Clients -> BOOLEAN] /\ tries' \in [Clients -> 0..MaxTries]
  BY <1>2 DEF RequestInv, RequestTypeOK
<1> HIDE DEF h
<1> QED
  BY <1>2, <1>3, <1>4, <1>5, <1>6, HandlerStep

LEMMA InsertPlanPanicsKeepsInv ==
    ASSUME RequestInv, NEW c \in Clients, InsertPlanPanics(c)
    PROVE  RequestInv'
<1>1. "failed" \in Outcome /\ handler[c].pc # "idle"
  BY DEF Outcome, InsertPlanPanics, At
<1>2. EndItem(c, "failed") /\ UNCHANGED <<up, rows, tx, conn, intent, gone, tries, commits, faults>>
  BY DEF InsertPlanPanics
<1> DEFINE h == NextItem(c, "failed")
<1>3. /\ handler' = [handler EXCEPT ![c] = h] /\ h \in HandlerRow
      /\ h.pc \in {"waiting", "reply"} /\ h.seen = 0
      /\ GoodIntent(intent[c]) /\ h.item <= Len(intent[c].items)
      /\ intent[c] \in Intent \cup {NoIntent} /\ intent' = [intent EXCEPT ![c] = intent[c]]
  BY <1>1, <1>2, ItemEnds
<1>4. h.pc \notin InTx
  BY <1>3 DEF InTx
<1>5. /\ gone' \in [Clients -> BOOLEAN] /\ tries' \in [Clients -> 0..MaxTries]
      /\ faults' \in 0..MaxFaults
  BY <1>2 DEF RequestInv, RequestTypeOK
<1> HIDE DEF h
<1> QED
  BY <1>2, <1>3, <1>4, <1>5, HandlerStep

\* A handler that has not begun, and one whose answer is lost.
LEMMA FreshHandler ==
    ASSUME NEW pc \in {"waiting", "lost"}
    PROVE  /\ [NoHandler EXCEPT !.pc = pc] \in HandlerRow
           /\ [NoHandler EXCEPT !.pc = pc].pc = pc
           /\ [NoHandler EXCEPT !.pc = pc].seen = 0
           /\ [NoHandler EXCEPT !.pc = pc].item = 1
           /\ pc \notin InTx
<1>1. <<>> \in Seq(Outcome)
  OBVIOUS
<1>2. NoHandler \in HandlerRow
  BY <1>1 DEF NoHandler, HandlerRow
<1>3. pc \in Active \cup {"idle", "answered", "lost"} /\ pc \notin InTx
  BY DEF Active, InTx
<1>4. NoHandler.seen = 0 /\ NoHandler.item = 1
  BY DEF NoHandler
<1> QED
  BY <1>2, <1>3, <1>4 DEF HandlerRow

\* A request is (again) waiting to be served.
LEMMA SendKeepsInv ==
    ASSUME RequestInv, NEW c \in Clients, Send(c),
           NEW a \in Intent, GoodIntent(a), intent' = [intent EXCEPT ![c] = a]
    PROVE  RequestInv'
<1> DEFINE h == [NoHandler EXCEPT !.pc = "waiting"]
<1>1. h \in HandlerRow /\ h.pc = "waiting" /\ h.seen = 0 /\ h.item = 1
  BY FreshHandler
<1>2. h.pc \notin InTx
  BY <1>1 DEF InTx
<1>3. handler' = [handler EXCEPT ![c] = h]
  BY DEF Send
<1>4. UNCHANGED <<up, rows, tx, conn, gone, commits, faults>>
  BY DEF Send
<1>5. tries' \in [Clients -> 0..MaxTries]
  <2>1. tries[c] + 1 \in 0..MaxTries
    BY RequestAssumption DEF Send, RequestInv, RequestTypeOK
  <2> QED
    BY <2>1 DEF Send, RequestInv, RequestTypeOK
<1>6. gone' \in [Clients -> BOOLEAN] /\ faults' \in 0..MaxFaults
  BY <1>4 DEF RequestInv, RequestTypeOK
<1>7. 1 <= Len(a.items)
  BY DEF GoodIntent
<1> HIDE DEF h
<1> QED
  BY <1>1, <1>2, <1>3, <1>4, <1>5, <1>6, <1>7, HandlerStep

\* Whatever a client asks is a request about lots, or about a supplier.
LEMMA AskedIsGood ==
    ASSUME RequestInv, NEW a, a.kind \in Kinds,
           \/ a \in Creations \cup Transitions \cup BatchAccepts
           \/ a \in RetestRejections \cup Queries
    PROVE  a \in Intent /\ GoodIntent(a)
<1>1. CASE \E s \in Suppliers : a = Request("supplier", <<s>>, "none", 0)
  <2>1. PICK s \in Suppliers : a = Request("supplier", <<s>>, "none", 0)
    BY <1>1
  <2>2. a.items = <<s>> /\ a.kind = "supplier" /\ a.next = "none" /\ a.expected = 0
    BY <2>1 DEF Request
  <2>3. a \in Intent
    BY <2>1 DEF Intent, Request, Entities
  <2> QED
    BY <2>2, <2>3 DEF GoodIntent
<1>2. CASE \E k \in {"register", "plan", "reject_retest"} \cup Readers : \E l \in Lots :
              \E n \in Targets \cup {"none", "accepted", "judged"} : a = Request(k, <<l>>, n, 0)
  <2>1. PICK k \in {"register", "plan", "reject_retest"} \cup Readers, l \in Lots,
             n \in Targets \cup {"none", "accepted", "judged"} : a = Request(k, <<l>>, n, 0)
    BY <1>2
  <2>2. a.items = <<l>> /\ a.kind = k /\ a.next = n /\ a.expected = 0
    BY <2>1 DEF Request
  <2>3. a \in Intent
    BY <2>1 DEF Intent, Request, Entities
  <2>4. a.kind # "supplier" /\ a.kind # "batch"
    BY <2>2 DEF Readers
  <2> QED
    BY <2>2, <2>3, <2>4 DEF GoodIntent
<1>3. CASE a \in Transitions
  <2>1. PICK l \in Lots :
            \E next \in Targets, v \in {0, rows[l].version} :
                a = Request("move", <<l>>, next, v)
    BY <1>3 DEF Transitions
  <2>2. PICK next \in Targets, v \in {0, rows[l].version} :
            a = Request("move", <<l>>, next, v)
    BY <2>1
  <2>3. v \in Nat
    BY DEF RequestInv, RequestTypeOK, Row, Entities
  <2>4. a.items = <<l>> /\ a.kind = "move" /\ a.next = next /\ a.expected = v
    BY <2>2 DEF Request
  <2>5. a \in Intent
    BY <2>2, <2>3 DEF Intent, Request, Entities
  <2> QED
    BY <2>4, <2>5 DEF GoodIntent, Creating
<1>4. CASE a \in BatchAccepts
  <2>1. PICK b \in Batches : a = Request("batch", b, "accepted", 0)
    BY <1>4 DEF BatchAccepts
  <2>2. a.items = b /\ a.kind = "batch" /\ a.next = "accepted" /\ a.expected = 0
    BY <2>1 DEF Request
  <2>3. b \in Seq(Lots) /\ b # <<>>
    BY RequestAssumption
  <2>4. Len(b) \in Nat \ {0} /\ \A i \in 1..Len(b) : b[i] \in Lots
    BY <2>3
  <2>5. a \in Intent
    BY <2>1 DEF Intent, Request
  <2> QED
    BY <2>2, <2>4, <2>5 DEF GoodIntent
<1>5. CASE a \in Creations
  <2>1. \/ \E s \in Suppliers : a = Request("supplier", <<s>>, "none", 0)
        \/ \E k \in {"register", "plan"} : \E l \in Lots : a = Request(k, <<l>>, "none", 0)
    BY <1>5 DEF Creations
  <2> QED
    BY <1>1, <1>2, <2>1
<1>6. CASE a \in RetestRejections \cup Queries
  <2>1. \E k \in {"reject_retest"} \cup Readers : \E l \in Lots :
            \E n \in Targets \cup {"none", "accepted", "judged"} : a = Request(k, <<l>>, n, 0)
    <3>1. CASE a \in RetestRejections
      <4>1. PICK l \in Lots : a = Request("reject_retest", <<l>>, "judged", 0)
        BY <3>1 DEF RetestRejections
      <4> QED
        BY <4>1
    <3>2. CASE \E l \in Lots : a = Request("detail", <<l>>, "none", 0)
      BY <3>2 DEF Readers
    <3>3. CASE \E l \in Lots, n \in Targets \cup {"none", "accepted"} :
                  a = Request("list", <<l>>, n, 0)
      <4>1. PICK l \in Lots, n \in Targets \cup {"none", "accepted"} :
                a = Request("list", <<l>>, n, 0)
        BY <3>3
      <4> QED
        BY <4>1 DEF Readers
    <3>4. \/ a \in RetestRejections
          \/ a \in {Request("detail", <<l>>, "none", 0) : l \in Lots}
          \/ a \in {Request("list", <<l>>, n, 0) :
                       l \in Lots, n \in Targets \cup {"none", "accepted"}}
      BY <1>6 DEF Queries
    <3>5. \/ a \in RetestRejections
          \/ \E l \in Lots : a = Request("detail", <<l>>, "none", 0)
          \/ \E l \in Lots, n \in Targets \cup {"none", "accepted"} :
                  a = Request("list", <<l>>, n, 0)
      BY <3>4
    <3> QED
      BY <3>1, <3>2, <3>3, <3>5
  <2> QED
    BY <1>2, <2>1
<1> QED
  BY <1>3, <1>4, <1>5, <1>6

LEMMA AskKeepsInv ==
    ASSUME RequestInv, NEW c \in Clients, Ask(c)
    PROVE  RequestInv'
<1>1. PICK a \in Creations \cup Transitions \cup BatchAccepts \cup RetestRejections
                    \cup Queries :
          a.kind \in Kinds /\ intent' = [intent EXCEPT ![c] = a]
  BY DEF Ask
<1> QED
  BY <1>1, AskedIsGood, SendKeepsInv DEF Ask

LEMMA AskAgainKeepsInv ==
    ASSUME RequestInv, NEW c \in Clients, AskAgain(c)
    PROVE  RequestInv'
<1>1. handler[c].pc # "idle" /\ Send(c) /\ intent' = intent
  BY DEF AskAgain
<1>2. GoodIntent(intent[c]) /\ intent[c] \in Intent
  BY <1>1, RequestFacts DEF GoodIntent
<1>3. intent' = [intent EXCEPT ![c] = intent[c]]
  BY <1>1 DEF RequestInv, RequestTypeOK
<1> QED
  BY <1>1, <1>2, <1>3, SendKeepsInv

LEMMA LeaveKeepsInv ==
    ASSUME RequestInv, NEW c \in Clients, Leave(c)
    PROVE  RequestInv'
<1>1. gone' \in [Clients -> BOOLEAN]
  BY DEF Leave, RequestInv, RequestTypeOK
<1>2. UNCHANGED <<up, rows, tx, conn, intent, handler, tries, commits, faults>>
  BY DEF Leave
<1>3. RequestTypeOK' /\ CommittedRowsAreWhole' /\ OnFile(tx') /\ HandlersGood'
  BY <1>1, <1>2 DEF RequestInv, RequestTypeOK, CommittedRowsAreWhole, OnFile, HandlersGood
<1>4. WorkOK'
  BY <1>2 DEF RequestInv, WorkOK, Item
<1> QED
  BY <1>3, <1>4 DEF RequestInv, OnFile

\* BEGIN: the image is the committed rows.
LEMMA BeginKeepsInv ==
    ASSUME RequestInv, NEW c \in Clients, Begin(c)
    PROVE  RequestInv'
<1> DEFINE pc == IF intent[c].kind \in {"move", "batch", "reject_retest"} THEN "load" ELSE "insert"
           h == [handler[c] EXCEPT !.pc = pc]
<1>1. /\ handler[c].pc = "waiting" /\ handler[c].pc # "idle"
      /\ intent[c].kind \notin Readers /\ conn' = c /\ tx' = rows
      /\ UNCHANGED <<up, rows, intent, gone, tries, commits, faults>>
  BY DEF Begin
<1>2. /\ handler[c] \in HandlerRow /\ GoodIntent(intent[c])
      /\ handler[c].seen = 0 /\ handler[c].item <= Len(intent[c].items)
  BY <1>1, RequestFacts DEF RequestInv, HandlersGood
<1>3. pc \in InTx /\ pc # "idle" /\ pc # "waiting"
  BY DEF InTx
<1>4. handler' = [handler EXCEPT ![c] = h]
  BY DEF Begin, Goto, RequestInv, RequestTypeOK
<1>5. intent[c].kind \in Creating \cup Moving \cup {"plan"}
  BY <1>1, <1>2, RequestAssumption DEF GoodIntent, Intent, Creating, Moving, Readers
<1>6. pc = IF intent[c].kind \in Moving THEN "load" ELSE "insert"
  BY DEF Moving
<1> HIDE DEF pc
<1>7. h \in HandlerRow /\ h.pc = pc /\ h.item = handler[c].item /\ h.seen = 0
  BY <1>2, <1>3, NextStatement
<1> HIDE DEF h
<1>8. RequestTypeOK'
  <2>1. handler' \in [Clients -> HandlerRow]
    BY <1>4, <1>7 DEF RequestInv, RequestTypeOK
  <2>2. conn' # NoClient
    BY <1>1, RequestAssumption
  <2> QED
    BY <1>1, <2>1, <2>2 DEF RequestInv, RequestTypeOK
<1>9. CommittedRowsAreWhole' /\ OnFile(tx')
  BY <1>1 DEF RequestInv, CommittedRowsAreWhole, OnFile
<1>10. HandlersGood'
  BY <1>1, <1>2, <1>3, <1>4, <1>7 DEF RequestInv, RequestTypeOK, HandlersGood
<1>11. WorkOK'
  <2> SUFFICES ASSUME NEW d \in Clients, conn' = d, handler'[d].pc \in InTx
               PROVE  /\ \A e \in Entities : e # Item(d)' => tx'[e] = rows'[e]
                      /\ Stage(d, intent'[d], handler'[d], rows'[Item(d)'], tx'[Item(d)'])
    BY DEF WorkOK
  <2>1. d = c /\ handler'[c] = h /\ intent'[c] = intent[c]
    BY <1>1, <1>4 DEF RequestInv, RequestTypeOK
  <2>2. Stage(c, intent[c], h, rows'[Item(c)'], rows'[Item(c)'])
    BY <1>5, <1>6, <1>7 DEF Stage, Creating, Moving
  <2> QED
    BY <1>1, <2>1, <2>2
<1> QED
  BY <1>8, <1>9, <1>10, <1>11 DEF RequestInv, OnFile

LEMMA ReleaseKeepsInv ==
    ASSUME RequestInv, NEW c \in Clients, Release(c)
    PROVE  RequestInv'
<1>1. /\ conn' = NoClient /\ tx' = rows
      /\ UNCHANGED <<up, rows, intent, handler, gone, tries, commits, faults>>
  BY DEF Release
<1>2. RequestTypeOK'
  BY <1>1 DEF RequestInv, RequestTypeOK
<1>3. CommittedRowsAreWhole' /\ HandlersGood'
  BY <1>1 DEF RequestInv, CommittedRowsAreWhole, HandlersGood
<1> QED
  BY <1>1, <1>2, <1>3, PoolIsFree

LEMMA ReadKeepsInv ==
    ASSUME RequestInv, NEW c \in Clients, Read(c)
    PROVE  RequestInv'
<1> DEFINE head == IF intent[c].kind = "list" THEN Cardinality(Selected(intent[c].next))
                   ELSE rows[Item(c)].results
           body == IF intent[c].kind = "list" THEN Cardinality(Selected(intent[c].next))
                   ELSE rows[Item(c)].conclusions
           first == [handler[c] EXCEPT !.head = head, !.pc = "second"]
           second == [handler[c] EXCEPT !.body = body, !.pc = "reply", !.outcome = <<"ok">>]
<1>1. UNCHANGED <<up, rows, tx, conn, intent, gone, tries, commits, faults>>
  BY DEF Read
<1>2. handler[c].pc # "idle"
  BY DEF Read
<1>3. /\ handler[c] \in HandlerRow /\ rows[Item(c)] \in Row /\ GoodIntent(intent[c])
      /\ handler[c].item <= Len(intent[c].items)
      /\ intent[c] \in Intent \cup {NoIntent} /\ intent' = [intent EXCEPT ![c] = intent[c]]
  BY <1>1, <1>2, RequestFacts DEF RequestInv, RequestTypeOK, HandlersGood
<1>4. Cardinality(Selected(intent[c].next)) \in Nat
  <2>1. IsFiniteSet(Selected(intent[c].next))
    BY RequestAssumption, FS_Subset DEF Selected
  <2> QED
    BY <2>1, FS_CardinalityType
<1>5. head \in Nat /\ body \in Nat
  BY <1>3, <1>4 DEF Row
<1>6. <<"ok">> \in Seq(Outcome)
  BY DEF Outcome
<1>7. \/ handler' = [handler EXCEPT ![c] = first]
      \/ handler' = [handler EXCEPT ![c] = second]
  BY DEF Read, RequestInv, RequestTypeOK
<1> HIDE DEF head, body
<1>8. /\ first \in HandlerRow /\ first.pc = "second" /\ first.item = handler[c].item
      /\ second \in HandlerRow /\ second.pc = "reply" /\ second.item = handler[c].item
  BY <1>3, <1>5, <1>6 DEF HandlerRow, Active
<1>9. "second" \notin InTx /\ "reply" \notin InTx
  BY DEF InTx
<1>10. gone' \in [Clients -> BOOLEAN] /\ tries' \in [Clients -> 0..MaxTries]
       /\ faults' \in 0..MaxFaults
  BY <1>1 DEF RequestInv, RequestTypeOK
<1> HIDE DEF first, second
<1>11. CASE handler' = [handler EXCEPT ![c] = first]
  BY <1>1, <1>3, <1>8, <1>9, <1>10, <1>11, HandlerStep
<1>12. CASE handler' = [handler EXCEPT ![c] = second]
  BY <1>1, <1>3, <1>8, <1>9, <1>10, <1>12, HandlerStep
<1> QED
  BY <1>7, <1>11, <1>12

LEMMA ReplyKeepsInv ==
    ASSUME RequestInv, NEW c \in Clients, Reply(c)
    PROVE  RequestInv'
<1> DEFINE answered == [handler[c] EXCEPT !.pc = "answered"]
           lost == [NoHandler EXCEPT !.pc = "lost"]
<1>1. UNCHANGED <<up, rows, tx, conn, intent, tries, commits, faults>>
  BY DEF Reply
<1>2. handler[c].pc # "idle"
  BY DEF Reply
<1>3. /\ handler[c] \in HandlerRow /\ GoodIntent(intent[c])
      /\ handler[c].item <= Len(intent[c].items) /\ 1 <= Len(intent[c].items)
      /\ intent[c] \in Intent \cup {NoIntent} /\ intent' = [intent EXCEPT ![c] = intent[c]]
  BY <1>1, <1>2, RequestFacts DEF RequestInv, RequestTypeOK, HandlersGood, GoodIntent
<1>4. /\ answered \in HandlerRow /\ answered.pc = "answered"
      /\ answered.item = handler[c].item
      /\ lost \in HandlerRow /\ lost.pc = "lost" /\ lost.item = 1
  BY <1>3, FreshHandler DEF HandlerRow
<1>5. "answered" \notin InTx /\ "lost" \notin InTx
  BY DEF InTx
<1>6. \/ handler' = [handler EXCEPT ![c] = answered]
      \/ handler' = [handler EXCEPT ![c] = lost]
  BY DEF Reply, RequestInv, RequestTypeOK
<1>7. gone' \in [Clients -> BOOLEAN] /\ tries' \in [Clients -> 0..MaxTries]
      /\ faults' \in 0..MaxFaults
  BY <1>1 DEF Reply, RequestInv, RequestTypeOK
<1> HIDE DEF answered, lost
<1>8. CASE handler' = [handler EXCEPT ![c] = answered]
  BY <1>1, <1>3, <1>4, <1>5, <1>7, <1>8, HandlerStep
<1>9. CASE handler' = [handler EXCEPT ![c] = lost]
  BY <1>1, <1>3, <1>4, <1>5, <1>7, <1>9, HandlerStep
<1> QED
  BY <1>6, <1>8, <1>9

\* COMMIT puts the image in the place of the rows: one request carried out on
\* one row, or a replay.
LEMMA CommitMakes ==
    ASSUME RequestInv, NEW c \in Clients, Commit(c)
    PROVE  /\ conn = c /\ handler[c].pc = "commit" /\ handler[c].pc # "idle"
           /\ rows' = tx /\ tx' = tx /\ conn' = NoClient
           /\ \/ rows' = rows
              \/ /\ Allowed(intent[c], rows[Item(c)])
                 /\ Current(intent[c], handler[c], rows[Item(c)])
                 /\ rows' = [rows EXCEPT ![Item(c)] = Made(c, intent[c], rows[Item(c)])]
<1> DEFINE e == Item(c)
           r == rows[e]
<1>1. /\ conn = c /\ handler[c].pc = "commit" /\ handler[c].pc # "idle"
      /\ rows' = tx /\ tx' = tx /\ conn' = NoClient
  BY DEF Commit, At, Open
<1>2. handler[c].pc \in InTx
  BY <1>1 DEF InTx
<1>3. /\ \A other \in Entities : other # e => tx[other] = rows[other]
      /\ \/ tx[e] = r
         \/ /\ Allowed(intent[c], r) /\ Current(intent[c], handler[c], r)
            /\ tx[e] = Made(c, intent[c], r)
  BY <1>1, <1>2, ImageTyped DEF Stage
<1>4. tx \in [Entities -> Row] /\ rows \in [Entities -> Row] /\ e \in Entities
  BY <1>1, RequestFacts DEF RequestInv, RequestTypeOK
<1> HIDE DEF e
<1>5. CASE tx[e] = r
  <2>1. tx = rows
    BY <1>3, <1>4, <1>5
  <2> QED
    BY <1>1, <2>1
<1>6. CASE /\ Allowed(intent[c], r) /\ Current(intent[c], handler[c], r)
           /\ tx[e] = Made(c, intent[c], r)
  <2>1. tx = [rows EXCEPT ![e] = Made(c, intent[c], r)]
    BY <1>3, <1>4, <1>6
  <2> QED
    BY <1>1, <1>6, <2>1 DEF e
<1> QED
  BY <1>3, <1>5, <1>6

LEMMA CommitKeepsInv ==
    ASSUME RequestInv, NEW c \in Clients, Commit(c)
    PROVE  RequestInv'
<1> DEFINE outcome == IF tx = rows THEN "replayed" ELSE "ok"
           h == NextItem(c, outcome)
<1>1. /\ conn = c /\ handler[c].pc # "idle"
      /\ rows' = tx /\ tx' = tx /\ conn' = NoClient
  BY CommitMakes
<1>2. EndItem(c, outcome) /\ UNCHANGED <<up, intent, gone, tries, faults>>
  BY DEF Commit
<1>3. outcome \in Outcome
  BY DEF Outcome
<1> HIDE DEF outcome
<1>4. /\ handler' = [handler EXCEPT ![c] = h] /\ h \in HandlerRow
      /\ h.pc \in {"waiting", "reply"} /\ h.seen = 0
      /\ GoodIntent(intent[c]) /\ h.item <= Len(intent[c].items)
  BY <1>1, <1>2, <1>3, ItemEnds
<1> HIDE DEF h
<1>5. commits' \in [Clients -> SUBSET (Nat \X Nat)]
  <2>1. <<tries[c], handler[c].item>> \in Nat \X Nat
    BY <1>1, RequestFacts DEF RequestInv, RequestTypeOK, HandlerRow
  <2> QED
    BY <2>1 DEF Commit, RequestInv, RequestTypeOK
<1>6. RequestTypeOK'
  BY <1>1, <1>2, <1>4, <1>5 DEF RequestInv, RequestTypeOK
<1>7. HandlersGood'
  BY <1>2, <1>4 DEF RequestInv, RequestTypeOK, HandlersGood
<1>8. CommittedRowsAreWhole'
  <2>1. \A e \in Entities : Whole(rows'[e])
    <3>1. CASE rows' = rows
      BY <3>1 DEF RequestInv, CommittedRowsAreWhole
    <3>2. CASE /\ Allowed(intent[c], rows[Item(c)])
               /\ rows' = [rows EXCEPT ![Item(c)] = Made(c, intent[c], rows[Item(c)])]
      <4>1. /\ Item(c) \in Entities /\ rows \in [Entities -> Row]
            /\ Whole(Made(c, intent[c], rows[Item(c)]))
        BY <1>1, <3>2, RequestFacts, MadeIsWhole DEF RequestInv, RequestTypeOK
      <4> QED
        BY <3>2, <4>1 DEF RequestInv, CommittedRowsAreWhole
    <3> QED
      BY <3>1, <3>2, CommitMakes
  <2>2. OnFile(rows')
    BY <1>1 DEF RequestInv
  <2> QED
    BY <2>1, <2>2 DEF CommittedRowsAreWhole, OnFile
<1> QED
  BY <1>1, <1>6, <1>7, <1>8, PoolIsFree

\* A crash takes the image of the open transaction with it.
LEMMA EndProcessKeepsInv ==
    ASSUME RequestInv, EndProcess, faults' \in 0..MaxFaults
    PROVE  RequestInv'
<1> DEFINE lost == [NoHandler EXCEPT !.pc = "lost"]
<1>1. /\ up' = FALSE /\ tx' = rows /\ conn' = NoClient
      /\ gone' = [c \in Clients |-> FALSE]
      /\ UNCHANGED <<rows, intent, tries, commits>>
  BY DEF EndProcess
<1>2. /\ lost \in HandlerRow /\ lost.pc = "lost" /\ lost.item = 1
  BY FreshHandler
<1> HIDE DEF lost
<1>3. handler' = [c \in Clients |-> IF handler[c].pc \in Active THEN lost ELSE handler[c]]
  BY DEF EndProcess, lost
<1>4. handler' \in [Clients -> HandlerRow]
  BY <1>2, <1>3 DEF RequestInv, RequestTypeOK
<1>5. RequestTypeOK'
  BY <1>1, <1>4 DEF RequestInv, RequestTypeOK
<1>6. HandlersGood'
  <2> SUFFICES ASSUME NEW c \in Clients
               PROVE  /\ handler'[c].pc # "idle" =>
                            GoodIntent(intent[c]) /\ handler'[c].item <= Len(intent[c].items)
                      /\ handler'[c].pc = "waiting" => handler'[c].seen = 0
    BY <1>1 DEF HandlersGood
  <2>1. CASE handler[c].pc \in Active
    <3>1. handler'[c] = lost /\ handler[c].pc # "idle"
      BY <1>3, <2>1 DEF Active, InTx
    <3>2. GoodIntent(intent[c]) /\ 1 <= Len(intent[c].items)
      BY <3>1 DEF RequestInv, HandlersGood, GoodIntent
    <3> QED
      BY <1>2, <3>1, <3>2
  <2>2. CASE handler[c].pc \notin Active
    BY <1>3, <2>2 DEF RequestInv, HandlersGood
  <2> QED
    BY <2>1, <2>2
<1>7. CommittedRowsAreWhole'
  BY <1>1 DEF RequestInv, CommittedRowsAreWhole
<1> QED
  BY <1>1, <1>5, <1>6, <1>7, PoolIsFree

LEMMA RestartKeepsInv ==
    ASSUME RequestInv, Restart
    PROVE  RequestInv'
<1>1. up' = TRUE /\ UNCHANGED <<rows, tx, conn, intent, handler, gone, tries, commits, faults>>
  BY DEF Restart
<1>2. RequestTypeOK' /\ CommittedRowsAreWhole' /\ OnFile(tx') /\ HandlersGood'
  BY <1>1 DEF RequestInv, RequestTypeOK, CommittedRowsAreWhole, OnFile, HandlersGood
<1>3. WorkOK'
  BY <1>1 DEF RequestInv, WorkOK, Item
<1> QED
  BY <1>2, <1>3 DEF RequestInv, OnFile

\* A step of the server or a client that is not a COMMIT.
WithoutCommit(c) ==
    \/ ClientStep(c) \/ Begin(c) \/ Insert(c) \/ CheckLot(c) \/ InsertPlan(c)
    \/ InsertPlanPanics(c) \/ LoadLot(c) \/ Conclude(c) \/ UpdateLot(c) \/ Audit(c)
    \/ Refuse(c) \/ Refused(c) \/ Release(c) \/ Read(c) \/ Reply(c) \/ StatementFails(c)

LEMMA OnlyCommitsWrite ==
    ASSUME NEW c, WithoutCommit(c)
    PROVE  rows' = rows
BY DEF WithoutCommit, ClientStep, Ask, AskAgain, Send, Leave, Begin, Insert, CheckLot,
       InsertPlan, InsertPlanPanics, LoadLot, Conclude, UpdateLot, Audit, Write, Continue,
       Refuse, Refused, StatementFails, Fail, Rollback, Release, Read, Reply

LEMMA RequestSteps ==
    RequestNext => \/ \E c \in Clients : WithoutCommit(c) \/ Commit(c)
                   \/ Crash
                   \/ Restart
BY DEF RequestNext, Serve, WithoutCommit

-----------------------------------------------------------------------------
(* The invariant holds *)

LEMMA InitOK ==
    ASSUME RequestInit
    PROVE  RequestInv
<1>1. /\ up = TRUE /\ tx = rows /\ conn = NoClient /\ faults = 0
      /\ intent = [c \in Clients |-> NoIntent] /\ handler = [c \in Clients |-> NoHandler]
      /\ gone = [c \in Clients |-> FALSE] /\ tries = [c \in Clients |-> 0]
      /\ commits = [c \in Clients |-> {}]
  BY DEF RequestInit
<1>2. PICK lots \in [Lots -> Stored], suppliers \in [Suppliers -> {Absent, NewRow}] :
          /\ \A l \in Lots : lots[l].status # "none" => suppliers[SupplierOf[l]] = NewRow
          /\ rows = [e \in Entities |-> IF e \in Lots THEN lots[e] ELSE suppliers[e]]
  BY DEF RequestInit, AtomicInit
<1>3. \A e \in Entities : rows[e] \in Row /\ Whole(rows[e])
  BY <1>2, AtomicAssumption, NewRowIsWhole DEF Entities
<1>4. rows \in [Entities -> Row]
  BY <1>2, <1>3
<1>5. OnFile(rows)
  <2>1. NewRow.status # "none"
    BY DEF NewRow, Absent
  <2>2. \A l \in Lots : /\ rows[l] = lots[l]
                        /\ rows[SupplierOf[l]] = suppliers[SupplierOf[l]]
    BY <1>2, AtomicAssumption DEF Entities
  <2> QED
    BY <1>2, <2>1, <2>2 DEF OnFile
<1>6. CommittedRowsAreWhole
  BY <1>3, <1>5 DEF CommittedRowsAreWhole, OnFile
<1>7. NoHandler \in HandlerRow /\ NoHandler.pc = "idle"
  <2>1. <<>> \in Seq(Outcome)
    OBVIOUS
  <2> QED
    BY <2>1 DEF NoHandler, HandlerRow
<1>8. RequestTypeOK
  BY <1>1, <1>4, <1>7, RequestAssumption DEF RequestTypeOK
<1>9. HandlersGood
  BY <1>1, <1>7 DEF HandlersGood
<1>10. WorkOK
  BY <1>1, RequestAssumption DEF WorkOK
<1> QED
  BY <1>1, <1>5, <1>6, <1>8, <1>9, <1>10 DEF RequestInv

LEMMA NextOK ==
    ASSUME RequestInv, RequestNext
    PROVE  RequestInv'
<1>1. ASSUME NEW c \in Clients, ClientStep(c)
      PROVE  RequestInv'
  BY <1>1, AskKeepsInv, AskAgainKeepsInv, LeaveKeepsInv DEF ClientStep
<1>2. ASSUME NEW c \in Clients, Refuse(c) \/ Refused(c) \/ StatementFails(c)
      PROVE  RequestInv'
  <2>1. handler[c].pc # "idle" /\ Fail(c)
    BY <1>2 DEF Refuse, Refused, StatementFails, At, InTx
  <2>2. faults' \in 0..MaxFaults
    BY <1>2, RequestAssumption DEF Refuse, Refused, StatementFails, RequestInv, RequestTypeOK
  <2> QED
    BY <2>1, <2>2, FailKeepsInv
<1>3. ASSUME NEW c \in Clients, Serve(c)
      PROVE  RequestInv'
  BY <1>2, <1>3, BeginKeepsInv, InsertKeepsInv, CheckLotKeepsInv, InsertPlanKeepsInv,
     InsertPlanPanicsKeepsInv, LoadLotKeepsInv, ConcludeKeepsInv, UpdateLotKeepsInv,
     AuditKeepsInv, CommitKeepsInv, ReleaseKeepsInv, ReadKeepsInv, ReplyKeepsInv
     DEF Serve
<1>4. CASE Crash
  <2>1. EndProcess /\ faults' \in 0..MaxFaults
    BY <1>4, RequestAssumption DEF Crash, RequestInv, RequestTypeOK
  <2> QED
    BY <2>1, EndProcessKeepsInv
<1> QED
  BY <1>1, <1>2, <1>3, <1>4, RestartKeepsInv DEF RequestNext

LEMMA StutterOK ==
    ASSUME RequestInv, UNCHANGED requestVars
    PROVE  RequestInv'
<1>1. RequestTypeOK' /\ CommittedRowsAreWhole' /\ OnFile(tx') /\ HandlersGood'
  BY DEF requestVars, RequestInv, RequestTypeOK, CommittedRowsAreWhole, OnFile, HandlersGood
<1>2. WorkOK'
  BY DEF requestVars, RequestInv, WorkOK, Item
<1> QED
  BY <1>1, <1>2 DEF RequestInv, OnFile

LEMMA RequestInvHolds == RequestSpec => []RequestInv
BY InitOK, NextOK, StutterOK, PTL DEF RequestSpec

-----------------------------------------------------------------------------
(* Theorems *)

(* Types, and an idle pool keeps no image: when no request holds the       *)
(* connection there is nothing uncommitted (BeginTx, Commit, Rollback).    *)
THEOREM RequestTypeCorrect == RequestSpec => []RequestTypeOK
BY RequestInvHolds, PTL DEF RequestInv

(* All or nothing (InTx): the statement that fails, the client that leaves *)
(* and the crash never leave half a request in the file, however many      *)
(* lots, clients, retries and faults there are.                            *)
THEOREM RowsAreWhole == RequestSpec => []CommittedRowsAreWhole
BY RequestInvHolds, PTL DEF RequestInv

(* The version of a lot on file changes only by the COMMIT of a request    *)
(* that has read the row it replaces, and at the version its client named  *)
(* if it named one (loadLot, LotRepo.Transition).                          *)
THEOREM DecisionsAreOnCurrentRows == RequestSpec => DecisionsOnCurrentRows
<1>1. ASSUME RequestInv, RequestNext, NEW l \in Lots, rows'[l].version # rows[l].version
      PROVE  /\ rows'[l].version = rows[l].version + 1
             /\ \E c \in Clients :
                   /\ conn = c
                   /\ Item(c) = l
                   /\ handler[c].seen = rows[l].version
                   /\ intent[c].expected \in {0, rows[l].version}
  <2>1. rows' # rows
    BY <1>1
  <2>2. PICK c \in Clients : Commit(c)
    <3>1. ~Crash /\ ~Restart
      BY <2>1 DEF Crash, EndProcess, Restart
    <3> QED
      BY <1>1, <2>1, <3>1, RequestSteps, OnlyCommitsWrite
  <2> DEFINE a == intent[c]
             r == rows[Item(c)]
             m == Made(c, a, r)
  <2>3. /\ conn = c /\ Allowed(a, r) /\ Current(a, handler[c], r)
        /\ rows' = [rows EXCEPT ![Item(c)] = m] /\ handler[c].pc # "idle"
    BY <1>1, <2>1, <2>2, CommitMakes
  <2>4. Item(c) \in Entities /\ r \in Row /\ Whole(r) /\ rows \in [Entities -> Row]
    BY <1>1, <2>3, RequestFacts DEF RequestInv, RequestTypeOK
  <2>5. Item(c) = l /\ m.version # r.version
    <3> HIDE DEF m
    <3> QED
      BY <1>1, <2>3, <2>4 DEF Entities
  <2>6. m.version = r.version + 1
    <3>1. CASE a.kind \in Creating
      <4>1. m.version = 1
        BY <3>1 DEF Made, NewRow, Absent
      <4>2. r.version = 0
        BY <2>3, <2>4, <3>1 DEF Allowed, Creating, Moving, Whole
      <4> QED
        BY <4>1, <4>2
    <3>2. CASE a.kind = "plan"
      BY <2>4, <2>5, <3>2 DEF Made, Creating, Row
    <3>3. CASE a.kind \in Moving
      BY <2>4, <3>3 DEF Made, Creating, Moving, Row
    <3> QED
      BY <2>3, <3>1, <3>2, <3>3 DEF Allowed
  <2>7. rows'[l] = m
    <3> HIDE DEF m
    <3> QED
      BY <2>3, <2>4, <2>5
  <2> HIDE DEF m
  <2> QED
    BY <2>3, <2>5, <2>6, <2>7 DEF Current
<1> DEFINE Decided ==
        \A l \in Lots :
          rows'[l].version # rows[l].version =>
              /\ rows'[l].version = rows[l].version + 1
              /\ \E c \in Clients :
                    /\ conn = c
                    /\ Item(c) = l
                    /\ handler[c].seen = rows[l].version
                    /\ intent[c].expected \in {0, rows[l].version}
<1>2. RequestInv /\ RequestNext => Decided
  BY <1>1
<1>3. RequestInv /\ [RequestNext]_requestVars => [Decided]_requestVars
  BY <1>2
<1>4. RequestSpec => [][Decided]_requestVars
  BY <1>3, RequestInvHolds, PTL DEF RequestSpec
<1> QED
  BY <1>4 DEF DecisionsOnCurrentRows

\* The COMMIT of a request is one step of the abstract store.
LEMMA CommitIsAtomic ==
    ASSUME RequestInv, NEW c \in Clients, Commit(c)
    PROVE  [AtomicNext]_rows
<1> DEFINE e == Item(c)
           a == intent[c]
           r == rows[e]
<1>1. handler[c].pc # "idle"
  BY CommitMakes
<1>2. /\ e \in Entities /\ r \in Row /\ rows \in [Entities -> Row] /\ GoodIntent(a)
      /\ a.kind # "supplier" => e \in Lots
  BY <1>1, RequestFacts DEF RequestInv, RequestTypeOK
<1>3. CASE rows' = rows
  BY <1>3
<1>4. CASE Allowed(a, r) /\ rows' = [rows EXCEPT ![e] = Made(c, a, r)]
  <2>1. CASE a.kind \in Creating
    <3>1. r.status = "none" /\ rows' = [rows EXCEPT ![e] = NewRow]
      BY <1>4, <2>1 DEF Allowed, Made, Creating, Moving
    <3>2. e \in Lots => rows[SupplierOf[e]].status # "none"
      <4>1. CommittedRowsAreWhole'
        BY CommitKeepsInv DEF RequestInv
      <4>2. NewRow.status # "none"
        BY DEF NewRow, Absent
      <4>3. ASSUME e \in Lots PROVE rows[SupplierOf[e]].status # "none"
        <5>1. SupplierOf[e] \in Suppliers /\ SupplierOf[e] # e
          BY <4>3, AtomicAssumption
        <5>2. rows'[e] = NewRow /\ rows'[SupplierOf[e]] = rows[SupplierOf[e]]
          BY <1>2, <3>1, <5>1
        <5> QED
          BY <4>1, <4>2, <4>3, <5>2 DEF CommittedRowsAreWhole
      <4> QED
        BY <4>3
    <3>3. Register(e)
      BY <3>1, <3>2 DEF Register
    <3> QED
      BY <1>2, <3>3 DEF AtomicNext
  <2>2. CASE a.kind = "plan"
    <3>1. /\ r.status = "registered" /\ r.plan = NoPlan
          /\ rows' = [rows EXCEPT ![e] = [r EXCEPT !.plan = c, !.planEvents = @ + 1]]
      BY <1>4, <2>2 DEF Allowed, Made, Creating, Moving
    <3>2. MakePlan(e, c)
      BY <1>2, <3>1 DEF MakePlan
    <3>3. e \in Lots /\ c \in PlanNos
      BY <1>2, <2>2, RequestAssumption
    <3> QED
      BY <3>2, <3>3 DEF AtomicNext
  <2>3. CASE Concludes(a)
    <3>1. /\ RoundOpen(r)
          /\ rows' = [rows EXCEPT ![e] =
                 [r EXCEPT !.status = "judged", !.version = @ + 1, !.events = @ + 1,
                           !.results = @ + 1, !.conclusions = @ + 1]]
      BY <1>4, <2>3 DEF Allowed, Made, Creating, Moving, Concludes
    <3>2. Judge(e)
      BY <1>2, <3>1 DEF Judge
    <3>3. e \in Lots
      BY <1>2, <2>3 DEF Concludes
    <3> QED
      BY <3>2, <3>3 DEF AtomicNext
  <2>4. CASE a.kind \in Moving /\ ~Concludes(a)
    <3>1. /\ CanTransitionTo(r.status, a.next)
          /\ a.next = "judged" => r.status = "retesting"
          /\ rows' = [rows EXCEPT ![e] =
                 [r EXCEPT !.status = a.next, !.version = @ + 1, !.events = @ + 1]]
      BY <1>4, <2>4 DEF Allowed, Made, Creating, Moving
    <3>2. Move(e, a.next)
      BY <1>2, <3>1 DEF Move
    <3>3. e \in Lots /\ a.next \in LotStatus
      BY <1>2, <2>4, <3>1 DEF Moving, CanTransitionTo, LotStatus
    <3> QED
      BY <3>2, <3>3 DEF AtomicNext
  <2> QED
    BY <1>4, <2>1, <2>2, <2>3, <2>4 DEF Allowed
<1> QED
  BY <1>3, <1>4, CommitMakes

\* A step of Requests is a step of the abstract store or leaves it alone.
LEMMA RequestStepIsAtomic ==
    ASSUME RequestInv, RequestNext
    PROVE  [AtomicNext]_rows
<1>1. ASSUME NEW c \in Clients, WithoutCommit(c)
      PROVE  UNCHANGED rows
  BY <1>1, OnlyCommitsWrite
<1>2. Crash \/ Restart => UNCHANGED rows
  BY DEF Crash, EndProcess, Restart
<1> QED
  BY <1>1, <1>2, CommitIsAtomic, RequestSteps

(* Statement by statement, with an image that is rolled back, released or  *)
(* lost with the process, the rows on file change as AtomicStore says: one *)
(* whole request at a time.                                                *)
THEOREM RequestsAreAtomic == RequestSpec => ImplementsAtomicStore
<1>1. RequestInit => AtomicInit
  BY DEF RequestInit
<1>2. RequestInv /\ [RequestNext]_requestVars => [AtomicNext]_rows
  BY RequestStepIsAtomic DEF requestVars
<1> QED
  BY <1>1, <1>2, RequestInvHolds, PTL DEF RequestSpec, AtomicSpec, ImplementsAtomicStore
=============================================================================
