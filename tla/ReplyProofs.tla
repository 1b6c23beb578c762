---------------------------- MODULE ReplyProofs -----------------------------
(***************************************************************************)
(* Theorems about what the clients of Requests are told, for every number  *)
(* of lots, suppliers, clients, tries and faults: replies are true, a      *)
(* request may be sent again, and readers are not behind.                  *)
(*                                                                         *)
(* The invariant relates one client's handler h, its request a, its tries  *)
(* t and its committed changes done with the committed rows.               *)
(***************************************************************************)
EXTENDS RequestProofs

-----------------------------------------------------------------------------
(* The invariant *)

\* Serving a request, with an answer still to be made.
Busy == Active \ {"reply"}

\* A history of changes: those of the last try are of the items reported.
Past(h, t, done) ==
    /\ h.pc = "idle" => done = {}
    /\ \A u \in Nat, i \in Nat : <<u, i>> \in done => u <= t

Told(h, a, t, done, image) ==
    h.pc \in Active \cup {"answered"} /\ a.kind \notin Readers =>
        /\ \A i \in 1..Len(h.outcome) :
              /\ h.outcome[i] = "ok" <=> <<t, i>> \in done
              /\ h.outcome[i] = "replayed" => image[a.items[i]].status # "none"
        /\ \A i \in Nat : <<t, i>> \in done => i \in 1..Len(h.outcome)
        /\ Len(h.outcome) <= Len(a.items)
        /\ h.pc \in Busy => Len(h.outcome) = h.item - 1

\* The row shows that the request a of c has been carried out.
Spent(c, a, row) ==
    /\ a.kind \in Creating => row.status # "none"
    /\ a.kind = "plan" => row.plan = c
    /\ a.kind \in Moving => row.version > a.expected

Once(c, a, done, image) ==
    (a.kind \in Creating \cup {"plan"} \/ a.expected > 0) /\ done # {} =>
        (\E x : done = {x}) /\ Spent(c, a, image[a.items[1]])

\* What a list with this filter selects from these rows.
Shown(filter, image) ==
    {l \in Lots : image[l].status # "none" /\ filter \in {"none", image[l].status}}

\* What a reader's first query counts.
Heads(a, image) ==
    IF a.kind = "list" THEN Cardinality(Shown(a.next, image)) ELSE image[a.items[1]].results

Reading(h, a, image) ==
    a.kind \in Readers /\ h.pc # "idle" =>
        /\ h.pc \notin InTx
        /\ KeepsItsLots(a.next) =>
              /\ h.pc = "second" => h.head <= Heads(a, image)
              /\ h.pc \in {"reply", "answered"} /\ h.outcome = <<"ok">> => h.body >= h.head

ClientOK(c, h, a, t, done, image) ==
    /\ Past(h, t, done)
    /\ Told(h, a, t, done, image)
    /\ Once(c, a, done, image)
    /\ Reading(h, a, image)

ReplyInv ==
    \A c \in Clients : ClientOK(c, handler[c], intent[c], tries[c], commits[c], rows)

\* What the other invariant knows about one client.
Sound(h, a, t, done) ==
    /\ h \in HandlerRow
    /\ h.pc # "idle" => GoodIntent(a) /\ h.item <= Len(a.items)
    /\ h.pc = "idle" \/ a \in Intent
    /\ t \in Nat
    /\ done \subseteq Nat \X Nat

LEMMA ClientsAreSound ==
    ASSUME RequestInv, NEW c \in Clients
    PROVE  Sound(handler[c], intent[c], tries[c], commits[c])
<1>1. /\ handler[c] \in HandlerRow /\ commits[c] \subseteq Nat \X Nat
      /\ handler[c].pc # "idle" => GoodIntent(intent[c]) /\ handler[c].item <= Len(intent[c].items)
  BY DEF RequestInv, RequestTypeOK, HandlersGood
<1>2. tries[c] \in Nat
  BY RequestAssumption DEF RequestInv, RequestTypeOK
<1> QED
  BY <1>1, <1>2 DEF Sound, GoodIntent

-----------------------------------------------------------------------------
(* Rows only grow *)

Grown(image, next) ==
    \A e \in Entities :
        /\ image[e].status # "none" => next[e].status # "none"
        /\ image[e].status = "accepted" => next[e].status = "accepted"
        /\ image[e].version <= next[e].version
        /\ image[e].results <= next[e].results
        /\ image[e].plan # NoPlan => next[e].plan = image[e].plan

LEMMA MadeGrows ==
    ASSUME NEW c \in Clients, NEW a, GoodIntent(a), NEW r \in Row, Whole(r), Allowed(a, r)
    PROVE  /\ Made(c, a, r).status # "none"
           /\ r.version <= Made(c, a, r).version
           /\ r.results <= Made(c, a, r).results
           /\ r.plan # NoPlan => Made(c, a, r).plan = r.plan
           /\ a.kind = "plan" => Made(c, a, r).plan = c /\ r.plan = NoPlan
           /\ a.kind \in Moving => Made(c, a, r).version = r.version + 1
           /\ a.kind \in Creating => r.status = "none"
           /\ r.status # "accepted"
<1>1. Made(c, a, r).status # "none"
  BY MadeIsWhole
<1>2. r.status # "accepted"
  BY DEF Allowed, RoundOpen, CanTransitionTo
<1>3. CASE a.kind \in Creating
  BY <1>1, <1>2, <1>3 DEF Made, Allowed, Creating, Moving, Whole, NewRow, Absent, Row
<1>4. CASE a.kind = "plan"
  BY <1>1, <1>2, <1>4 DEF Made, Allowed, Creating, Moving, Concludes, Row
<1>5. CASE a.kind \in Moving
  BY <1>1, <1>2, <1>5 DEF Made, Creating, Moving, Concludes, Row
<1> QED
  BY <1>3, <1>4, <1>5 DEF Allowed

LEMMA RowsGrow ==
    ASSUME RequestInv, [RequestNext]_requestVars
    PROVE  Grown(rows, rows')
<1>1. \A e \in Entities : rows[e].version \in Nat /\ rows[e].results \in Nat
  BY DEF RequestInv, RequestTypeOK, Row
<1>2. CASE rows' = rows
  BY <1>1, <1>2 DEF Grown
<1>3. CASE rows' # rows
  <2>1. RequestNext /\ ~Crash /\ ~Restart
    BY <1>3 DEF requestVars, Crash, EndProcess, Restart
  <2>2. PICK c \in Clients : Commit(c)
    BY <1>3, <2>1, RequestSteps, OnlyCommitsWrite
  <2> DEFINE r == rows[Item(c)]
             m == Made(c, intent[c], r)
  <2>3. /\ Allowed(intent[c], r) /\ rows' = [rows EXCEPT ![Item(c)] = m]
        /\ handler[c].pc # "idle"
    BY <1>3, <2>2, CommitMakes
  <2>4. /\ GoodIntent(intent[c]) /\ r \in Row /\ Whole(r)
        /\ Item(c) \in Entities /\ rows \in [Entities -> Row]
    BY <2>3, RequestFacts DEF RequestInv, RequestTypeOK
  <2>5. /\ m.status # "none" /\ r.version <= m.version /\ r.results <= m.results
        /\ r.plan # NoPlan => m.plan = r.plan
        /\ r.status # "accepted"
    BY <2>3, <2>4, MadeGrows
  <2> HIDE DEF m
  <2> QED
    BY <1>1, <2>3, <2>4, <2>5 DEF Grown
<1> QED
  BY <1>2, <1>3

\* A lot that is counted stays counted: no filter, or a status it cannot leave.
LEMMA CountGrows ==
    ASSUME NEW image, NEW next, Grown(image, next), NEW f, KeepsItsLots(f)
    PROVE  /\ Cardinality(Shown(f, image)) \in Nat
           /\ Cardinality(Shown(f, next)) \in Nat
           /\ Cardinality(Shown(f, image)) <= Cardinality(Shown(f, next))
<1>1. Shown(f, image) \subseteq Shown(f, next) /\ Shown(f, next) \subseteq Lots
  BY DEF Grown, Shown, KeepsItsLots, Entities
<1>2. IsFiniteSet(Shown(f, next))
  BY <1>1, RequestAssumption, FS_Subset
<1> QED
  BY <1>1, <1>2, FS_Subset, FS_CardinalityType

\* The request of another client moves nothing that this client was told.
LEMMA OthersKeep ==
    ASSUME NEW c \in Clients, NEW h, NEW a, NEW t, NEW done,
           NEW image \in [Entities -> Row], NEW next \in [Entities -> Row],
           Sound(h, a, t, done), Grown(image, next),
           ClientOK(c, h, a, t, done, image)
    PROVE  ClientOK(c, h, a, t, done, next)
<1>1. CASE h.pc = "idle"
  BY <1>1 DEF ClientOK, Past, Told, Once, Reading, Active, InTx
<1>2. CASE h.pc # "idle"
  <2>1. GoodIntent(a) /\ a \in Intent
    BY <1>2 DEF Sound
  <2>2. \A i \in 1..Len(a.items) : a.items[i] \in Entities
    BY <2>1 DEF GoodIntent, Entities
  <2>3. a.items[1] \in Entities
    BY <2>1, <2>2 DEF GoodIntent
  <2>4. Told(h, a, t, done, next)
    <3>1. Len(h.outcome) \in Nat /\ Len(a.items) \in Nat
      BY <2>1 DEF Sound, HandlerRow, GoodIntent
    <3>2. Told(h, a, t, done, image)
      BY DEF ClientOK
    <3> QED
      BY <2>2, <3>1, <3>2 DEF Told, Grown
  <2>5. Once(c, a, done, next)
    <3> SUFFICES ASSUME a.kind \in Creating \cup {"plan"} \/ a.expected > 0, done # {}
                 PROVE  (\E x : done = {x}) /\ Spent(c, a, next[a.items[1]])
      BY DEF Once
    <3>1. (\E x : done = {x}) /\ Spent(c, a, image[a.items[1]])
      BY DEF ClientOK, Once
    <3>2. c # NoPlan
      BY AtomicAssumption, RequestAssumption
    <3>3. /\ image[a.items[1]].version \in Nat /\ next[a.items[1]].version \in Nat
          /\ a.expected \in Nat
      BY <2>1, <2>3 DEF Row, Intent
    <3>4. Spent(c, a, image[a.items[1]])
      BY <3>1
    <3>5. Spent(c, a, next[a.items[1]])
      BY <2>3, <3>2, <3>3, <3>4 DEF Spent, Grown
    <3> QED
      BY <3>1, <3>5
  <2>6. Reading(h, a, next)
    <3>1. KeepsItsLots(a.next) => /\ Heads(a, image) \in Nat /\ Heads(a, next) \in Nat
                                  /\ Heads(a, image) <= Heads(a, next)
      <4>1. CASE a.kind = "list"
        BY <4>1, CountGrows DEF Heads
      <4>2. CASE a.kind # "list"
        <5>1. /\ image[a.items[1]].results \in Nat /\ next[a.items[1]].results \in Nat
              /\ image[a.items[1]].results <= next[a.items[1]].results
          BY <2>3 DEF Grown, Row
        <5> QED
          BY <4>2, <5>1 DEF Heads
      <4> QED
        BY <4>1, <4>2
    <3>2. h.head \in Nat
      BY DEF Sound, HandlerRow
    <3> QED
      BY <3>1, <3>2 DEF ClientOK, Reading
  <2> QED
    BY <2>4, <2>5, <2>6 DEF ClientOK
<1> QED
  BY <1>1, <1>2

-----------------------------------------------------------------------------
(* Steps of one client's request, the rows as they are *)

\* A statement, or a wait, on behalf of a request that is not a reader.
LEMMA StatementKeeps ==
    ASSUME NEW c \in Clients, NEW h, NEW a, NEW t, NEW done, NEW image,
           Sound(h, a, t, done), ClientOK(c, h, a, t, done, image),
           h.pc \in Busy, a.kind \notin Readers,
           NEW g, g.pc \in Busy, g.item = h.item, g.outcome = h.outcome
    PROVE  ClientOK(c, g, a, t, done, image)
BY DEF ClientOK, Past, Told, Once, Reading, Busy, Active, InTx

\* The item ends with a failure.
LEMMA FailureKeeps ==
    ASSUME NEW c \in Clients, NEW h, NEW a, NEW t, NEW done, NEW image,
           Sound(h, a, t, done), ClientOK(c, h, a, t, done, image),
           h.pc \in Busy,
           NEW g, g.outcome = Append(h.outcome, "failed"),
           g.item = IF h.item < Len(a.items) THEN h.item + 1 ELSE h.item,
           g.pc = IF h.item < Len(a.items) THEN "waiting" ELSE "reply"
    PROVE  ClientOK(c, g, a, t, done, image)
<1>1. h.pc # "idle" /\ g.pc # "idle"
  BY DEF Busy, Active, InTx
<1>2. /\ h.item \in Nat \ {0} /\ Len(a.items) \in Nat \ {0} /\ h.item <= Len(a.items)
      /\ h.outcome \in Seq(Outcome)
  BY <1>1 DEF Sound, HandlerRow, GoodIntent
<1>3. /\ Len(g.outcome) = Len(h.outcome) + 1
      /\ g.outcome[Len(h.outcome) + 1] = "failed"
      /\ \A i \in 1..Len(h.outcome) : g.outcome[i] = h.outcome[i]
      /\ Len(h.outcome) \in Nat
  BY <1>2 DEF Outcome
<1>4. Told(g, a, t, done, image)
  <2> SUFFICES ASSUME a.kind \notin Readers
               PROVE  Told(g, a, t, done, image)
    BY DEF Told
  <2>1. /\ \A i \in 1..Len(h.outcome) :
              /\ h.outcome[i] = "ok" <=> <<t, i>> \in done
              /\ h.outcome[i] = "replayed" => image[a.items[i]].status # "none"
        /\ \A i \in Nat : <<t, i>> \in done => i \in 1..Len(h.outcome)
        /\ Len(h.outcome) = h.item - 1
    BY DEF ClientOK, Told, Busy
  <2>2. <<t, h.item>> \notin done
    BY <1>2, <2>1
  <2>3. ASSUME NEW i \in 1..Len(g.outcome)
        PROVE  /\ g.outcome[i] = "ok" <=> <<t, i>> \in done
               /\ g.outcome[i] = "replayed" => image[a.items[i]].status # "none"
    <3>1. i \in 1..Len(h.outcome) \/ i = h.item
      BY <1>2, <1>3, <2>1, <2>3
    <3>2. CASE i \in 1..Len(h.outcome)
      BY <1>3, <2>1, <3>2
    <3>3. CASE i = h.item
      BY <1>2, <1>3, <2>1, <2>2, <3>3
    <3> QED
      BY <3>1, <3>2, <3>3
  <2>4. \A i \in Nat : <<t, i>> \in done => i \in 1..Len(g.outcome)
    BY <1>3, <2>1
  <2>5. /\ Len(g.outcome) <= Len(a.items)
        /\ g.pc \in Busy => Len(g.outcome) = g.item - 1
    BY <1>2, <1>3, <2>1 DEF Busy
  <2> QED
    BY <2>3, <2>4, <2>5 DEF Told
<1>5. Reading(g, a, image)
  <2> SUFFICES ASSUME a.kind \in Readers
               PROVE  g.pc = "reply" /\ g.outcome # <<"ok">>
    BY DEF Reading, InTx
  <2>1. Len(a.items) = 1
    BY <1>1 DEF Sound, GoodIntent, Readers
  <2>2. ASSUME g.outcome = <<"ok">>
        PROVE  FALSE
    <3>1. Len(g.outcome) = 1 /\ g.outcome[1] = "ok"
      BY <2>2
    <3> QED
      BY <1>3, <3>1
  <2> QED
    BY <1>2, <2>1, <2>2
<1>6. Past(g, t, done) /\ Once(c, a, done, image)
  BY <1>1 DEF ClientOK, Past
<1> QED
  BY <1>4, <1>5, <1>6 DEF ClientOK

\* The request is sent once more, or for the first time.
LEMMA SendKeeps ==
    ASSUME NEW c \in Clients, NEW h, NEW a, NEW t, NEW done, NEW image, NEW b,
           Sound(h, a, t, done), ClientOK(c, h, a, t, done, image),
           h.pc = "idle" \/ b = a,
           NEW g, g.pc = "waiting", g.item = 1, g.outcome = <<>>, GoodIntent(b)
    PROVE  ClientOK(c, g, b, t + 1, done, image)
<1>1. t \in Nat /\ t + 1 \in Nat /\ ~(t + 1 <= t) /\ \A u \in Nat : u <= t => u <= t + 1
  BY DEF Sound
<1>2. Past(h, t, done)
  BY DEF ClientOK
<1>3. Past(g, t + 1, done)
  BY <1>1, <1>2 DEF Past
<1>4. \A i \in Nat : <<t + 1, i>> \notin done
  BY <1>1, <1>2 DEF Past
<1>5. Told(g, b, t + 1, done, image)
  <2>1. Len(g.outcome) = 0 /\ Len(b.items) \in Nat
    BY DEF GoodIntent
  <2> QED
    BY <1>4, <2>1 DEF Told
<1>6. Once(c, b, done, image)
  BY <1>2 DEF ClientOK, Past, Once
<1>7. Reading(g, b, image)
  BY DEF Reading, InTx
<1> QED
  BY <1>3, <1>5, <1>6, <1>7 DEF ClientOK

\* The answer arrives, or nothing does.
LEMMA AnswerKeeps ==
    ASSUME NEW c \in Clients, NEW h, NEW a, NEW t, NEW done, NEW image,
           Sound(h, a, t, done), ClientOK(c, h, a, t, done, image),
           h.pc \in Active,
           NEW g,
           \/ g.pc = "lost"
           \/ /\ g.pc = "answered" /\ h.pc = "reply"
              /\ g.outcome = h.outcome /\ g.head = h.head /\ g.body = h.body
    PROVE  ClientOK(c, g, a, t, done, image)
<1>1. h.pc # "idle" /\ g.pc \notin Busy /\ g.pc # "idle" /\ g.pc \notin InTx
  BY DEF Busy, Active, InTx
<1>2. Told(g, a, t, done, image)
  <2>1. CASE g.pc = "lost"
    BY <2>1 DEF Told, Active, InTx
  <2>2. CASE g.pc = "answered"
    BY <1>1, <2>2 DEF ClientOK, Told, Active
  <2> QED
    BY <2>1, <2>2
<1>3. Reading(g, a, image)
  <2>1. CASE g.pc = "lost"
    BY <1>1, <2>1 DEF Reading
  <2>2. CASE g.pc = "answered"
    BY <1>1, <2>2 DEF ClientOK, Reading
  <2> QED
    BY <2>1, <2>2
<1>4. Past(g, t, done) /\ Once(c, a, done, image)
  BY <1>1 DEF ClientOK, Past
<1> QED
  BY <1>2, <1>3, <1>4 DEF ClientOK

\* One query of a reader: it sees no fewer conclusions than results.
LEMMA QueryKeeps ==
    ASSUME NEW c \in Clients, NEW h, NEW a, NEW t, NEW done, NEW image \in [Entities -> Row],
           Sound(h, a, t, done), ClientOK(c, h, a, t, done, image),
           \A e \in Entities : Whole(image[e]),
           a.kind \in Readers,
           NEW g,
           \/ h.pc = "waiting" /\ g.pc = "second" /\ g.head = Heads(a, image)
           \/ /\ h.pc = "second" /\ g.pc = "reply" /\ g.head = h.head
              /\ g.body = IF a.kind = "list" THEN Cardinality(Shown(a.next, image))
                          ELSE image[a.items[1]].conclusions
    PROVE  ClientOK(c, g, a, t, done, image)
<1>1. h.pc # "idle" /\ g.pc # "idle" /\ g.pc \notin InTx
  BY DEF InTx
<1>2. a.items[1] \in Entities
  BY <1>1 DEF Sound, GoodIntent, Entities
<1>3. image[a.items[1]].conclusions = image[a.items[1]].results
  BY <1>2 DEF Whole
<1>4. KeepsItsLots(a.next) => Heads(a, image) \in Nat /\ Heads(a, image) <= Heads(a, image)
  <2>1. Grown(image, image)
    BY DEF Grown, Row
  <2> QED
    BY <1>2, <2>1, CountGrows DEF Heads, Row
<1>5. Reading(g, a, image)
  <2>1. CASE g.pc = "second"
    BY <1>1, <1>4, <2>1 DEF Reading
  <2>2. CASE h.pc = "second" /\ g.pc = "reply"
    <3>1. g.body = Heads(a, image) /\ g.head = h.head
      BY <1>3, <2>2 DEF Heads
    <3>2. (KeepsItsLots(a.next) => h.head <= Heads(a, image)) /\ h.head \in Nat
      BY <1>1, <2>2 DEF ClientOK, Reading, Sound, HandlerRow
    <3> QED
      BY <1>1, <1>4, <2>2, <3>1, <3>2 DEF Reading
  <2> QED
    BY <2>1, <2>2
<1>6. Past(g, t, done) /\ Told(g, a, t, done, image) /\ Once(c, a, done, image)
  BY <1>1 DEF ClientOK, Past, Told
<1> QED
  BY <1>5, <1>6 DEF ClientOK

\* The COMMIT of one item: the row is changed, or the request was a replay.
Committed(c, h, a, t, done, image, g, more, next, outcome) ==
    LET e == a.items[h.item]
        others == h.item < Len(a.items)
    IN  /\ next[e].status # "none"
        /\ \/ outcome = "replayed" /\ more = done
           \/ /\ outcome = "ok" /\ more = done \cup {<<t, h.item>>}
              /\ Allowed(a, image[e]) /\ Current(a, h, image[e])
              /\ next[e] = Made(c, a, image[e])
        /\ g.outcome = Append(h.outcome, outcome)
        /\ g.item = IF others THEN h.item + 1 ELSE h.item
        /\ g.pc = IF others THEN "waiting" ELSE "reply"

LEMMA CommitTells ==
    ASSUME NEW c \in Clients, NEW h, NEW a, NEW t, NEW done, NEW image \in [Entities -> Row],
           Sound(h, a, t, done), ClientOK(c, h, a, t, done, image),
           h.pc = "commit", \A e \in Entities : Whole(image[e]),
           NEW outcome, NEW more, NEW next \in [Entities -> Row], Grown(image, next),
           NEW g, Committed(c, h, a, t, done, image, g, more, next, outcome)
    PROVE  ClientOK(c, g, a, t, more, next)
<1> USE DEF Committed
<1>1. h.pc # "idle" /\ g.pc # "idle" /\ h.pc \in Busy /\ h.pc \in InTx
  BY DEF Busy, Active, InTx
<1>2. /\ h.item \in 1..Len(a.items) /\ Len(a.items) \in Nat \ {0}
      /\ h.outcome \in Seq(Outcome) /\ GoodIntent(a) /\ a \in Intent
      /\ t \in Nat /\ done \subseteq Nat \X Nat
  BY <1>1 DEF Sound, HandlerRow, GoodIntent
<1>3. a.kind \notin Readers
  BY <1>1 DEF ClientOK, Reading
<1>4. outcome \in Outcome
  BY DEF Outcome
<1>5. /\ Len(g.outcome) = Len(h.outcome) + 1
      /\ g.outcome[Len(h.outcome) + 1] = outcome
      /\ \A i \in 1..Len(h.outcome) : g.outcome[i] = h.outcome[i]
      /\ Len(h.outcome) \in Nat
  BY <1>2, <1>4
<1>6. /\ \A i \in 1..Len(h.outcome) :
            /\ h.outcome[i] = "ok" <=> <<t, i>> \in done
            /\ h.outcome[i] = "replayed" => image[a.items[i]].status # "none"
      /\ \A i \in Nat : <<t, i>> \in done => i \in 1..Len(h.outcome)
      /\ Len(h.outcome) = h.item - 1
  BY <1>1, <1>3 DEF ClientOK, Told, Busy
<1>7. <<t, h.item>> \notin done
  BY <1>2, <1>6
<1>8. \A i \in 1..Len(a.items) : a.items[i] \in Entities
  BY <1>2 DEF GoodIntent, Entities
<1>9. \A u \in Nat, i \in Nat :
          <<u, i>> \in more <=> <<u, i>> \in done \/ (outcome = "ok" /\ u = t /\ i = h.item)
  BY <1>2
<1>10. Told(g, a, t, more, next)
  <2>1. /\ h.item \in Nat /\ Len(a.items) \in Nat /\ h.item <= Len(a.items)
        /\ Len(h.outcome) \in Nat /\ Len(h.outcome) = h.item - 1
    BY <1>2, <1>5, <1>6
  <2>2. ASSUME NEW i \in 1..Len(g.outcome)
        PROVE  /\ g.outcome[i] = "ok" <=> <<t, i>> \in more
               /\ g.outcome[i] = "replayed" => next[a.items[i]].status # "none"
    <3>1. i \in 1..Len(h.outcome) \/ i = h.item
      BY <2>1, <2>2, <1>5
    <3>2. CASE i \in 1..Len(h.outcome)
      <4>1. i \in Nat /\ i # h.item /\ i \in 1..Len(a.items)
        BY <2>1, <3>2
      <4>2. a.items[i] \in Entities
        BY <1>8, <4>1
      <4>3. g.outcome[i] = h.outcome[i] /\ (<<t, i>> \in more <=> <<t, i>> \in done)
        BY <1>2, <1>5, <1>9, <3>2, <4>1
      <4>4. h.outcome[i] = "replayed" => next[a.items[i]].status # "none"
        BY <1>6, <3>2, <4>2 DEF Grown
      <4> QED
        BY <1>6, <3>2, <4>3, <4>4
    <3>3. CASE i = h.item
      <4>1. g.outcome[i] = outcome
        BY <1>2, <1>5, <1>6, <3>3
      <4>2. <<t, i>> \in more <=> outcome = "ok"
        BY <1>2, <1>7, <1>9, <3>3
      <4> QED
        BY <3>3, <4>1, <4>2
    <3> QED
      BY <3>1, <3>2, <3>3
  <2>3. \A i \in Nat : <<t, i>> \in more => i \in 1..Len(g.outcome)
    BY <1>2, <1>5, <1>6, <1>9
  <2>4. /\ Len(g.outcome) <= Len(a.items)
        /\ g.pc \in Busy => Len(g.outcome) = g.item - 1
    BY <1>2, <1>5, <1>6 DEF Busy
  <2> QED
    BY <2>2, <2>3, <2>4 DEF Told
<1>11. Past(g, t, more)
  BY <1>1, <1>2, <1>9 DEF ClientOK, Past
<1>12. Reading(g, a, next)
  BY <1>3 DEF Reading
<1>13. Once(c, a, more, next)
  <2> SUFFICES ASSUME a.kind \in Creating \cup {"plan"} \/ a.expected > 0, more # {}
               PROVE  (\E x : more = {x}) /\ Spent(c, a, next[a.items[1]])
    BY DEF Once
  <2>1. a.kind # "batch"
    BY <1>2 DEF GoodIntent, Creating
  <2>2. h.item = 1 /\ a.items[1] \in Entities
    BY <1>2, <1>8, <2>1 DEF GoodIntent
  <2> DEFINE r == image[a.items[1]]
             m == next[a.items[1]]
  <2>3. r \in Row /\ Whole(r) /\ m \in Row
    BY <2>2
  <2>4. done # {} => (\E x : done = {x}) /\ Spent(c, a, r)
    BY DEF ClientOK, Once
  <2>5. CASE more = done
    <3>1. \E x : more = {x}
      BY <2>4, <2>5
    <3>2. Spent(c, a, r)
      BY <2>4, <2>5
    <3>3. c # NoPlan /\ a.expected \in Nat
      BY <1>2, AtomicAssumption, RequestAssumption DEF Intent
    <3>4. Spent(c, a, m)
      BY <2>2, <2>3, <3>2, <3>3 DEF Spent, Grown, Row
    <3> QED
      BY <3>1, <3>4
  <2>6. CASE /\ more = done \cup {<<t, h.item>>}
             /\ Allowed(a, r) /\ Current(a, h, r) /\ m = Made(c, a, r)
    <3>1. /\ m.status # "none"
          /\ a.kind = "plan" => m.plan = c /\ r.plan = NoPlan
          /\ a.kind \in Moving => m.version = r.version + 1
          /\ a.kind \in Creating => r.status = "none"
      BY <1>2, <2>3, <2>6, MadeGrows
    <3> HIDE DEF m, r
    <3>2. a.kind \in Moving => a.expected = r.version
      BY <2>6 DEF Current, Creating, Moving
    <3>3. ~Spent(c, a, r)
      <4>1. c # NoPlan
        BY AtomicAssumption, RequestAssumption
      <4>2. r.version \in Nat
        BY <2>3 DEF Row
      <4> QED
        BY <2>6, <3>1, <3>2, <4>1, <4>2 DEF Spent, Allowed
    <3>4. more = {<<t, h.item>>}
      BY <2>4, <2>6, <3>3
    <3>5. Spent(c, a, m)
      <4>1. r.version \in Nat
        BY <2>3 DEF Row
      <4> QED
        BY <3>1, <3>2, <4>1 DEF Spent
    <3> QED
      BY <3>4, <3>5 DEF m
  <2> QED
    BY <2>2, <2>5, <2>6
<1> QED
  BY <1>10, <1>11, <1>12, <1>13 DEF ClientOK

-----------------------------------------------------------------------------
(* Steps of the system *)

\* Only c's request is touched; the rows grow.
LEMMA OneClient ==
    ASSUME RequestInv, ReplyInv, [RequestNext]_requestVars, NEW c \in Clients,
           \A d \in Clients \ {c} :
               UNCHANGED <<handler[d], intent[d], tries[d], commits[d]>>,
           ClientOK(c, handler'[c], intent'[c], tries'[c], commits'[c], rows')
    PROVE  ReplyInv'
<1>1. RequestInv'
  BY NextOK, StutterOK
<1>2. rows \in [Entities -> Row] /\ rows' \in [Entities -> Row] /\ Grown(rows, rows')
  BY <1>1, RowsGrow DEF RequestInv, RequestTypeOK
<1>3. ASSUME NEW d \in Clients \ {c}
      PROVE  ClientOK(d, handler'[d], intent'[d], tries'[d], commits'[d], rows')
  <2>1. ClientOK(d, handler[d], intent[d], tries[d], commits[d], rows)
    BY DEF ReplyInv
  <2>2. Sound(handler[d], intent[d], tries[d], commits[d])
    BY ClientsAreSound
  <2>3. ClientOK(d, handler[d], intent[d], tries[d], commits[d], rows')
    BY <1>2, <2>1, <2>2, OthersKeep
  <2> QED
    BY <1>3, <2>3
<1> QED
  BY <1>3 DEF ReplyInv

\* Nobody's request is touched.
LEMMA NoClientStep ==
    ASSUME ReplyInv, UNCHANGED <<handler, intent, tries, commits, rows>>
    PROVE  ReplyInv'
BY DEF ReplyInv

LEMMA StatementsKeep ==
    ASSUME RequestInv, ReplyInv, RequestNext, NEW c \in Clients,
           \/ Begin(c) \/ Insert(c) \/ CheckLot(c) \/ InsertPlan(c)
           \/ LoadLot(c) \/ Conclude(c) \/ UpdateLot(c) \/ Audit(c)
    PROVE  ReplyInv'
<1>1. handler[c] \in HandlerRow /\ handler \in [Clients -> HandlerRow]
  BY DEF RequestInv, RequestTypeOK
<1>2. UNCHANGED <<rows, intent, tries, commits>>
  BY DEF Begin, Insert, CheckLot, InsertPlan, LoadLot, Conclude, UpdateLot, Audit,
         Write, Continue
<1>3. /\ handler[c].pc \in Busy
      /\ handler[c].pc \in InTx \/ intent[c].kind \notin Readers
  BY DEF Begin, Insert, CheckLot, InsertPlan, LoadLot, Conclude, UpdateLot, Audit, At,
         Busy, Active, InTx
<1>4. PICK pc \in Busy, seen \in Nat :
          handler' = [handler EXCEPT ![c].seen = seen, ![c].pc = pc]
  <2>1. CASE LoadLot(c)
    <3>1. tx[Item(c)].version \in Nat
      <4>1. handler[c].pc # "idle"
        BY <2>1 DEF LoadLot, At
      <4> QED
        BY <4>1, RequestFacts DEF RequestInv, RequestTypeOK, Row
    <3> QED
      BY <2>1, <3>1 DEF LoadLot, Busy, Active, InTx
  <2>2. CASE \/ Begin(c) \/ Insert(c) \/ CheckLot(c) \/ InsertPlan(c)
             \/ Conclude(c) \/ UpdateLot(c) \/ Audit(c)
    <3>1. PICK pc \in Busy : handler' = [handler EXCEPT ![c].pc = pc]
      BY <2>2 DEF Begin, Insert, CheckLot, InsertPlan, Conclude, UpdateLot, Audit,
                  Write, Continue, Goto, Busy, Active, InTx
    <3>2. [handler EXCEPT ![c].pc = pc] = [handler EXCEPT ![c].seen = handler[c].seen, ![c].pc = pc]
      BY <1>1 DEF HandlerRow
    <3>3. handler[c].seen \in Nat
      BY <1>1 DEF HandlerRow
    <3> QED
      BY <3>1, <3>2, <3>3
  <2> QED
    BY <2>1, <2>2
<1>5. /\ handler'[c].pc = pc /\ handler'[c].item = handler[c].item
      /\ handler'[c].outcome = handler[c].outcome
      /\ \A d \in Clients \ {c} : handler'[d] = handler[d]
  BY <1>1, <1>4 DEF HandlerRow
<1>6. Sound(handler[c], intent[c], tries[c], commits[c])
  BY ClientsAreSound
<1>7. ClientOK(c, handler[c], intent[c], tries[c], commits[c], rows)
  BY DEF ReplyInv
<1>8. intent[c].kind \notin Readers
  BY <1>3, <1>7 DEF ClientOK, Reading, Busy, Active, InTx
<1>9. ClientOK(c, handler'[c], intent[c], tries[c], commits[c], rows)
  BY <1>3, <1>5, <1>6, <1>7, <1>8, StatementKeeps
<1> QED
  BY <1>2, <1>5, <1>9, OneClient

LEMMA FailuresKeep ==
    ASSUME RequestInv, ReplyInv, NEW c \in Clients,
           handler[c].pc \in Busy, EndItem(c, "failed"),
           UNCHANGED <<rows, intent, tries, commits>>
    PROVE  ReplyInv'
<1>1. handler[c] \in HandlerRow /\ handler \in [Clients -> HandlerRow]
  BY DEF RequestInv, RequestTypeOK
<1> DEFINE more == handler[c].item < Len(intent[c].items)
<1>2. /\ handler'[c].outcome = Append(handler[c].outcome, "failed")
      /\ handler'[c].item = IF more THEN handler[c].item + 1 ELSE handler[c].item
      /\ handler'[c].pc = IF more THEN "waiting" ELSE "reply"
      /\ \A d \in Clients \ {c} : handler'[d] = handler[d]
  BY <1>1 DEF EndItem, HandlerRow
<1>3. Sound(handler[c], intent[c], tries[c], commits[c])
  BY ClientsAreSound
<1>4. ClientOK(c, handler[c], intent[c], tries[c], commits[c], rows)
  BY DEF ReplyInv
<1>5. ClientOK(c, handler'[c], intent[c], tries[c], commits[c], rows)
  BY <1>2, <1>3, <1>4, FailureKeeps
<1> QED
  BY <1>2, <1>5 DEF ReplyInv

LEMMA CommitsKeep ==
    ASSUME RequestInv, ReplyInv, RequestNext, NEW c \in Clients, Commit(c)
    PROVE  ReplyInv'
<1> DEFINE outcome == IF tx = rows THEN "replayed" ELSE "ok"
           e == intent[c].items[handler[c].item]
           more == handler[c].item < Len(intent[c].items)
<1>1. /\ conn = c /\ handler[c].pc = "commit" /\ handler[c].pc # "idle" /\ rows' = tx
      /\ \/ rows' = rows
         \/ /\ Allowed(intent[c], rows[e]) /\ Current(intent[c], handler[c], rows[e])
            /\ rows' = [rows EXCEPT ![e] = Made(c, intent[c], rows[e])]
  BY CommitMakes DEF Item
<1>2. /\ EndItem(c, outcome) /\ UNCHANGED <<intent, tries>>
      /\ commits' = IF tx = rows THEN commits
                    ELSE [commits EXCEPT ![c] = @ \cup {<<tries[c], handler[c].item>>}]
  BY DEF Commit
<1>3. /\ handler \in [Clients -> HandlerRow] /\ handler[c] \in HandlerRow
      /\ rows \in [Entities -> Row] /\ commits \in [Clients -> SUBSET (Nat \X Nat)]
      /\ \A x \in Entities : Whole(rows[x])
  BY DEF RequestInv, RequestTypeOK, CommittedRowsAreWhole
<1>4. rows' \in [Entities -> Row] /\ Grown(rows, rows')
  BY <1>1, RowsGrow DEF RequestInv, RequestTypeOK
<1>5. e \in Entities /\ GoodIntent(intent[c])
  BY <1>1, RequestFacts DEF Item
<1>6. /\ handler'[c].outcome = Append(handler[c].outcome, outcome)
      /\ handler'[c].item = IF more THEN handler[c].item + 1 ELSE handler[c].item
      /\ handler'[c].pc = IF more THEN "waiting" ELSE "reply"
      /\ \A d \in Clients \ {c} : handler'[d] = handler[d]
  <2> HIDE DEF outcome
  <2> QED
    BY <1>2, <1>3 DEF EndItem, HandlerRow
<1>7. Sound(handler[c], intent[c], tries[c], commits[c])
  BY ClientsAreSound
<1>8. ClientOK(c, handler[c], intent[c], tries[c], commits[c], rows)
  BY DEF ReplyInv
<1>9. rows'[e].status # "none"
  <2>1. CASE tx = rows
    \* A replay: Insert and InsertPlan have found the row.
    <3>1. handler[c].pc \in InTx
      BY <1>1 DEF InTx
    <3>2. Stage(c, intent[c], handler[c], rows[e], tx[e])
      BY <1>1, <3>1, ImageTyped DEF Item
    <3>3. \/ rows[e].status # "none"
          \/ Allowed(intent[c], rows[e]) /\ tx[e] = Made(c, intent[c], rows[e])
      BY <1>1, <3>2 DEF Stage
    <3> QED
      BY <1>1, <1>3, <1>5, <2>1, <3>3, MadeIsWhole
  <2>2. CASE tx # rows
    <3>1. rows'[e] = Made(c, intent[c], rows[e]) /\ Allowed(intent[c], rows[e])
      BY <1>1, <1>3, <1>5, <2>2
    <3> QED
      BY <1>3, <1>5, <3>1, MadeIsWhole
  <2> QED
    BY <2>1, <2>2
<1>10. \/ outcome = "replayed" /\ commits'[c] = commits[c]
       \/ /\ outcome = "ok" /\ commits'[c] = commits[c] \cup {<<tries[c], handler[c].item>>}
          /\ Allowed(intent[c], rows[e]) /\ Current(intent[c], handler[c], rows[e])
          /\ rows'[e] = Made(c, intent[c], rows[e])
  BY <1>1, <1>2, <1>3, <1>5
<1> HIDE DEF outcome
<1>11. ClientOK(c, handler'[c], intent[c], tries[c], commits'[c], rows')
  <2>1. Committed(c, handler[c], intent[c], tries[c], commits[c], rows,
                  handler'[c], commits'[c], rows', outcome)
    BY <1>6, <1>9, <1>10 DEF Committed
  <2> QED
    BY <1>1, <1>3, <1>4, <1>7, <1>8, <2>1, CommitTells
<1>12. \A d \in Clients \ {c} : commits'[d] = commits[d]
  BY <1>2, <1>3
<1> QED
  BY <1>2, <1>6, <1>11, <1>12, OneClient

LEMMA SendsKeep ==
    ASSUME RequestInv, ReplyInv, RequestNext, NEW c \in Clients, Ask(c) \/ AskAgain(c)
    PROVE  ReplyInv'
<1>1. /\ Send(c)
      /\ handler[c].pc = "idle" \/ intent' = intent
      /\ \A d \in Clients \ {c} : intent'[d] = intent[d]
  BY DEF Ask, AskAgain, RequestInv, RequestTypeOK
<1>2. UNCHANGED <<rows, commits>>
  BY <1>1 DEF Send
<1>3. /\ handler'[c] = [NoHandler EXCEPT !.pc = "waiting"] /\ tries'[c] = tries[c] + 1
      /\ \A d \in Clients \ {c} : handler'[d] = handler[d] /\ tries'[d] = tries[d]
  BY <1>1 DEF Send, RequestInv, RequestTypeOK
<1>4. handler'[c].pc = "waiting" /\ handler'[c].item = 1 /\ handler'[c].outcome = <<>>
  BY <1>3 DEF NoHandler
<1>5. GoodIntent(intent'[c])
  <2>1. RequestInv'
    BY NextOK
  <2> QED
    BY <1>4, <2>1 DEF RequestInv, HandlersGood
<1>6. Sound(handler[c], intent[c], tries[c], commits[c])
  BY ClientsAreSound
<1>7. ClientOK(c, handler[c], intent[c], tries[c], commits[c], rows)
  BY DEF ReplyInv
<1>8. ClientOK(c, handler'[c], intent'[c], tries[c] + 1, commits[c], rows)
  BY <1>1, <1>4, <1>5, <1>6, <1>7, SendKeeps
<1> QED
  BY <1>1, <1>2, <1>3, <1>8, OneClient

LEMMA RepliesKeep ==
    ASSUME RequestInv, ReplyInv, RequestNext, NEW c \in Clients, Reply(c)
    PROVE  ReplyInv'
<1>1. UNCHANGED <<rows, intent, tries, commits>>
  BY DEF Reply
<1>2. handler[c] \in HandlerRow /\ handler \in [Clients -> HandlerRow]
  BY DEF RequestInv, RequestTypeOK
<1>3. handler[c].pc = "reply" /\ handler[c].pc \in Active
  BY DEF Reply, Active
<1>4. /\ \/ handler'[c].pc = "lost"
         \/ /\ handler'[c].pc = "answered" /\ handler'[c].outcome = handler[c].outcome
            /\ handler'[c].head = handler[c].head /\ handler'[c].body = handler[c].body
      /\ \A d \in Clients \ {c} : handler'[d] = handler[d]
  BY <1>2 DEF Reply, HandlerRow, NoHandler
<1>5. Sound(handler[c], intent[c], tries[c], commits[c])
  BY ClientsAreSound
<1>6. ClientOK(c, handler[c], intent[c], tries[c], commits[c], rows)
  BY DEF ReplyInv
<1>7. ClientOK(c, handler'[c], intent[c], tries[c], commits[c], rows)
  BY <1>3, <1>4, <1>5, <1>6, AnswerKeeps
<1> QED
  BY <1>1, <1>4, <1>7, OneClient

LEMMA QueriesKeep ==
    ASSUME RequestInv, ReplyInv, RequestNext, NEW c \in Clients, Read(c)
    PROVE  ReplyInv'
<1>1. UNCHANGED <<rows, intent, tries, commits>>
  BY DEF Read
<1>2. /\ handler[c] \in HandlerRow /\ handler \in [Clients -> HandlerRow]
      /\ rows \in [Entities -> Row] /\ \A e \in Entities : Whole(rows[e])
  BY DEF RequestInv, RequestTypeOK, CommittedRowsAreWhole
<1>3. handler[c].pc # "idle" /\ intent[c].kind \in Readers
  BY DEF Read
<1>4. Item(c) = intent[c].items[1]
  <2>1. GoodIntent(intent[c]) /\ handler[c].item <= Len(intent[c].items)
    BY <1>3 DEF RequestInv, HandlersGood
  <2>2. Len(intent[c].items) = 1
    BY <1>3, <2>1 DEF GoodIntent, Readers
  <2>3. handler[c].item \in Nat \ {0}
    BY <1>2 DEF HandlerRow
  <2>4. handler[c].item = 1
    BY <2>1, <2>2, <2>3
  <2> QED
    BY <2>4 DEF Item
<1>5. Selected(intent[c].next) = Shown(intent[c].next, rows)
  BY DEF Selected, Shown
<1> DEFINE bodyNow == IF intent[c].kind = "list" THEN Cardinality(Shown(intent[c].next, rows))
                      ELSE rows[intent[c].items[1]].conclusions
           first == [handler[c] EXCEPT !.head = Heads(intent[c], rows), !.pc = "second"]
           second == [handler[c] EXCEPT !.body = bodyNow, !.pc = "reply", !.outcome = <<"ok">>]
<1>6. /\ \/ /\ handler[c].pc = "waiting" /\ handler'[c].pc = "second"
            /\ handler'[c].head = Heads(intent[c], rows)
         \/ /\ handler[c].pc = "second" /\ handler'[c].pc = "reply"
            /\ handler'[c].head = handler[c].head
            /\ handler'[c].body = bodyNow
      /\ \A d \in Clients \ {c} : handler'[d] = handler[d]
  <2>1. \/ handler[c].pc = "waiting" /\ handler' = [handler EXCEPT ![c] = first]
        \/ handler[c].pc = "second" /\ handler' = [handler EXCEPT ![c] = second]
    BY <1>2, <1>4, <1>5 DEF Read, Heads
  <2> HIDE DEF bodyNow
  <2>2. /\ first.pc = "second" /\ first.head = Heads(intent[c], rows)
        /\ second.pc = "reply" /\ second.head = handler[c].head /\ second.body = bodyNow
    BY <1>2 DEF HandlerRow
  <2> HIDE DEF first, second
  <2> QED
    BY <1>2, <2>1, <2>2
<1> HIDE DEF first, second
<1>7. Sound(handler[c], intent[c], tries[c], commits[c])
  BY ClientsAreSound
<1>8. ClientOK(c, handler[c], intent[c], tries[c], commits[c], rows)
  BY DEF ReplyInv
<1>9. ClientOK(c, handler'[c], intent[c], tries[c], commits[c], rows)
  BY <1>2, <1>3, <1>6, <1>7, <1>8, QueryKeeps
<1> QED
  BY <1>1, <1>6, <1>9, OneClient

LEMMA EndsKeep ==
    ASSUME RequestInv, ReplyInv, EndProcess
    PROVE  ReplyInv'
<1>1. UNCHANGED <<rows, intent, tries, commits>>
  BY DEF EndProcess
<1>2. ASSUME NEW c \in Clients
      PROVE  ClientOK(c, handler'[c], intent[c], tries[c], commits[c], rows)
  <2>1. Sound(handler[c], intent[c], tries[c], commits[c])
    BY ClientsAreSound
  <2>2. ClientOK(c, handler[c], intent[c], tries[c], commits[c], rows)
    BY DEF ReplyInv
  <2>3. CASE handler[c].pc \in Active
    <3>1. handler'[c].pc = "lost"
      BY <2>3, FreshHandler DEF EndProcess
    <3> QED
      BY <2>1, <2>2, <2>3, <3>1, AnswerKeeps
  <2>4. CASE handler[c].pc \notin Active
    <3>1. handler'[c] = handler[c]
      BY <2>4 DEF EndProcess
    <3> QED
      BY <2>2, <3>1
  <2> QED
    BY <2>3, <2>4
<1> QED
  BY <1>1, <1>2 DEF ReplyInv

LEMMA ReplyInitOK ==
    ASSUME RequestInit
    PROVE  ReplyInv
<1>1. \A c \in Clients : /\ handler[c].pc = "idle" /\ intent[c] = NoIntent /\ tries[c] = 0
                         /\ commits[c] = {}
  BY DEF RequestInit, NoHandler
<1>2. ASSUME NEW c \in Clients
      PROVE  ClientOK(c, handler[c], intent[c], tries[c], commits[c], rows)
  BY <1>1 DEF ClientOK, Past, Told, Once, Reading, Active, InTx
<1> QED
  BY <1>2 DEF ReplyInv

LEMMA ReplyNextOK ==
    ASSUME RequestInv, ReplyInv, RequestNext
    PROVE  ReplyInv'
<1>1. ASSUME NEW c \in Clients, InsertPlanPanics(c) \/ Refuse(c) \/ Refused(c) \/ StatementFails(c)
      PROVE  ReplyInv'
  <2>1. /\ handler[c].pc \in Busy /\ EndItem(c, "failed")
        /\ UNCHANGED <<rows, intent, tries, commits>>
    BY <1>1 DEF InsertPlanPanics, Refuse, Refused, StatementFails, Fail, Rollback, At,
                Busy, Active, InTx
  <2> QED
    BY <2>1, FailuresKeep
<1>2. ASSUME NEW c \in Clients, Leave(c) \/ Release(c)
      PROVE  ReplyInv'
  BY <1>2, NoClientStep DEF Leave, Release
<1>3. CASE Restart
  BY <1>3, NoClientStep DEF Restart
<1> QED
  BY <1>1, <1>2, <1>3, SendsKeep, StatementsKeep, CommitsKeep, QueriesKeep, RepliesKeep,
     EndsKeep DEF RequestNext, ClientStep, Serve, Crash

LEMMA ReplyInvHolds == RequestSpec => []ReplyInv
<1>1. ReplyInv /\ UNCHANGED requestVars => ReplyInv'
  BY NoClientStep DEF requestVars
<1> QED
  BY <1>1, ReplyInitOK, ReplyNextOK, RequestInvHolds, PTL DEF RequestSpec

LEMMA ToldMeansTrue == RequestInv /\ ReplyInv => RepliesAreTrue
<1> SUFFICES ASSUME RequestInv, ReplyInv,
                    NEW c \in Clients, handler[c].pc \in {"reply", "answered"},
                    intent[c].kind \notin Readers, NEW i \in DOMAIN handler[c].outcome
             PROVE  /\ handler[c].outcome[i] = "ok" <=> <<tries[c], i>> \in commits[c]
                    /\ handler[c].outcome[i] = "replayed" =>
                          rows[intent[c].items[i]].status # "none"
  BY DEF RepliesAreTrue
<1>1. handler[c].pc \in Active \cup {"answered"}
  BY DEF Active
<1>2. DOMAIN handler[c].outcome = 1..Len(handler[c].outcome)
  BY DEF RequestInv, RequestTypeOK, HandlerRow
<1> QED
  BY <1>1, <1>2 DEF ReplyInv, ClientOK, Told

-----------------------------------------------------------------------------
(* Theorems *)

(* What the client is told is what the file holds, however its request     *)
(* failed, was taken up again or was torn apart by a crash (InTx,          *)
(* RegisterLot, the succeeded and failed lots of BatchAccept).             *)
THEOREM RepliesTrue == RequestSpec => []RepliesAreTrue
BY ToldMeansTrue, ReplyInvHolds, RequestInvHolds, PTL

(* A request sent any number of times, after lost answers, failures and    *)
(* crashes, is carried out at most once, if it creates something or names  *)
(* a version (idempotence keys, expected version of loadLot).              *)
THEOREM RetriesSafe == RequestSpec => []RetriesAreSafe
<1>1. ASSUME ReplyInv PROVE RetriesAreSafe
  <2> SUFFICES ASSUME NEW c \in Clients,
                      intent[c].kind \in {"supplier", "register", "plan"} \/ intent[c].expected > 0
               PROVE  Cardinality(commits[c]) <= 1
    BY DEF RetriesAreSafe
  <2>1. commits[c] # {} => \E x : commits[c] = {x}
    BY <1>1 DEF ReplyInv, ClientOK, Once, Creating
  <2>2. CASE commits[c] = {}
    BY <2>2, FS_EmptySet
  <2>3. CASE \E x : commits[c] = {x}
    BY <2>3, FS_Singleton
  <2> QED
    BY <2>1, <2>2, <2>3
<1> QED
  BY <1>1, ReplyInvHolds, PTL

(* A reader torn apart by any number of other requests sees at least what  *)
(* its first query spoke of: the conclusions of the lot (GetLotDetail),    *)
(* and the lots counted where none can leave the list (LotRepo.List of all *)
(* lots, or of the accepted ones).                                         *)
THEOREM ReadersNotBehind == RequestSpec => []ReadersAreNotBehind
<1>1. ASSUME ReplyInv PROVE ReadersAreNotBehind
  BY <1>1 DEF ReadersAreNotBehind, ReplyInv, ClientOK, Reading
<1> QED
  BY <1>1, ReplyInvHolds, PTL
=============================================================================
