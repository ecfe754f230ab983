---------------------------- MODULE WorklogProofs ----------------------------
(***************************************************************************)
(* What Worklog promises for every catalog, rounding rule and rate.        *)
(***************************************************************************)
EXTENDS Worklog, TLAPS

-----------------------------------------------------------------------------
(* Arithmetic *)

LEMMA Division ==
  ASSUME NEW n \in Nat, NEW d \in Nat \ {0}
  PROVE  /\ n \div d \in Nat
         /\ n % d \in 0..(d - 1)
         /\ n = (n \div d) * d + (n % d)
  OBVIOUS

LEMMA Quotient ==
  ASSUME NEW k \in Nat, NEW i \in Nat \ {0}, NEW j \in 0..(i - 1)
  PROVE  (k * i + j) \div i = k
  OBVIOUS

\* The multiple of d at or below n.
LEMMA Floor ==
  ASSUME NEW n \in Nat, NEW d \in Nat \ {0}
  PROVE  /\ (n \div d) * d \in Nat
         /\ (n \div d) * d <= n
         /\ n < (n \div d) * d + d
<1>1. PICK p \in Int : p = (n \div d) * d
  BY Division
<1>2. PICK m \in 0..(d - 1) : n = p + m
  BY Division, <1>1
<1>3. p \in Nat
  BY Division, <1>1
<1> QED BY <1>1, <1>2, <1>3

LEMMA Product ==
  ASSUME NEW m \in Nat, NEW n \in Nat
  PROVE  m * n \in Nat
  OBVIOUS

\* A rounded duration is a number of seconds.
LEMMA RoundType ==
  ASSUME NEW rule \in Rule, NEW raw \in Nat
  PROVE  Round(rule, raw) \in Nat
<1> DEFINE i == rule.interval
<1>1. rule.mode \in Modes /\ i \in Nat
  BY DEF Rule
<1>2. CASE rule.mode = "none" \/ i = 0
  BY <1>2 DEF Round
<1>3. CASE ~(rule.mode = "none" \/ i = 0)
  <2>1. i \in Nat \ {0} /\ 2 * i \in Nat \ {0} /\ 2 * raw + i \in Nat /\ raw + i - 1 \in Nat
    BY <1>1, <1>3
  <2>2. /\ (2 * raw + i) \div (2 * i) \in Nat
        /\ (raw + i - 1) \div i \in Nat
        /\ raw \div i \in Nat
    BY <2>1, Division
  <2>3. /\ ((2 * raw + i) \div (2 * i)) * i \in Nat
        /\ ((raw + i - 1) \div i) * i \in Nat
        /\ (raw \div i) * i \in Nat
    BY <2>2, <1>1, Product
  <2> QED BY <2>3, <1>3 DEF Round
<1> QED BY <1>2, <1>3

\* An amount is a whole number of cents, or NULL without a rate.
LEMMA AmountType ==
  ASSUME NEW d \in Nat, NEW rate \in OrNone(Rates)
  PROVE  Amount(d, rate) \in OrNone(Nat)
<1>1. CASE rate = None
  BY <1>1 DEF Amount, OrNone
<1>2. CASE rate # None
  <2>1. rate \in Nat
    BY <1>2, RatesAssumption DEF OrNone
  <2>2. d * rate \in Nat
    BY <2>1, Product
  <2>3. (d * rate) \div Hour \in Nat
    BY <2>2, HourAssumption, Division
  <2> QED BY <1>2, <2>3 DEF Amount, HalfEven, OrNone
<1> QED BY <1>1, <1>2

\* Rounding down or up changes a duration by less than one interval, in its own
\* direction; a duration that is on a boundary stays: rounding again, as duplicating an
\* entry does, changes nothing.
LEMMA RoundDown ==
  ASSUME NEW rule \in Rule, rule.mode = "down", rule.interval # 0, NEW raw \in Nat
  PROVE  Round(rule, raw) <= raw /\ raw < Round(rule, raw) + rule.interval
<1>1. rule.interval \in Nat \ {0}
  BY DEF Rule
<1>2. Round(rule, raw) = (raw \div rule.interval) * rule.interval
  BY DEF Round
<1> QED BY <1>1, <1>2, Floor

LEMMA RoundUp ==
  ASSUME NEW rule \in Rule, rule.mode = "up", rule.interval # 0, NEW raw \in Nat
  PROVE  raw <= Round(rule, raw) /\ Round(rule, raw) < raw + rule.interval
<1> DEFINE i == rule.interval
           m == raw + i - 1
<1>1. i \in Nat \ {0} /\ m \in Nat
  BY DEF Rule
<1>2. Round(rule, raw) = (m \div i) * i
  BY DEF Round
<1>3. PICK p \in Nat : p = (m \div i) * i /\ p <= m /\ m < p + i
  BY <1>1, Floor
<1> QED BY <1>1, <1>2, <1>3

LEMMA RoundNearest ==
  ASSUME NEW rule \in Rule, rule.mode = "nearest", rule.interval # 0, NEW raw \in Nat
  PROVE  /\ 2 * Round(rule, raw) <= 2 * raw + rule.interval
         /\ 2 * raw < 2 * Round(rule, raw) + rule.interval
<1> DEFINE i == rule.interval
           m == 2 * raw + i
           q == m \div (2 * i)
<1>1. i \in Nat \ {0} /\ m \in Nat /\ 2 * i \in Nat \ {0}
  BY DEF Rule
<1>2. Round(rule, raw) = q * i
  BY DEF Round
<1>3. q \in Nat /\ q * (2 * i) <= m /\ m < q * (2 * i) + 2 * i
  BY <1>1, Division, Floor
<1>4. PICK p \in Nat : p = q * i
  BY <1>1, <1>3, Product
<1>5. q * (2 * i) = 2 * p
  <2> HIDE DEF q
  <2> QED BY <1>1, <1>3, <1>4
<1>6. 2 * p <= 2 * raw + i /\ 2 * raw + i < 2 * p + 2 * i
  BY <1>3, <1>5
<1>7. 2 * p <= 2 * raw + i /\ 2 * raw < 2 * p + i
  BY <1>1, <1>6
<1> QED BY <1>2, <1>4, <1>7

\* Rounding a rounded duration again under the same rule changes nothing: the copy
\* that duplicate_entry makes of an entry has the duration of the entry.
THEOREM RoundingIsStable ==
  ASSUME NEW rule \in Rule, NEW raw \in Nat
  PROVE  Round(rule, Round(rule, raw)) = Round(rule, raw)
<1> DEFINE i == rule.interval
<1>1. rule.mode \in Modes /\ i \in Nat
  BY DEF Rule
<1>2. CASE rule.mode = "none" \/ i = 0
  BY <1>2 DEF Round
<1>3. CASE ~(rule.mode = "none" \/ i = 0)
  <2>1. PICK k \in Nat : Round(rule, raw) = k * i
    <3>1. i \in Nat \ {0} /\ 2 * i \in Nat \ {0} /\ 2 * raw + i \in Nat /\ raw + i - 1 \in Nat
      BY <1>1, <1>3
    <3>2. /\ (2 * raw + i) \div (2 * i) \in Nat
          /\ (raw + i - 1) \div i \in Nat
          /\ raw \div i \in Nat
      BY <3>1, Division
    <3> QED BY <3>2, <1>3 DEF Round
  <2>2. i \in Nat \ {0}
    BY <1>1, <1>3
  <2>3. (k * i) \div i = k
    <3>1. (k * i + 0) \div i = k
      <4>1. 0 \in 0..(i - 1)
        BY <2>2
      <4> HIDE DEF i
      <4> QED BY <2>2, <4>1, Quotient
    <3> QED BY <3>1, <2>2, Product
  <2>4. (k * i + i - 1) \div i = k
    <3>1. (k * i + (i - 1)) \div i = k /\ k * i \in Nat
      BY <2>2, Quotient, Product
    <3>2. k * i + i - 1 = k * i + (i - 1)
      BY <3>1, <2>2
    <3> QED BY <3>1, <3>2
  <2>5. (2 * (k * i) + i) \div (2 * i) = k
    <3>1. (k * (2 * i) + i) \div (2 * i) = k
      <4>1. 2 * i \in Nat \ {0} /\ i \in 0..(2 * i - 1)
        BY <2>2
      <4> HIDE DEF i
      <4> QED BY <4>1, Quotient
    <3>2. k * (2 * i) = 2 * (k * i)
      BY <2>2
    <3> QED BY <3>1, <3>2
  <2> QED BY <1>3, <2>1, <2>3, <2>4, <2>5 DEF Round
<1> QED BY <1>2, <1>3

\* Rounding moves a duration by less than one interval, in the direction of its
\* mode, and to the nearest boundary by at most half of one (round_duration).
THEOREM RoundingIsClose ==
  ASSUME NEW rule \in Rule, NEW raw \in Nat
  PROVE  \/ Round(rule, raw) = raw
         \/ /\ raw < Round(rule, raw) + rule.interval
            /\ Round(rule, raw) < raw + rule.interval
            /\ rule.mode = "down" => Round(rule, raw) <= raw
            /\ rule.mode = "up" => raw <= Round(rule, raw)
            /\ rule.mode = "nearest" =>
                /\ 2 * Round(rule, raw) <= 2 * raw + rule.interval
                /\ 2 * raw < 2 * Round(rule, raw) + rule.interval
<1>1. rule.mode \in Modes /\ rule.interval \in Nat /\ Round(rule, raw) \in Nat
  BY RoundType DEF Rule
<1>2. CASE rule.mode = "none" \/ rule.interval = 0
  BY <1>2 DEF Round
<1>3. CASE rule.mode = "down" /\ rule.interval # 0
  BY <1>1, <1>3, RoundDown
<1>4. CASE rule.mode = "up" /\ rule.interval # 0
  BY <1>1, <1>4, RoundUp
<1>5. CASE rule.mode = "nearest" /\ rule.interval # 0
  BY <1>1, <1>5, RoundNearest
<1> QED BY <1>1, <1>2, <1>3, <1>4, <1>5 DEF Modes

\* An amount is the whole number of cents nearest to duration * rate, the even one
\* of two that are equally near (_compute_billable_amount).
THEOREM AmountIsNearest ==
  ASSUME NEW d \in Nat, NEW rate \in Rates
  PROVE  /\ 2 * (Amount(d, rate) * Hour) <= 2 * (d * rate) + Hour
         /\ 2 * (d * rate) <= 2 * (Amount(d, rate) * Hour) + Hour
         /\ \/ 2 * (Amount(d, rate) * Hour) = 2 * (d * rate) + Hour
            \/ 2 * (d * rate) = 2 * (Amount(d, rate) * Hour) + Hour
            => Amount(d, rate) % 2 = 0
<1> DEFINE n == d * rate
           q == n \div Hour
           rest == n % Hour
<1>1. Hour \in Nat \ {0} /\ rate \in Nat /\ rate # None /\ n \in Nat
  BY HourAssumption, RatesAssumption, Product
<1> HIDE DEF n
<1>2. q \in Nat /\ rest \in 0..(Hour - 1) /\ n = q * Hour + rest
  BY <1>1, Division
<1>3. Amount(d, rate) = IF 2 * rest > Hour \/ (2 * rest = Hour /\ q % 2 = 1) THEN q + 1 ELSE q
  BY <1>1 DEF Amount, HalfEven, n
<1>4. PICK p \in Nat : p = q * Hour
  BY <1>1, <1>2, Product
<1>5. (q + 1) * Hour = p + Hour
  <2> HIDE DEF q
  <2> QED BY <1>1, <1>2, <1>4
<1>6. q % 2 \in 0..1 /\ (q % 2 = 1 => (q + 1) % 2 = 0)
  <2> HIDE DEF q
  <2> QED BY <1>2
<1> HIDE DEF q, rest
<1>7. CASE 2 * rest > Hour \/ (2 * rest = Hour /\ q % 2 = 1)
  <2>1. Amount(d, rate) * Hour = p + Hour
    BY <1>3, <1>5, <1>7
  <2>2. 2 * n = 2 * p + 2 * rest /\ 2 * rest < 2 * Hour
    BY <1>1, <1>2, <1>4
  <2>3. Amount(d, rate) = q + 1
    BY <1>3, <1>7
  <2> QED BY <1>1, <1>2, <1>4, <1>6, <1>7, <2>1, <2>2, <2>3 DEF n
<1>8. CASE ~(2 * rest > Hour \/ (2 * rest = Hour /\ q % 2 = 1))
  <2>1. Amount(d, rate) * Hour = p /\ Amount(d, rate) = q
    BY <1>3, <1>4, <1>8
  <2>2. 2 * n = 2 * p + 2 * rest /\ rest >= 0
    BY <1>1, <1>2, <1>4
  <2> QED BY <1>1, <1>2, <1>4, <1>6, <1>8, <2>1, <2>2 DEF n
<1> QED BY <1>7, <1>8

-----------------------------------------------------------------------------
(* Types *)

USE DEF OrNone

LEMMA ResolveType ==
  ASSUME TypeOK, NEW p \in Projects, NEW t \in OrNone(Tasks)
  PROVE  ResolveRate(p, t) \in OrNone(Rates)
<1> DEFINE c == project[p].client
           level == << IF t = None THEN None ELSE task[t].rate,
                       project[p].rate,
                       IF c = None THEN None ELSE client[c].rate,
                       workspace.rate >>
           known == {i \in 1..4 : level[i] # None}
           first == CHOOSE i \in known : \A j \in known : i <= j
<1>1. project[p] \in Project /\ c \in OrNone(Clients)
  BY DEF TypeOK, Project
<1>2. /\ level[1] \in OrNone(Rates)
      /\ level[2] \in OrNone(Rates)
      /\ level[3] \in OrNone(Rates)
      /\ level[4] \in OrNone(Rates)
  BY <1>1 DEF TypeOK, Project, Item
<1>3. \A i \in 1..4 : level[i] \in OrNone(Rates)
  <2> HIDE DEF level
  <2> QED BY <1>2
<1>4. CASE known # {} /\ workspace.billable
  <2>1. \E i \in known : \A j \in known : i <= j
    <3> HIDE DEF level
    <3>1. known \subseteq 1..4
      OBVIOUS
    <3> HIDE DEF known
    <3>2. \E i \in 1..4 : i \in known
      BY <3>1, <1>4
    <3>3. CASE 1 \in known
      BY <3>1, <3>3
    <3>4. CASE 1 \notin known /\ 2 \in known
      BY <3>1, <3>4
    <3>5. CASE 1 \notin known /\ 2 \notin known /\ 3 \in known
      BY <3>1, <3>5
    <3>6. CASE 1 \notin known /\ 2 \notin known /\ 3 \notin known /\ 4 \in known
      BY <3>1, <3>6
    <3> QED BY <3>2, <3>3, <3>4, <3>5, <3>6
  <2>2. first \in known
    BY <2>1
  <2>3. ResolveRate(p, t) = level[first]
    BY <1>4 DEF ResolveRate
  <2> QED BY <1>3, <2>2, <2>3
<1> QED BY <1>4 DEF ResolveRate

LEMMA PricedType ==
  ASSUME TypeOK, NEW row \in Row, NEW raw \in Nat
  PROVE  /\ Priced(row, raw) \in Row
         /\ Priced(row, raw).duration = Round(workspace.rule, raw)
         /\ Priced(row, raw).amount = Amount(Priced(row, raw).duration, Priced(row, raw).rate)
         /\ Priced(row, raw).project = row.project /\ Priced(row, raw).task = row.task
         /\ Priced(row, raw).running = row.running
         /\ Priced(row, raw).start = row.start /\ Priced(row, raw).end = row.end
<1> DEFINE d == Round(workspace.rule, raw)
           rate == ResolveRate(row.project, row.task)
<1>1. row.project \in Projects /\ row.task \in OrNone(Tasks)
  BY DEF Row
<1>2. workspace.rule \in Rule
  BY RulesAssumption DEF TypeOK
<1>3. d \in Nat /\ rate \in OrNone(Rates)
  BY <1>1, <1>2, RoundType, ResolveType
<1>4. Amount(d, rate) \in OrNone(Nat)
  BY <1>3, AmountType
<1>5. Priced(row, raw) = [row EXCEPT !.duration = d, !.rate = rate, !.amount = Amount(d, rate)]
  BY DEF Priced
<1> HIDE DEF d, rate
<1>6. Priced(row, raw) \in Row
  BY <1>3, <1>4, <1>5 DEF Row
<1>7. row = [project |-> row.project, task |-> row.task, running |-> row.running,
             start |-> row.start, end |-> row.end, duration |-> row.duration,
             rate |-> row.rate, amount |-> row.amount]
  BY DEF Row
<1>8. /\ Priced(row, raw).duration = d /\ Priced(row, raw).rate = rate
      /\ Priced(row, raw).amount = Amount(d, rate)
  BY <1>5, <1>7
<1>9. /\ Priced(row, raw).project = row.project /\ Priced(row, raw).task = row.task
      /\ Priced(row, raw).running = row.running
      /\ Priced(row, raw).start = row.start /\ Priced(row, raw).end = row.end
  BY <1>5, <1>7
<1>10. d = Round(workspace.rule, raw)
  BY DEF d
<1> QED BY <1>6, <1>8, <1>9, <1>10

LEMMA SecondsType ==
  ASSUME NEW s \in Nat, NEW e \in Nat
  PROVE  Seconds(s, e) \in Nat
<1>1. CASE e <= s
  BY <1>1 DEF Seconds
<1>2. CASE ~(e <= s)
  <2>1. e - s \in Nat
    BY <1>2
  <2> QED BY <1>2, <2>1, TimeAssumption, Division DEF Seconds
<1> QED BY <1>1, <1>2

LEMMA SecondsOfSpan ==
  ASSUME NEW raw \in Nat
  PROVE  raw * Second \in Nat /\ Seconds(0, raw * Second) = raw
<1>1. Second \in Nat \ {0}
  BY TimeAssumption
<1>2. raw * Second \in Nat
  BY <1>1, Product
<1>3. CASE raw = 0
  BY <1>1, <1>3 DEF Seconds
<1>4. CASE raw # 0
  <2>1. raw * Second > 0
    BY <1>1, <1>2, <1>4
  <2>2. (raw * Second + 0) \div Second = raw
    <3>1. 0 \in 0..(Second - 1)
      BY <1>1
    <3> QED BY <1>1, <3>1, Quotient
  <2>3. PICK n \in Nat : n = raw * Second
    BY <1>2
  <2>4. Seconds(0, n) = n \div Second
    <3>1. n > 0 /\ ~(n <= 0) /\ n - 0 = n
      BY <2>1, <2>3
    <3> QED BY <3>1 DEF Seconds
  <2>5. n + 0 = n
    OBVIOUS
  <2> QED BY <1>2, <2>2, <2>3, <2>4, <2>5
<1> QED BY <1>2, <1>3, <1>4

-----------------------------------------------------------------------------
(* Reading: what a request takes to its commit *)

\* A row that is consistent in itself, whatever rule and rate it was saved under.
Fair(row) ==
    ~row.running =>
        /\ row.end # None
        /\ row.amount = Amount(row.duration, row.rate)
        /\ \E rule \in Rules : row.duration = Round(rule, Seconds(row.start, row.end))

AllFair == \A e \in Entries : entry[e] # None => Fair(entry[e])

Loads(w) ==
    /\ w \in Request
    /\ w.target # None => /\ entry[w.target] # None
                          /\ w.old = entry[w.target]
                          /\ w.new # None

FairRequest(w) ==
    /\ w.target # None => Fair(w.new)
    /\ w.insert # None => Fair(w.insert)

LEMMA RowNotNone == ASSUME NEW row \in Row PROVE row # None
  BY RowAssumption

LEMMA PricedFair ==
  ASSUME TypeOK, NEW row \in Row, row.end # None
  PROVE  /\ Priced(row, Seconds(row.start, row.end)) \in Row
         /\ Fair(Priced(row, Seconds(row.start, row.end)))
<1> DEFINE raw == Seconds(row.start, row.end)
           new == Priced(row, raw)
<1>1. raw \in Nat
  BY SecondsType DEF Row
<1>2. /\ new \in Row
      /\ new.duration = Round(workspace.rule, raw)
      /\ new.amount = Amount(new.duration, new.rate)
      /\ new.start = row.start /\ new.end = row.end
  BY <1>1, PricedType
<1>3. workspace.rule \in Rules
  BY DEF TypeOK
<1> HIDE DEF new
<1>4. Fair(new)
  BY <1>2, <1>3 DEF Fair
<1> QED BY <1>2, <1>4 DEF new

LEMMA StoppedRow ==
  ASSUME TypeOK, NEW row \in Row, NEW at \in Times
  PROVE  Stopped(row, at) \in Row /\ Fair(Stopped(row, at))
<1> DEFINE end == [row EXCEPT !.end = at, !.running = FALSE]
<1>1. at \in Nat /\ at # None
  BY TimeAssumption, NoneAssumption DEF Times
<1>2. end \in Row /\ end.end = at /\ end.start = row.start
  BY <1>1 DEF Row
<1>3. Stopped(row, at) = Priced(end, Seconds(end.start, end.end))
  BY <1>2 DEF Stopped
<1> QED BY <1>1, <1>2, <1>3, PricedFair

LEMMA StartedRow ==
  ASSUME TypeOK, NEW p \in Projects, NEW t \in OrNone(Tasks)
  PROVE  StartedNow(p, t) \in Row /\ Fair(StartedNow(p, t))
<1>1. ResolveRate(p, t) \in OrNone(Rates)
  BY ResolveType
<1>2. now \in Nat
  BY TimeAssumption DEF TypeOK, Times
<1> QED BY <1>1, <1>2 DEF StartedNow, Row, Fair

LEMMA LoggedRow ==
  ASSUME TypeOK, NEW p \in Projects, NEW t \in OrNone(Tasks), NEW s \in Nat, NEW e \in Nat
  PROVE  Logged(p, t, s, e, Seconds(s, e)) \in Row /\ Fair(Logged(p, t, s, e, Seconds(s, e)))
<1> DEFINE row == [project |-> p, task |-> t, running |-> FALSE, start |-> s, end |-> e,
                   duration |-> None, rate |-> None, amount |-> None]
<1>1. row \in Row /\ row.end # None
  BY NoneAssumption DEF Row
<1>2. Logged(p, t, s, e, Seconds(s, e)) = Priced(row, Seconds(row.start, row.end))
  BY DEF Logged
<1> QED BY <1>1, <1>2, PricedFair

LEMMA UpdatesLoads ==
  ASSUME TypeOK, NEW e \in Entries, entry[e] # None, NEW new \in Row
  PROVE  Loads(Updates(e, new)) /\ (Fair(new) => FairRequest(Updates(e, new)))
  BY RowNotNone DEF Loads, FairRequest, Updates, Idle, Request, TypeOK

LEMMA BothLoads ==
  ASSUME TypeOK, NEW e \in Entries, entry[e] # None, NEW new \in Row, NEW row \in Row,
         Fair(new), Fair(row)
  PROVE  /\ Loads([Updates(e, new) EXCEPT !.insert = row])
         /\ FairRequest([Updates(e, new) EXCEPT !.insert = row])
  BY RowNotNone DEF Loads, FairRequest, Updates, Idle, Request, TypeOK

LEMMA InsertsLoads ==
  ASSUME NEW row \in Row
  PROVE  Loads(Inserts(row)) /\ (Fair(row) => FairRequest(Inserts(row)))
  BY DEF Loads, FairRequest, Inserts, Idle, Request

LEMMA TimerLoads ==
  ASSUME TypeOK, NEW r \in Requests, NEW force \in BOOLEAN, NEW row \in Row, Fair(row),
         BeginTimer(r, force, row)
  PROVE  \E w : Begin(r, w) /\ Loads(w) /\ FairRequest(w)
<1>1. CASE Begin(r, Inserts(row))
  BY <1>1, InsertsLoads
<1>2. ASSUME NEW e \in Running,
             Begin(r, [Updates(e, Stopped(entry[e], now)) EXCEPT !.insert = row])
      PROVE  \E w : Begin(r, w) /\ Loads(w) /\ FairRequest(w)
  <2> DEFINE new == Stopped(entry[e], now)
             w == [Updates(e, new) EXCEPT !.insert = row]
  <2>1. e \in Entries /\ entry[e] # None /\ entry[e] \in Row /\ now \in Times
    BY DEF Running, TypeOK
  <2>2. new \in Row /\ Fair(new)
    BY <2>1, StoppedRow
  <2>3. Loads(w) /\ FairRequest(w)
    BY <2>1, <2>2, BothLoads
  <2> QED BY <1>2, <2>3
<1> QED BY <1>1, <1>2, BeginTimer(r, force, row) DEF BeginTimer

\* Every read step takes a well-formed request to its commit, and a fair one if the
\* entries it reads are fair.
LEMMA ReadLoads ==
  ASSUME TypeOK, NEW r \in Requests, Read(r)
  PROVE  \E w : Begin(r, w) /\ Loads(w) /\ (AllFair => FairRequest(w))
<1> DEFINE Goal == \E w : Begin(r, w) /\ Loads(w) /\ (AllFair => FairRequest(w))
<1>1. \A e \in Entries : entry[e] # None => entry[e] \in Row
  BY DEF TypeOK
<1>2. ASSUME NEW p \in Projects, NEW t \in OrNone(Tasks), NEW force \in BOOLEAN,
             StartTimer(r, p, t, force)
      PROVE  Goal
  <2>1. BeginTimer(r, force, StartedNow(p, t))
    BY <1>2 DEF StartTimer
  <2> QED BY <2>1, StartedRow, TimerLoads
<1>3. ASSUME NEW e \in Entries, NEW force \in BOOLEAN, ContinueEntry(r, e, force)
      PROVE  Goal
  <2>1. entry[e] # None /\ BeginTimer(r, force, StartedNow(entry[e].project, entry[e].task))
    BY <1>3 DEF ContinueEntry
  <2>2. entry[e].project \in Projects /\ entry[e].task \in OrNone(Tasks)
    BY <1>1, <2>1 DEF Row
  <2> QED BY <2>1, <2>2, StartedRow, TimerLoads
<1>4. ASSUME NEW e \in Entries, NEW at \in Times, StopTimer(r, e, at)
      PROVE  Goal
  <2> DEFINE new == Stopped(entry[e], at)
  <2>1. entry[e] # None /\ Begin(r, Updates(e, new))
    BY <1>4 DEF StopTimer, Running
  <2>2. new \in Row /\ Fair(new)
    BY <1>1, <2>1, StoppedRow
  <2> HIDE DEF new
  <2> QED BY <2>1, <2>2, UpdatesLoads
<1>5. ASSUME NEW p \in Projects, NEW t \in OrNone(Tasks), NEW s \in Times, NEW x \in Times,
             CreateManual(r, p, t, s, x)
      PROVE  Goal
  <2> DEFINE row == Logged(p, t, s, x, Seconds(s, x))
  <2>1. Begin(r, Inserts(row))
    BY <1>5 DEF CreateManual
  <2>2. s \in Nat /\ x \in Nat
    BY TimeAssumption DEF Times
  <2>3. row \in Row /\ Fair(row)
    BY <2>2, LoggedRow
  <2> HIDE DEF row
  <2> QED BY <2>1, <2>3, InsertsLoads
<1>6. ASSUME NEW e \in Entries, DuplicateEntry(r, e)
      PROVE  Goal
  <2> DEFINE src == entry[e]
             raw == IF src.duration \notin {None, 0} THEN src.duration
                    ELSE IF src.end # None THEN Seconds(src.start, src.end) ELSE 0
             row == Logged(src.project, src.task, 0, raw * Second, raw)
  <2>1. src \in Row /\ Begin(r, Inserts(row))
    BY <1>1, <1>6 DEF DuplicateEntry
  <2>2. raw \in Nat
    BY <2>1, SecondsType DEF Row
  <2> HIDE DEF raw
  <2>3. raw * Second \in Nat /\ Seconds(0, raw * Second) = raw
    BY <2>2, SecondsOfSpan
  <2>4. row \in Row /\ Fair(row)
    <3>1. src.project \in Projects /\ src.task \in OrNone(Tasks) /\ 0 \in Nat
      BY <2>1 DEF Row
    <3>2. row = Logged(src.project, src.task, 0, raw * Second, Seconds(0, raw * Second))
      BY <2>3
    <3> QED BY <2>3, <3>1, <3>2, LoggedRow
  <2> HIDE DEF row
  <2> QED BY <2>1, <2>4, InsertsLoads
<1>7. ASSUME NEW e \in Entries, NEW p \in OrNone(Projects), NEW t \in OrNone(Tasks),
             NEW s \in OrNone(Times), NEW x \in OrNone(Times), UpdateEntry(r, e, p, t, s, x)
      PROVE  Goal
  <2> DEFINE given(v, column) == IF v = None THEN column ELSE v
             row == [entry[e] EXCEPT !.project = given(p, @), !.task = given(t, @),
                                     !.start = given(s, @), !.end = given(x, @)]
             raw == IF row.end # None THEN Seconds(row.start, row.end)
                    ELSE IF row.duration # None THEN row.duration ELSE 0
             new == Priced(row, raw)
  <2>1. entry[e] # None /\ entry[e] \in Row /\ Begin(r, Updates(e, new))
    BY <1>1, <1>7 DEF UpdateEntry
  <2>2. row \in Row /\ row.running = entry[e].running
                    /\ (entry[e].end # None => row.end # None)
    <3>1. /\ given(p, entry[e].project) \in Projects
          /\ given(t, entry[e].task) \in OrNone(Tasks)
          /\ given(s, entry[e].start) \in Nat
          /\ given(x, entry[e].end) \in OrNone(Nat)
      BY <2>1, TimeAssumption DEF Row, Times
    <3>2. entry[e].end # None => given(x, entry[e].end) # None
      OBVIOUS
    <3> HIDE DEF given
    <3> QED BY <2>1, <3>1, <3>2 DEF Row
  <2> HIDE DEF row
  <2>3. new \in Row /\ new.running = row.running
    <3>1. raw \in Nat
      BY <2>2, SecondsType DEF Row
    <3> QED BY <2>2, <3>1, PricedType
  <2>4. AllFair => Fair(new)
    <3>1. CASE row.end # None
      BY <2>2, <3>1, PricedFair
    <3>2. CASE row.end = None
      BY <2>1, <2>2, <2>3, <3>2 DEF AllFair, Fair
    <3> QED BY <3>1, <3>2
  <2> HIDE DEF new
  <2> QED BY <2>1, <2>3, <2>4, UpdatesLoads
<1> QED BY <1>2, <1>3, <1>4, <1>5, <1>6, <1>7 DEF Read

-----------------------------------------------------------------------------
(* Committing: what each step leaves in the rows *)

\* A request that will update a row carries the row it read and the row it wants.
Loaded == \A r \in Requests : req[r].target # None =>
            req[r].old # None /\ req[r].new # None

Columns(x, y) ==
    /\ x.project = y.project /\ x.running = y.running
    /\ x.start = y.start /\ x.end = y.end /\ x.duration = y.duration
    /\ x.rate = y.rate /\ x.amount = y.amount

LEMMA MergeType ==
  ASSUME NEW old \in Row, NEW new \in Row, NEW row \in Row
  PROVE  /\ Merge(old, new, row) \in Row
         /\ Columns(old, row) => Columns(Merge(old, new, row), new)
<1> DEFINE column(c) == IF new[c] # old[c] THEN new[c] ELSE row[c]
           merged == [project |-> column("project"), task |-> column("task"),
                      running |-> column("running"), start |-> column("start"),
                      end |-> column("end"), duration |-> column("duration"),
                      rate |-> column("rate"), amount |-> column("amount")]
<1>1. Merge(old, new, row) = merged
  BY DEF Merge
<1>2. merged \in Row
  <2>1. /\ column("project") \in Projects /\ column("task") \in OrNone(Tasks)
        /\ column("running") \in BOOLEAN
        /\ column("start") \in Nat /\ column("end") \in OrNone(Nat)
        /\ column("duration") \in OrNone(Nat) /\ column("rate") \in OrNone(Rates)
        /\ column("amount") \in OrNone(Nat)
    BY DEF Row
  <2> HIDE DEF column
  <2> QED BY <2>1 DEF Row
<1>3. Columns(old, row) => Columns(merged, new)
  BY DEF Columns
<1> HIDE DEF merged
<1> QED BY <1>1, <1>2, <1>3

LEMMA FairColumns ==
  ASSUME NEW x, NEW y, Columns(x, y), Fair(y)
  PROVE  Fair(x)
  BY DEF Columns, Fair

\* A commit replaces its target by an accepted merge and one other row by an
\* accepted insert.
LEMMA CommitRows ==
  ASSUME TypeOK, Loaded, NEW r \in Requests, Commit(r)
  PROVE  /\ TypeOK' /\ UNCHANGED catalog
         /\ req' = [req EXCEPT ![r] = Idle]
         /\ \A e \in Entries :
              \/ entry'[e] = entry[e]
              \/ /\ req[r].insert # None
                 /\ entry'[e] = req[r].insert /\ Accepted(req[r].insert)
              \/ /\ req[r].target = e /\ entry[e] # None
                 /\ entry'[e] = Merge(req[r].old, req[r].new, entry[e])
                 /\ Accepted(Merge(req[r].old, req[r].new, entry[e]))
<1> DEFINE q == req[r]
           merged == Merge(q.old, q.new, entry[q.target])
<1>1. q \in Request
  BY DEF TypeOK
<1>2. q.target # None => q.target \in Entries /\ entry[q.target] # None /\ Accepted(merged)
  BY <1>1 DEF Commit, Request
<1>3. q.insert # None => q.insert \in Row /\ Accepted(q.insert)
  BY <1>1 DEF Commit, Request
<1>4. q.target # None => merged \in Row
  <2>1. q.target # None =>
          q.old \in Row /\ q.new \in Row /\ entry[q.target] \in Row
    BY <1>1, <1>2 DEF Loaded, Request, TypeOK
  <2> QED BY <2>1, MergeType
<1>5. PICK id \in Entries :
        /\ used' = IF q.insert # None THEN used \cup {id} ELSE used
        /\ entry' = [e \in Entries |->
                       IF q.insert # None /\ e = id THEN q.insert
                       ELSE IF q.target # None /\ e = q.target THEN merged ELSE entry[e]]
  BY DEF Commit
<1>6. req' = [req EXCEPT ![r] = Idle] /\ UNCHANGED <<project, task, client, workspace, now, edits>>
  BY DEF Commit, Finish, catalog
<1> HIDE DEF merged
<1>7. entry' \in [Entries -> OrNone(Row)]
  BY <1>3, <1>4, <1>5 DEF TypeOK
<1>8. used' \subseteq Entries
  BY <1>5 DEF TypeOK
<1>9. req' \in [Requests -> Request]
  BY <1>6 DEF TypeOK, Idle, Request
<1>10. TypeOK'
  BY <1>6, <1>7, <1>8, <1>9 DEF TypeOK, Times
<1>11. ASSUME NEW e \in Entries
       PROVE  \/ entry'[e] = entry[e]
              \/ /\ q.insert # None
                 /\ entry'[e] = q.insert /\ Accepted(q.insert)
              \/ /\ q.target = e /\ entry[e] # None
                 /\ entry'[e] = merged /\ Accepted(merged)
  BY <1>2, <1>3, <1>5
<1> USE DEF merged
<1>12. q.target \in Entries => merged = Merge(q.old, q.new, entry[q.target])
  OBVIOUS
<1> QED BY <1>6, <1>10, <1>11 DEF catalog

-----------------------------------------------------------------------------
(* The catalog *)

\* A catalog edit leaves the entries alone but for the tasks it deletes, and a
\* project or a task that is gone has no entries.
LEMMA CatalogRows ==
  ASSUME TypeOK, EditCatalog
  PROVE  /\ TypeOK' /\ UNCHANGED req
         /\ \A e \in Entries : entry[e] = None <=> entry'[e] = None
         /\ \A e \in Entries : entry[e] # None => Columns(entry'[e], entry[e])
         /\ NothingOrphaned => NothingOrphaned'
<1> DEFINE Goal == /\ TypeOK' /\ UNCHANGED req
                   /\ \A e \in Entries : entry[e] = None <=> entry'[e] = None
                   /\ \A e \in Entries : entry[e] # None => Columns(entry'[e], entry[e])
                   /\ NothingOrphaned => NothingOrphaned'
<1>1. ASSUME NEW P \in [Projects -> Project], NEW T \in [Tasks -> Item],
             NEW C \in [Clients -> Item],
             NEW W \in [rule : Rules, billable : BOOLEAN, rate : OrNone(Rates)],
             Edit, project' = P, task' = T, client' = C, workspace' = W, UNCHANGED entry,
             \A p \in Projects : Stored(project[p]) => Stored(P[p]),
             \A t \in Tasks : Stored(task[t]) => Stored(T[t])
      PROVE  Goal
  <2>1. edits' \in 0..MaxEdits /\ UNCHANGED <<used, now, req>>
    BY <1>1, TimeAssumption DEF Edit, TypeOK
  <2>2. TypeOK'
    BY <1>1, <2>1 DEF TypeOK, Times
  <2>3. \A e \in Entries : entry[e] # None => Columns(entry'[e], entry[e])
    BY <1>1 DEF Columns
  <2>4. \A e \in Entries : entry[e] # None =>
          entry[e].project \in Projects /\ entry[e].task \in OrNone(Tasks)
    BY DEF TypeOK, Row
  <2>5. NothingOrphaned => NothingOrphaned'
    BY <1>1, <2>4 DEF NothingOrphaned
  <2> QED BY <1>1, <2>1, <2>2, <2>3, <2>5
<1>2. ASSUME NEW p \in Projects, NEW c \in OrNone(Clients), NEW rate \in OrNone(Rates),
             NEW open \in BOOLEAN,
             \/ CreateProject(p, c, rate, open)
             \/ \E state \in {"active", "archived"} : UpdateProject(p, state, c, rate, open)
      PROVE  Goal
  <2>1. PICK state \in {"active", "archived"} :
          /\ Edit
          /\ project' = [project EXCEPT ![p] =
               [state |-> state, client |-> c, rate |-> rate, open |-> open]]
          /\ UNCHANGED <<entry, task, client, workspace>>
    BY <1>2 DEF CreateProject, UpdateProject
  <2>2. project' \in [Projects -> Project]
    BY <2>1 DEF TypeOK, Project
  <2>3. \A x \in Projects : Stored(project[x]) => Stored(project'[x])
    BY <2>1 DEF TypeOK, Stored
  <2> QED BY <1>1, <2>1, <2>2, <2>3 DEF TypeOK
<1>3. ASSUME NEW p \in Projects, ArchiveProject(p) PROVE Goal
  <2>1. project' \in [Projects -> Project]
    BY <1>3 DEF ArchiveProject, TypeOK, Project
  <2>2. \A x \in Projects : Stored(project[x]) => Stored(project'[x])
    BY <1>3 DEF ArchiveProject, TypeOK, Stored, Project
  <2> QED BY <1>1, <1>3, <2>1, <2>2 DEF ArchiveProject, TypeOK
<1>4. ASSUME NEW t \in Tasks, NEW rate \in OrNone(Rates),
             CreateTask(t, rate) \/ UpdateTask(t, rate)
      PROVE  Goal
  <2>1. Edit /\ UNCHANGED <<entry, project, client, workspace>>
    BY <1>4 DEF CreateTask, UpdateTask
  <2>2. task' \in [Tasks -> Item]
    BY <1>4 DEF CreateTask, UpdateTask, TypeOK, Item
  <2>3. \A x \in Tasks : Stored(task[x]) => Stored(task'[x])
    BY <1>4 DEF CreateTask, UpdateTask, TypeOK, Stored, Item
  <2> QED BY <1>1, <2>1, <2>2, <2>3 DEF TypeOK
<1>5. ASSUME NEW c \in Clients, NEW rate \in OrNone(Rates),
             CreateClient(c, rate) \/ UpdateClient(c, rate)
      PROVE  Goal
  <2>1. Edit /\ UNCHANGED <<entry, project, task, workspace>>
    BY <1>5 DEF CreateClient, UpdateClient
  <2>2. client' \in [Clients -> Item]
    BY <1>5 DEF CreateClient, UpdateClient, TypeOK, Item
  <2> QED BY <1>1, <2>1, <2>2 DEF TypeOK
<1>6. ASSUME NEW c \in Clients, DeleteClient(c) PROVE Goal
  <2>1. client' \in [Clients -> Item]
    BY <1>6 DEF DeleteClient, TypeOK, Item
  <2>2. project' \in [Projects -> Project]
    BY <1>6 DEF DeleteClient, TypeOK, Project
  <2>3. \A x \in Projects : Stored(project[x]) => Stored(project'[x])
    BY <1>6 DEF DeleteClient, TypeOK, Stored, Project
  <2> QED BY <1>1, <1>6, <2>1, <2>2, <2>3 DEF DeleteClient, TypeOK
<1>7. ASSUME NEW rule \in Rules, NEW billable \in BOOLEAN, NEW rate \in OrNone(Rates),
             UpdateSettings(rule, billable, rate)
      PROVE  Goal
  <2>1. workspace' \in [rule : Rules, billable : BOOLEAN, rate : OrNone(Rates)]
    BY <1>7 DEF UpdateSettings
  <2> QED BY <1>1, <1>7, <2>1 DEF UpdateSettings, TypeOK
<1>8. ASSUME NEW T \in [Tasks -> Item], NEW dead \in SUBSET Tasks,
             Edit, task' = T, project' \in [Projects -> Project], UNCHANGED <<client, workspace>>,
             entry' = [e \in Entries |->
               IF entry[e] # None /\ entry[e].task # None /\ entry[e].task \in dead
               THEN [entry[e] EXCEPT !.task = None] ELSE entry[e]],
             \A t \in Tasks \ dead : T[t] = task[t],
             \A e \in Entries : entry[e] # None => project'[entry[e].project] = project[entry[e].project]
      PROVE  Goal
  <2>1. edits' \in 0..MaxEdits /\ UNCHANGED <<used, now, req>>
    BY <1>8, TimeAssumption DEF Edit, TypeOK
  <2>2. ASSUME NEW e \in Entries, entry[e] # None
        PROVE  /\ entry'[e] \in Row /\ Columns(entry'[e], entry[e])
               /\ entry'[e].task # None =>
                    entry'[e].task = entry[e].task /\ entry[e].task \in Tasks \ dead
    <3>1. entry[e] \in Row
      BY <2>2 DEF TypeOK
    <3>2. CASE entry[e].task # None /\ entry[e].task \in dead
      <4>1. entry'[e] = [entry[e] EXCEPT !.task = None]
        BY <1>8, <2>2, <3>2
      <4> QED BY <3>1, <4>1 DEF Row, Columns
    <3>3. CASE ~(entry[e].task # None /\ entry[e].task \in dead)
      <4>1. entry'[e] = entry[e]
        BY <1>8, <2>2, <3>3
      <4> QED BY <3>1, <3>3, <4>1 DEF Row, Columns
    <3> QED BY <3>2, <3>3
  <2>3. \A e \in Entries : entry[e] = None => entry'[e] = None
    BY <1>8
  <2>4. \A e \in Entries : entry[e] = None <=> entry'[e] = None
    BY <2>2, <2>3, RowNotNone
  <2>5. entry' \in [Entries -> OrNone(Row)]
    <3>1. \A e \in Entries : entry'[e] \in OrNone(Row)
      BY <2>2, <2>3
    <3> QED BY <1>8, <3>1
  <2>6. TypeOK'
    BY <1>8, <2>1, <2>5 DEF TypeOK, Times
  <2>7. ASSUME NothingOrphaned, NEW e \in Entries, entry'[e] # None
        PROVE  /\ Stored(project'[entry'[e].project])
               /\ entry'[e].task # None => Stored(task'[entry'[e].task])
    <3>1. entry[e] # None
      BY <2>4, <2>7
    <3>2. Stored(project[entry[e].project]) /\ (entry[e].task # None => Stored(task[entry[e].task]))
      BY <2>7, <3>1 DEF NothingOrphaned
    <3>3. entry'[e].project = entry[e].project
      BY <2>2, <3>1 DEF Columns
    <3> QED BY <1>8, <2>2, <3>1, <3>2, <3>3
  <2>8. NothingOrphaned => NothingOrphaned'
    BY <2>7 DEF NothingOrphaned
  <2> QED BY <2>1, <2>2, <2>4, <2>6, <2>8
<1>9. ASSUME NEW p \in Projects, DeleteProject(p) PROVE Goal
  <2> DEFINE dead == {t \in Tasks : ProjectOf[t] = p}
  <2>1. \A e \in Entries : entry[e] # None => entry[e].task \in OrNone(Tasks)
    BY DEF TypeOK, Row
  <2>2. entry' = [e \in Entries |->
               IF entry[e] # None /\ entry[e].task # None /\ entry[e].task \in dead
               THEN [entry[e] EXCEPT !.task = None] ELSE entry[e]]
    BY <1>9, <2>1 DEF DeleteProject
  <2>3. task' \in [Tasks -> Item]
    BY <1>9 DEF DeleteProject, TypeOK, Item
  <2>4. \A t \in Tasks \ dead : task'[t] = task[t]
    BY <1>9 DEF DeleteProject
  <2>5. project' \in [Projects -> Project]
    BY <1>9 DEF DeleteProject, TypeOK, Project
  <2>6. \A e \in Entries : entry[e] # None => project'[entry[e].project] = project[entry[e].project]
    BY <1>9 DEF DeleteProject, HasEntries, TypeOK, Row
  <2>7. Edit /\ UNCHANGED <<client, workspace>>
    BY <1>9 DEF DeleteProject
  <2> HIDE DEF dead
  <2>8. dead \in SUBSET Tasks
    BY DEF dead
  <2> QED BY <1>8, <2>2, <2>3, <2>4, <2>5, <2>6, <2>7, <2>8
<1>10. ASSUME NEW t \in Tasks, DeleteTask(t) PROVE Goal
  <2> DEFINE dead == {t}
  <2>1. t # None
    BY NoneAssumption
  <2>2. entry' = [e \in Entries |->
               IF entry[e] # None /\ entry[e].task # None /\ entry[e].task \in dead
               THEN [entry[e] EXCEPT !.task = None] ELSE entry[e]]
    BY <1>10, <2>1 DEF DeleteTask
  <2>3. task' \in [Tasks -> Item] /\ \A x \in Tasks \ dead : task'[x] = task[x]
    BY <1>10 DEF DeleteTask, TypeOK, Item
  <2>4. project' \in [Projects -> Project]
        /\ \A e \in Entries : entry[e] # None => project'[entry[e].project] = project[entry[e].project]
    BY <1>10 DEF DeleteTask, TypeOK
  <2>5. Edit /\ UNCHANGED <<client, workspace>>
    BY <1>10 DEF DeleteTask
  <2>6. dead \in SUBSET Tasks
    OBVIOUS
  <2> HIDE DEF dead
  <2> QED BY <1>8, <2>2, <2>3, <2>4, <2>5, <2>6
<1> HIDE DEF Goal
<1>11. Goal
  BY <1>2, <1>3, <1>4, <1>5, <1>6, <1>7, <1>9, <1>10 DEF EditCatalog
<1> QED BY <1>11 DEF Goal

-----------------------------------------------------------------------------
(* What holds however many requests overlap *)

LEMMA BeginType ==
  ASSUME TypeOK, Loaded, NEW r \in Requests, NEW w, Begin(r, w), Loads(w)
  PROVE  TypeOK' /\ Loaded' /\ UNCHANGED <<entry, catalog>>
         /\ req' = [req EXCEPT ![r] = w]
<1>1. /\ req' = [req EXCEPT ![r] = w]
      /\ UNCHANGED <<entry, used, project, task, client, workspace, now, edits>>
  BY DEF Begin, catalog
<1>2. TypeOK'
  BY <1>1 DEF TypeOK, Times, Loads
<1>3. w.target # None => w.old # None /\ w.new # None
  BY RowNotNone DEF Loads, TypeOK
<1>4. Loaded'
  BY <1>1, <1>3 DEF Loaded, TypeOK
<1> QED BY <1>1, <1>2, <1>4 DEF catalog

LEMMA RollbackType ==
  ASSUME TypeOK, Loaded, NEW r \in Requests, Rollback(r)
  PROVE  TypeOK' /\ Loaded' /\ UNCHANGED <<entry, catalog>>
         /\ req' = [req EXCEPT ![r] = Idle]
<1>1. /\ req' = [req EXCEPT ![r] = Idle]
      /\ UNCHANGED <<entry, used, project, task, client, workspace, now, edits>>
  BY DEF Rollback, Finish, catalog
<1>2. TypeOK'
  BY <1>1 DEF TypeOK, Times, Idle, Request
<1>3. Loaded'
  BY <1>1 DEF Loaded, TypeOK, Idle
<1> QED BY <1>1, <1>2, <1>3 DEF catalog

LEMMA DeleteType ==
  ASSUME TypeOK, Loaded, NEW e \in Entries, DeleteEntry(e)
  PROVE  TypeOK' /\ Loaded' /\ UNCHANGED <<req, catalog>>
         /\ entry' = [entry EXCEPT ![e] = None]
<1>1. /\ entry' = [entry EXCEPT ![e] = None]
      /\ UNCHANGED <<used, project, task, client, workspace, now, edits, req>>
  BY DEF DeleteEntry, catalog
<1>2. TypeOK'
  BY <1>1 DEF TypeOK, Times
<1>3. Loaded'
  BY <1>1 DEF Loaded
<1> QED BY <1>1, <1>2, <1>3 DEF catalog

LEMMA TickType ==
  ASSUME TypeOK, Loaded, Tick
  PROVE  TypeOK' /\ Loaded' /\ UNCHANGED <<entry, req, catalog>>
<1>1. /\ now' \in Times
      /\ UNCHANGED <<entry, used, project, task, client, workspace, edits, req>>
  BY TimeAssumption DEF Tick, TypeOK, Times, catalog
<1>2. TypeOK'
  BY <1>1 DEF TypeOK, Times
<1> QED BY <1>1, <1>2 DEF Loaded, catalog

\* Every entry has its project and task in every state that UNCHANGED entry and
\* catalog leads to.
LEMMA OrphanFrame ==
  ASSUME NothingOrphaned, UNCHANGED <<entry, catalog>>
  PROVE  NothingOrphaned'
<1>1. UNCHANGED <<entry, project, task>>
  BY DEF catalog
<1> QED BY <1>1 DEF NothingOrphaned

LEMMA CommitOrphansNothing ==
  ASSUME TypeOK, Loaded, NothingOrphaned, NEW r \in Requests, Commit(r)
  PROVE  NothingOrphaned'
<1>1. UNCHANGED <<project, task>>
  BY CommitRows DEF catalog
<1>2. ASSUME NEW e \in Entries, entry'[e] # None
      PROVE  /\ Stored(project[entry'[e].project])
             /\ entry'[e].task # None => Stored(task[entry'[e].task])
  <2>1. CASE entry'[e] = entry[e]
    BY <1>2, <2>1 DEF NothingOrphaned
  <2>2. CASE Accepted(entry'[e])
    BY <2>2 DEF Accepted
  <2>3. entry'[e] = entry[e] \/ Accepted(entry'[e])
    BY CommitRows
  <2> QED BY <2>1, <2>2, <2>3
<1> QED BY <1>1, <1>2 DEF NothingOrphaned

Inv == TypeOK /\ Loaded /\ NothingOrphaned

LEMMA InitInv == ASSUME Init PROVE Inv
<1>1. \A r \in Requests : req[r] = Idle
  BY DEF Init
<1>2. Loaded
  BY <1>1 DEF Loaded, Idle
<1>3. Idle \in Request
  BY DEF Idle, Request
<1>4. TypeOK
  <2>1. entry \in [Entries -> OrNone(Row)] /\ used \subseteq Entries
    BY DEF Init
  <2>2. project \in [Projects -> Project]
    BY DEF Init, Project
  <2>3. task \in [Tasks -> Item] /\ client \in [Clients -> Item]
    BY DEF Init, Item
  <2>4. workspace \in [rule : Rules, billable : BOOLEAN, rate : OrNone(Rates)]
    BY DEF Init
  <2>5. now \in Times /\ edits \in 0..MaxEdits
    BY TimeAssumption DEF Init, Times
  <2>6. req \in [Requests -> Request]
    BY <1>3 DEF Init
  <2> QED BY <2>1, <2>2, <2>3, <2>4, <2>5, <2>6 DEF TypeOK
<1>5. NothingOrphaned
  BY DEF Init, NothingOrphaned
<1> QED BY <1>2, <1>4, <1>5 DEF Inv

LEMMA NextInv == ASSUME Inv, [Next]_vars PROVE Inv'
<1> USE DEF Inv
<1>1. ASSUME NEW r \in Requests, Read(r) PROVE Inv'
  <2>1. PICK w : Begin(r, w) /\ Loads(w)
    BY <1>1, ReadLoads
  <2> QED BY <2>1, BeginType, OrphanFrame
<1>2. ASSUME NEW r \in Requests, Commit(r) PROVE Inv'
  <2>1. TypeOK' /\ req' = [req EXCEPT ![r] = Idle]
    BY <1>2, CommitRows
  <2>2. Loaded'
    BY <2>1 DEF Loaded, TypeOK, Idle
  <2> QED BY <1>2, <2>1, <2>2, CommitOrphansNothing
<1>3. ASSUME NEW r \in Requests, Rollback(r) PROVE Inv'
  BY <1>3, RollbackType, OrphanFrame
<1>4. ASSUME NEW e \in Entries, DeleteEntry(e) PROVE Inv'
  <2>1. TypeOK' /\ Loaded' /\ UNCHANGED <<project, task>> /\ entry' = [entry EXCEPT ![e] = None]
    BY <1>4, DeleteType DEF catalog
  <2>2. NothingOrphaned'
    BY <2>1 DEF NothingOrphaned, TypeOK
  <2> QED BY <2>1, <2>2
<1>5. CASE EditCatalog
  <2>1. TypeOK' /\ UNCHANGED req /\ NothingOrphaned'
    BY <1>5, CatalogRows
  <2> QED BY <2>1 DEF Loaded
<1>6. CASE Tick
  BY <1>6, TickType, OrphanFrame
<1>7. CASE UNCHANGED vars
  <2>1. UNCHANGED <<entry, used, project, task, client, workspace, now, edits, req>>
    BY <1>7 DEF vars, catalog
  <2> QED BY <2>1 DEF TypeOK, Times, Loaded, NothingOrphaned
<1> QED BY <1>1, <1>2, <1>3, <1>4, <1>5, <1>6, <1>7 DEF Next

\* Entries, requests and catalog keep their types: every row an endpoint computes
\* is a row, whatever times, rates and rules it finds.
THEOREM TypeCorrect == Spec => []TypeOK
<1>1. Init => Inv
  BY InitInv
<1>2. Inv /\ [Next]_vars => Inv'
  BY NextInv
<1>3. Inv => TypeOK
  BY DEF Inv
<1> QED BY <1>1, <1>2, <1>3, PTL DEF Spec

\* No deletion of a project or a task, interleaved in any way with requests that
\* read the catalog before it, leaves an entry that refers to what is gone.
THEOREM NoOrphans == Spec => []NothingOrphaned
<1>1. Init => Inv
  BY InitInv
<1>2. Inv /\ [Next]_vars => Inv'
  BY NextInv
<1>3. Inv => NothingOrphaned
  BY DEF Inv
<1> QED BY <1>1, <1>2, <1>3, PTL DEF Spec

-----------------------------------------------------------------------------
(* What overlapping saves can break, and that nothing else does *)

\* The row a request will update still has the columns it loaded, or is gone; its
\* task may have been deleted under it.
Current(w) == w.target # None /\ entry[w.target] # None => Columns(w.old, entry[w.target])

StaleSave == \E r \in Requests : ~Current(req[r]) /\ Commit(r)

\* Every row is consistent in itself, and so is every row that is about to be
\* written.
Sound == AllFair /\ \A r \in Requests : FairRequest(req[r])

LEMMA IdleFair == FairRequest(Idle)
  BY DEF FairRequest, Idle

LEMMA InitSound == ASSUME Init PROVE Sound
<1>1. AllFair
  BY DEF Init, AllFair
<1>2. \A r \in Requests : req[r] = Idle
  BY DEF Init
<1> QED BY <1>1, <1>2, IdleFair DEF Sound

LEMMA SoundMeans == ASSUME Sound PROVE AmountMatches /\ SpanMatches
  BY DEF Sound, AllFair, Fair, AmountMatches, SpanMatches, Done

LEMMA CommitFair ==
  ASSUME TypeOK, Loaded, Sound, NEW r \in Requests, Current(req[r]), Commit(r)
  PROVE  AllFair'
<1> USE DEF Sound
<1>1. \A e \in Entries : entry[e] # None => entry[e] \in Row
  BY DEF TypeOK
<1>2. req[r] \in Request
  BY DEF TypeOK
<1>3. ASSUME NEW e \in Entries, entry'[e] # None PROVE Fair(entry'[e])
  <2>1. CASE entry'[e] = entry[e]
    BY <1>3, <2>1 DEF AllFair
  <2>2. CASE req[r].insert # None /\ entry'[e] = req[r].insert
    BY <2>2 DEF FairRequest
  <2>3. CASE /\ req[r].target = e /\ entry[e] # None
             /\ entry'[e] = Merge(req[r].old, req[r].new, entry[e])
    <3>1. e # None
      BY NoneAssumption
    <3>2. req[r].old \in Row /\ req[r].new \in Row /\ Fair(req[r].new)
      BY <1>2, <2>3, <3>1 DEF Loaded, Request, FairRequest
    <3>3. Columns(req[r].old, entry[e])
      BY <2>3, <3>1 DEF Current
    <3>4. Columns(Merge(req[r].old, req[r].new, entry[e]), req[r].new)
      BY <1>1, <2>3, <3>2, <3>3, MergeType
    <3> QED BY <2>3, <3>2, <3>4, FairColumns
  <2> QED BY <2>1, <2>2, <2>3, CommitRows
<1> QED BY <1>3 DEF AllFair

LEMMA NextSound ==
  ASSUME Inv, [Next]_vars, Sound, ~StaleSave
  PROVE  Sound'
<1> USE DEF Sound, Inv
<1>1. ASSUME NEW r \in Requests, NEW w, req' = [req EXCEPT ![r] = w], FairRequest(w)
      PROVE  \A q \in Requests : FairRequest(req[q])'
  <2>1. \A q \in Requests : req'[q] \in {w, req[q]}
    BY <1>1 DEF TypeOK
  <2> QED BY <1>1, <2>1 DEF FairRequest
<1>2. ASSUME NEW r \in Requests, Read(r) PROVE Sound'
  <2>1. PICK w : Begin(r, w) /\ Loads(w) /\ FairRequest(w)
    BY <1>2, ReadLoads
  <2>2. UNCHANGED entry /\ req' = [req EXCEPT ![r] = w]
    BY <2>1, BeginType
  <2>3. AllFair'
    BY <2>2 DEF AllFair
  <2> QED BY <1>1, <2>1, <2>2, <2>3
<1>3. ASSUME NEW r \in Requests, Commit(r) PROVE Sound'
  <2>1. req' = [req EXCEPT ![r] = Idle]
    BY <1>3, CommitRows
  <2>2. AllFair'
    BY <1>3, CommitFair DEF StaleSave
  <2> QED BY <1>1, <2>1, <2>2, IdleFair
<1>4. ASSUME NEW r \in Requests, Rollback(r) PROVE Sound'
  <2>1. UNCHANGED entry /\ req' = [req EXCEPT ![r] = Idle]
    BY <1>4, RollbackType
  <2>2. AllFair'
    BY <2>1 DEF AllFair
  <2> QED BY <1>1, <2>1, <2>2, IdleFair
<1>5. ASSUME UNCHANGED req,
             \A e \in Entries : entry'[e] # None => entry[e] # None /\ Columns(entry'[e], entry[e])
      PROVE  Sound'
  <2>1. AllFair'
    BY <1>5, FairColumns DEF AllFair
  <2> QED BY <1>5, <2>1 DEF FairRequest
<1>6. ASSUME NEW e \in Entries, DeleteEntry(e) PROVE Sound'
  <2>1. UNCHANGED req /\ entry' = [entry EXCEPT ![e] = None]
    BY <1>6, DeleteType
  <2>2. \A f \in Entries : entry'[f] # None => entry'[f] = entry[f]
    BY <2>1 DEF TypeOK
  <2> QED BY <1>5, <2>1, <2>2 DEF Columns
<1>7. CASE EditCatalog
  <2>1. /\ UNCHANGED req
        /\ \A e \in Entries : entry[e] = None <=> entry'[e] = None
        /\ \A e \in Entries : entry[e] # None => Columns(entry'[e], entry[e])
    BY <1>7, CatalogRows
  <2> QED BY <1>5, <2>1
<1>8. CASE Tick \/ UNCHANGED vars
  <2>1. UNCHANGED <<entry, req>>
    BY <1>8, TickType DEF vars
  <2> QED BY <2>1 DEF AllFair, FairRequest
<1> QED BY <1>2, <1>3, <1>4, <1>6, <1>7, <1>8 DEF Next

\* Amounts and durations of finished entries are right from the start, and stay so
\* until a save commits over a row that another request has changed since it was
\* loaded: whatever else overlaps, and under every order of rate changes, rounding
\* rules and deletions, nothing else makes them wrong (update_entry, stop_timer,
\* continue_entry, duplicate_entry).
THEOREM OnlyStaleMisprices ==
  Spec => /\ Sound
          /\ [](Sound => AmountMatches /\ SpanMatches)
          /\ [][Sound => Sound' \/ StaleSave]_vars
<1>1. Init => Inv /\ Sound
  BY InitInv, InitSound
<1>2. Inv /\ [Next]_vars => Inv'
  BY NextInv
<1>3. Inv /\ [Next]_vars => [Sound => Sound' \/ StaleSave]_vars
  BY NextSound
<1>4. Sound => AmountMatches /\ SpanMatches
  BY SoundMeans
<1> QED BY <1>1, <1>2, <1>3, <1>4, PTL DEF Spec
=============================================================================
