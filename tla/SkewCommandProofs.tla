-------------------------- MODULE SkewCommandProofs --------------------------
(***************************************************************************)
(* Proofs about SkewCommand: what a status of 0 or 1 means, wherever the   *)
(* pipe is cut (AnswerWasDelivered), which scan it is about                *)
(* (StatusIsOfTheWholeScan), and that max() and sorted() agree on the      *)
(* worst (BodyLeadsWithTheWorst).                                          *)
(***************************************************************************)
EXTENDS SkewCommand, Counting, SequenceTheorems

-----------------------------------------------------------------------------
(* Sequences of whatever: a sequence is one of its own members.            *)

IsSequence(s) == s \in Seq(Members(s))

LEMMA CountedOut ==
  ASSUME NEW n \in Nat, NEW s, DOMAIN s = 1 .. n, s = [i \in 1 .. n |-> s[i]]
  PROVE  IsSequence(s) /\ Len(s) = n
<1>1. \A i \in 1 .. n : s[i] \in Members(s) BY DEF Members
<1>2. s \in [1 .. n -> Members(s)] BY <1>1
<1> QED BY <1>2, SeqDef DEF IsSequence

LEMMA SeqFacts ==
  ASSUME NEW s, IsSequence(s)
  PROVE  /\ Len(s) \in Nat /\ DOMAIN s = 1 .. Len(s)
         /\ \A i \in DOMAIN s : s[i] \in Members(s)
<1> DEFINE T == Members(s)
<1>1. s \in Seq(T) BY DEF IsSequence
<1>2. \A i \in DOMAIN s : s[i] \in T BY DEF Members
<1> HIDE DEF T
<1>3. Len(s) \in Nat /\ DOMAIN s = 1 .. Len(s) BY <1>1
<1> QED BY <1>2, <1>3 DEF T

LEMMA Joined ==
  ASSUME NEW a, NEW b, IsSequence(a), IsSequence(b)
  PROVE  /\ IsSequence(a \o b) /\ Members(a \o b) = Members(a) \cup Members(b)
         /\ Len(a \o b) = Len(a) + Len(b)
<1> DEFINE T == Members(a) \cup Members(b)
           c == a \o b
<1>1. a \in Seq(T) /\ b \in Seq(T) BY SeqMonotonic DEF IsSequence
<1>2. /\ Len(a) \in Nat /\ DOMAIN a = 1 .. Len(a)
      /\ Len(b) \in Nat /\ DOMAIN b = 1 .. Len(b)
  BY SeqFacts
<1> HIDE DEF T
<1>3. /\ c \in Seq(T) /\ Len(c) = Len(a) + Len(b) /\ DOMAIN c = 1 .. Len(a) + Len(b)
      /\ \A i \in 1 .. Len(a) + Len(b) :
           c[i] = IF i <= Len(a) THEN a[i] ELSE b[i - Len(a)]
  BY <1>1
<1> HIDE DEF c
<1>4. \A x \in Members(c) : x \in Members(a) \/ x \in Members(b)
  <2>1. TAKE x \in Members(c)
  <2>2. PICK i \in 1 .. Len(a) + Len(b) : x = c[i] BY <1>3 DEF Members
  <2>3. CASE i <= Len(a)
    <3>1. i \in DOMAIN a BY <1>2, <2>3
    <3> QED BY <1>3, <2>2, <2>3, <3>1 DEF Members
  <2>4. CASE ~(i <= Len(a))
    <3>1. i - Len(a) \in DOMAIN b BY <1>2, <2>4
    <3> QED BY <1>3, <2>2, <2>4, <3>1 DEF Members
  <2> QED BY <2>3, <2>4
<1>5. \A x \in Members(a) : x \in Members(c)
  <2>1. TAKE x \in Members(a)
  <2>2. PICK i \in DOMAIN a : x = a[i] BY DEF Members
  <2>3. i \in DOMAIN c /\ c[i] = x BY <1>2, <1>3, <2>2
  <2> QED BY <2>3 DEF Members
<1>6. \A x \in Members(b) : x \in Members(c)
  <2>1. TAKE x \in Members(b)
  <2>2. PICK i \in DOMAIN b : x = b[i] BY DEF Members
  <2>3. /\ i + Len(a) \in 1 .. Len(a) + Len(b) /\ ~(i + Len(a) <= Len(a))
        /\ (i + Len(a)) - Len(a) = i
    BY <1>2
  <2>4. c[i + Len(a)] = b[i] BY <1>3, <2>3
  <2> QED BY <1>3, <2>2, <2>3, <2>4 DEF Members
<1>7. Members(c) = Members(a) \cup Members(b) BY <1>4, <1>5, <1>6
<1>8. IsSequence(c) BY <1>3, <1>7 DEF IsSequence, T
<1> QED BY <1>3, <1>7, <1>8 DEF c

LEMMA NoneOrOne ==
  /\ IsSequence(<<>>) /\ Members(<<>>) = {} /\ Len(<<>>) = 0
  /\ \A x : IsSequence(<<x>>) /\ Members(<<x>>) = {x} /\ Len(<<x>>) = 1
<1>1. Members(<<>>) = {} BY DEF Members
<1>2. ASSUME NEW x PROVE IsSequence(<<x>>) /\ Members(<<x>>) = {x} /\ Len(<<x>>) = 1
  <2>1. Members(<<x>>) = {x} BY DEF Members
  <2> QED BY <2>1 DEF IsSequence
<1> QED BY <1>1, <1>2 DEF IsSequence

(* The first lines of a report, and one more.                              *)
LEMMA OneMore ==
  ASSUME NEW s, IsSequence(s), NEW n \in Nat, n < Len(s)
  PROVE  /\ s[n + 1] \in Members(s)
         /\ Append(SubSeq(s, 1, n), s[n + 1]) = SubSeq(s, 1, n + 1)
         /\ SubSeq(s, 1, n) \o <<s[n + 1]>> = SubSeq(s, 1, n + 1)
         /\ Len(SubSeq(s, 1, n)) = n
         /\ SubSeq(s, 1, Len(s)) = s /\ SubSeq(s, 1, 0) = <<>>
<1> DEFINE T == Members(s)
<1>1. s \in Seq(T) /\ Len(s) \in Nat /\ n + 1 \in DOMAIN s /\ \A i \in DOMAIN s : s[i] \in T
  BY SeqFacts DEF IsSequence
<1> HIDE DEF T
<1>2. s[n + 1] \in T BY <1>1
<1>3. SubSeq(s, 1, n) \in Seq(T) /\ Len(SubSeq(s, 1, n)) = n BY <1>1
<1>4. Append(SubSeq(s, 1, n), s[n + 1]) = SubSeq(s, 1, n + 1) BY <1>1, <1>2, <1>3
<1>5. SubSeq(s, 1, n) \o <<s[n + 1]>> = SubSeq(s, 1, n + 1) BY <1>1, <1>2, <1>3
<1>6. SubSeq(s, 1, Len(s)) = s /\ SubSeq(s, 1, 0) = <<>> BY <1>1
<1> QED BY <1>2, <1>3, <1>4, <1>5, <1>6 DEF T

LEMMA NothingYet ==
  ASSUME NEW s, IsSequence(s)
  PROVE  SubSeq(s, 1, 0) = <<>>
BY DEF IsSequence

LEMMA FirstOf ==
  ASSUME NEW s, IsSequence(s)
  PROVE  /\ SubSeq(s, 1, Len(s)) = s
         /\ \A n \in Nat : n <= Len(s) => Len(SubSeq(s, 1, n)) = n
<1> DEFINE T == Members(s)
<1>1. s \in Seq(T) BY DEF IsSequence
<1> HIDE DEF T
<1> QED BY <1>1

LEMMA OneLinePrinted ==
  ASSUME NEW T, NEW b \in Seq(T), NEW d \in Seq(T), NEW x \in T
  PROVE  /\ Append(b, x) \in Seq(T) /\ d \o b \in Seq(T) /\ <<x>> \in Seq(T)
         /\ d \o Append(b, x) = (d \o b) \o <<x>>
         /\ Len(Append(b, x)) = Len(b) + 1 /\ Len(<<x>>) = 1
         /\ Len(d \o b) = Len(d) + Len(b)
         /\ Len(b) \in Nat /\ Len(d) \in Nat
<1>1. Append(b, x) \in Seq(T) /\ d \o b \in Seq(T) /\ <<x>> \in Seq(T) OBVIOUS
<1>2. /\ Len(Append(b, x)) = Len(b) + 1 /\ Len(<<x>>) = 1
      /\ Len(d \o b) = Len(d) + Len(b) /\ Len(b) \in Nat /\ Len(d) \in Nat
  OBVIOUS
<1>3. d \o Append(b, x) = (d \o b) \o <<x>> OBVIOUS
<1> QED BY <1>1, <1>2, <1>3

(* b is buffered and d delivered of the report R, in that order: its first *)
(* lines.                                                                  *)
SaidSoFar(R, b, d) ==
  /\ b \in Seq(Members(R)) /\ d \in Seq(Members(R))
  /\ Len(d) + Len(b) <= Len(R)
  /\ d \o b = SubSeq(R, 1, Len(d) + Len(b))

(* From b and d to c and e by print of the next line x.                    *)
OneLine(x, b, d, c, e) ==
  \/ c = Append(b, x) /\ e = d
  \/ e = d \o b /\ c = <<x>>

LEMMA PrintsOn ==
  ASSUME NEW R, IsSequence(R), NEW b, NEW d, SaidSoFar(R, b, d),
         NEW n \in Nat, n = Len(d) + Len(b), n < Len(R),
         NEW c, NEW e, OneLine(R[n + 1], b, d, c, e)
  PROVE  SaidSoFar(R, c, e)
<1> DEFINE T == Members(R)
           x == R[n + 1]
<1>1. b \in Seq(T) /\ d \in Seq(T) BY DEF SaidSoFar
<1>2. x \in T /\ SubSeq(R, 1, n) \o <<x>> = SubSeq(R, 1, n + 1) BY OneMore
<1>3. d \o b = SubSeq(R, 1, n) BY DEF SaidSoFar
<1>4. Len(R) \in Nat BY SeqFacts
<1> HIDE DEF x, T
<1>5. /\ Append(b, x) \in Seq(T) /\ d \o b \in Seq(T) /\ <<x>> \in Seq(T)
      /\ d \o Append(b, x) = (d \o b) \o <<x>>
      /\ Len(Append(b, x)) = Len(b) + 1 /\ Len(<<x>>) = 1
      /\ Len(d \o b) = Len(d) + Len(b) /\ Len(b) \in Nat /\ Len(d) \in Nat
  BY <1>1, <1>2, OneLinePrinted
<1>6. OneLine(x, b, d, c, e) BY DEF x
<1>7. c \in Seq(T) /\ e \in Seq(T) /\ Len(e) + Len(c) = n + 1 /\ e \o c = (d \o b) \o <<x>>
  <2>1. CASE c = Append(b, x) /\ e = d BY <1>1, <1>5, <2>1
  <2>2. CASE e = d \o b /\ c = <<x>> BY <1>1, <1>5, <2>2
  <2> QED BY <1>6, <2>1, <2>2 DEF OneLine
<1>8. e \o c = SubSeq(R, 1, n + 1) BY <1>2, <1>3, <1>7
<1>9. n + 1 <= Len(R) BY <1>4
<1> QED BY <1>7, <1>8, <1>9 DEF SaidSoFar, T

-----------------------------------------------------------------------------
(* A comprehension, and the double loop of scan.                           *)

LEMMA PlacesAreTaken ==
  ASSUME NEW n \in Nat, NEW P, Within(P, n), NEW s
  PROVE  /\ IsSequence(AtPlaces(s, P)) /\ Len(AtPlaces(s, P)) = Cardinality(P)
         /\ Cardinality(P) \in Nat
         /\ Members(AtPlaces(s, P)) = {s[p] : p \in P}
<1> DEFINE c == Cardinality(P)
           place(r) == CHOOSE p \in P : Cardinality(Smaller(P, p)) = r - 1
           t == AtPlaces(s, P)
<1>2. PICK rank \in [P -> Nat] :
        /\ \A p \in P : rank[p] = Cardinality(Smaller(P, p))
        /\ c \in Nat
        /\ \A p \in P : rank[p] \in 0 .. c - 1
        /\ \A p, q \in P : rank[p] = rank[q] => p = q
        /\ \A r \in 0 .. c - 1 : \E p \in P : rank[p] = r
  BY NumbersBySize
<1>3. t = [r \in 1 .. c |-> s[place(r)]] BY DEF AtPlaces, Smaller
<1> HIDE DEF c, t
<1>4. \A r \in 1 .. c : place(r) \in P /\ rank[place(r)] = r - 1
  <2>1. TAKE r \in 1 .. c
  <2>2. r - 1 \in 0 .. c - 1 BY <1>2
  <2>3. PICK x \in P : rank[x] = r - 1 BY <1>2, <2>2
  <2>4. \E p \in P : Cardinality(Smaller(P, p)) = r - 1 BY <1>2, <2>3
  <2>5. place(r) \in P /\ Cardinality(Smaller(P, place(r))) = r - 1 BY <2>4
  <2> QED BY <1>2, <2>5
<1> HIDE DEF place
<1>5. \A p \in P : \E r \in 1 .. c : place(r) = p
  <2>1. TAKE p \in P
  <2>2. rank[p] \in 0 .. c - 1 BY <1>2
  <2>3. rank[p] + 1 \in 1 .. c /\ (rank[p] + 1) - 1 = rank[p] BY <1>2, <2>2
  <2>4. PICK r \in 1 .. c : r - 1 = rank[p] BY <2>3
  <2>5. place(r) = p BY <1>2, <1>4, <2>4
  <2> QED BY <2>5
<1>6. DOMAIN t = 1 .. c /\ \A r \in 1 .. c : t[r] = s[place(r)] BY <1>3
<1>7. Members(t) = {s[p] : p \in P}
  <2>1. Members(t) = {s[place(r)] : r \in 1 .. c} BY <1>6 DEF Members
  <2>2. ASSUME NEW x \in {s[place(r)] : r \in 1 .. c} PROVE x \in {s[p] : p \in P}
    <3>1. PICK r \in 1 .. c : x = s[place(r)] OBVIOUS
    <3>2. place(r) \in P BY <1>4
    <3> QED BY <3>1, <3>2
  <2>3. ASSUME NEW p \in P PROVE s[p] \in {s[place(r)] : r \in 1 .. c}
    <3>1. PICK r \in 1 .. c : place(r) = p BY <1>5
    <3> QED BY <3>1
  <2> QED BY <2>1, <2>2, <2>3
<1>8. t = [r \in 1 .. c |-> t[r]] BY <1>3
<1>9. IsSequence(t) /\ Len(t) = c BY <1>2, <1>6, <1>8, CountedOut
<1> QED BY <1>2, <1>7, <1>9 DEF t, c

LEMMA Quotient ==
  ASSUME NEW n \in Nat, NEW m \in Nat \ {0}, NEW a \in Nat
  PROVE  /\ a < n * m => a \div m \in 0 .. n - 1
         /\ a % m \in 0 .. m - 1
         /\ \A q \in Nat, r \in 0 .. m - 1 : a = q * m + r => a \div m = q /\ a % m = r
<1>1. a % m \in 0 .. m - 1 OBVIOUS
<1>2. a = m * (a \div m) + (a % m) /\ a \div m \in Int BY SMT
<1>3. ASSUME NEW q \in Int, NEW r \in 0 .. m - 1, NEW p \in Int, NEW u \in 0 .. m - 1,
             q * m + r = p * m + u
      PROVE  q = p
  <2>1. CASE q < p
    <3>1. (q + 1) * m <= p * m BY <2>1, TimesMonotone
    <3>2. (q + 1) * m = q * m + m OBVIOUS
    <3> QED BY <1>3, <3>1, <3>2
  <2>2. CASE p < q
    <3>1. (p + 1) * m <= q * m BY <2>2, TimesMonotone
    <3>2. (p + 1) * m = p * m + m OBVIOUS
    <3> QED BY <1>3, <3>1, <3>2
  <2> QED BY <2>1, <2>2
<1>4. ASSUME NEW q \in Nat, NEW r \in 0 .. m - 1, a = q * m + r
      PROVE  a \div m = q /\ a % m = r
  <2>1. a = (a \div m) * m + (a % m) BY <1>2
  <2>2. a \div m = q BY <1>1, <1>2, <1>3, <1>4, <2>1
  <2> QED BY <1>1, <1>4, <2>1, <2>2
<1>5. a \div m >= 0
  <2> SUFFICES ASSUME a \div m < 0 PROVE FALSE BY <1>2
  <2>1. (a \div m + 1) * m <= 0 * m BY <1>2, TimesMonotone
  <2>2. (a \div m + 1) * m = m * (a \div m) + m /\ 0 * m = 0 BY <1>2
  <2> QED BY <1>1, <1>2, <2>1, <2>2
<1>6. ASSUME a < n * m PROVE a \div m < n
  <2> SUFFICES ASSUME n <= a \div m PROVE FALSE BY <1>2
  <2>1. n * m <= (a \div m) * m BY <1>2, TimesMonotone
  <2> QED BY <1>1, <1>2, <1>6, <2>1
<1> QED BY <1>1, <1>2, <1>4, <1>5, <1>6

LEMMA ScanIs ==
  ASSUME NEW stages, IsSequence(stages), NEW metrics, IsSequence(metrics), NEW threshold
  PROVE  /\ IsSequence(Scan(stages, metrics, threshold))
         /\ Len(Scan(stages, metrics, threshold)) = Len(stages) * Len(metrics)
         /\ Len(stages) * Len(metrics) \in Nat
         /\ Members(Scan(stages, metrics, threshold)) =
              {Judge(sm[1], sm[2], threshold) : sm \in Members(stages) \X Members(metrics)}
<1> DEFINE N == Len(stages)
           M == Len(metrics)
           t == Scan(stages, metrics, threshold)
           J == {Judge(sm[1], sm[2], threshold) : sm \in Members(stages) \X Members(metrics)}
           of(i) == Judge(stages[((i - 1) \div M) + 1], metrics[((i - 1) % M) + 1], threshold)
<1>1. /\ N \in Nat /\ M \in Nat /\ DOMAIN stages = 1 .. N /\ DOMAIN metrics = 1 .. M
      /\ \A i \in DOMAIN stages : stages[i] \in Members(stages)
      /\ \A i \in DOMAIN metrics : metrics[i] \in Members(metrics)
  BY SeqFacts
<1>2. t = [i \in 1 .. N * M |-> of(i)] BY DEF Scan
<1> HIDE DEF N, M
<1>3. N * M \in Nat BY <1>1
<1>4. DOMAIN t = 1 .. N * M /\ \A i \in 1 .. N * M : t[i] = of(i) BY <1>2
<1>5. t = [i \in 1 .. N * M |-> t[i]] BY <1>2
<1> HIDE DEF t
<1>6. IsSequence(t) /\ Len(t) = N * M BY <1>3, <1>4, <1>5, CountedOut
<1>7. ASSUME NEW i \in 1 .. N * M PROVE t[i] \in J
  <2>1. M # 0
    <3> SUFFICES ASSUME M = 0 PROVE FALSE OBVIOUS
    <3>1. N * M = 0 BY <1>1
    <3> QED BY <3>1
  <2>2. i - 1 \in Nat /\ i - 1 < N * M BY <1>3
  <2>3. (i - 1) \div M \in 0 .. N - 1 /\ (i - 1) % M \in 0 .. M - 1
    BY <1>1, <2>1, <2>2, Quotient
  <2> DEFINE a == ((i - 1) \div M) + 1
             b == ((i - 1) % M) + 1
  <2>4. a \in 1 .. N /\ b \in 1 .. M BY <1>1, <2>3
  <2>5. t[i] = Judge(stages[a], metrics[b], threshold) BY <1>4
  <2> HIDE DEF a, b
  <2>6. <<stages[a], metrics[b]>> \in Members(stages) \X Members(metrics) BY <1>1, <2>4
  <2> QED BY <2>5, <2>6
<1>8. ASSUME NEW s \in Members(stages), NEW m \in Members(metrics)
      PROVE  Judge(s, m, threshold) \in Members(t)
  <2>1. PICK a \in 1 .. N : s = stages[a] BY <1>1 DEF Members
  <2>2. PICK b \in 1 .. M : m = metrics[b] BY <1>1 DEF Members
  <2> DEFINE i == (a - 1) * M + b
  <2>3. a - 1 \in Nat /\ b - 1 \in 0 .. M - 1 /\ M \in Nat \ {0} BY <1>1
  <2>4. (a - 1) * M \in Nat BY <2>3
  <2>5. i \in Nat /\ i - 1 \in Nat /\ i - 1 = (a - 1) * M + (b - 1) BY <2>3, <2>4
  <2>6. (i - 1) \div M = a - 1 /\ (i - 1) % M = b - 1
    <3> HIDE DEF i
    <3>1. \A q \in Nat, r \in 0 .. M - 1 :
            i - 1 = q * M + r => (i - 1) \div M = q /\ (i - 1) % M = r
      BY <2>3, <2>5, Quotient
    <3> QED BY <2>3, <2>5, <3>1
  <2>7. i <= N * M
    <3>1. a * M <= N * M BY <1>1, TimesMonotone
    <3>2. a * M = (a - 1) * M + M BY <1>1
    <3> QED BY <1>1, <1>3, <2>3, <2>4, <3>1, <3>2
  <2>8. i \in 1 .. N * M BY <1>3, <2>5, <2>7
  <2> HIDE DEF i
  <2>9. (a - 1) + 1 = a /\ (b - 1) + 1 = b OBVIOUS
  <2>10. t[i] = Judge(s, m, threshold) BY <1>4, <2>1, <2>2, <2>6, <2>8, <2>9
  <2> QED BY <1>4, <2>8, <2>10 DEF Members
<1> HIDE DEF of
<1>9. Members(t) \subseteq J BY <1>4, <1>7 DEF Members
<1>10. J \subseteq Members(t) BY <1>8
<1> QED BY <1>3, <1>6, <1>9, <1>10 DEF t, N, M
-----------------------------------------------------------------------------
(* The report: a sequence of lines, one of them the contract line.         *)

LEMMA TypedIsASeq ==
  ASSUME NEW S, NEW s \in Seq(S)
  PROVE  IsSequence(s) /\ \A x \in Members(s) : x \in S
<1> DEFINE n == Len(s)
<1>1. n \in Nat /\ DOMAIN s = 1 .. n /\ s = [i \in 1 .. n |-> s[i]] OBVIOUS
<1>2. \A i \in 1 .. n : s[i] \in S OBVIOUS
<1> HIDE DEF n
<1>3. IsSequence(s) BY <1>1, CountedOut
<1> QED BY <1>1, <1>2, <1>3 DEF Members

IsContract(l, vs) == l.line = "contract" => l.status = ExitStatus(vs)

LEMMA ReportIs ==
  ASSUME NEW vs, IsSequence(vs), NEW metrics, NEW only
  PROVE  /\ IsSequence(Report(vs, metrics, only))
         /\ \A l \in Members(Report(vs, metrics, only)) : IsContract(l, vs)
<1> DEFINE Good(s) == IsSequence(s) /\ \A l \in Members(s) : IsContract(l, vs)
           kinds == KindsWith(vs)
           shown == Body(vs, only)
           worst == [i \in DOMAIN kinds |->
                       [line |-> "worst", verdict |-> Worst(vs, kinds[i])]]
           body == [i \in DOMAIN shown |-> [line |-> "verdict", verdict |-> shown[i]]]
           p1 == <<[line |-> "header", verdicts |-> Len(vs)]>>
           p2 == IF worst = <<>> THEN <<[line |-> "nothing skewed"]>> ELSE worst
           p3 == <<[line |-> "tally", skewed |-> Count(vs, SKEWED), even |-> Count(vs, EVEN),
                    undecided |-> Count(vs, UNDECIDED)]>>
           p4 == <<[line |-> "contract", status |-> ExitStatus(vs),
                    label |-> MetricSetLabel(metrics), id |-> MetricSetId(metrics)]>>
           p5 == IF only = NoFilter THEN <<>>
                 ELSE <<[line |-> "showing", shown |-> Len(shown), of |-> Len(vs)]>>
<1>1. ASSUME NEW s, NEW t, Good(s), Good(t) PROVE Good(s \o t)
  BY <1>1, Joined
<1>2. ASSUME NEW l, IsContract(l, vs) PROVE Good(<<l>>)
  BY <1>2, NoneOrOne
<1>3. Good(<<>>) BY NoneOrOne
<1>4. ASSUME NEW n \in Nat, NEW s, DOMAIN s = 1 .. n, s = [i \in 1 .. n |-> s[i]],
             \A i \in 1 .. n : IsContract(s[i], vs)
      PROVE  Good(s)
  <2>1. IsSequence(s) BY <1>4, CountedOut
  <2> QED BY <1>4, <2>1 DEF Members
<1> HIDE DEF Good
<1>5. Good(p1) BY <1>2 DEF IsContract
<1>6. Good(p3) BY <1>2 DEF IsContract
<1>7. Good(p4) BY <1>2 DEF IsContract
<1>8. Good(p5) BY <1>2, <1>3 DEF IsContract
<1>9. Good(worst)
  <2>1. Len(Kinds) \in Nat /\ DOMAIN Kinds = 1 .. Len(Kinds)
    BY CommandAssumption, SeqFacts DEF CommandAssumption, IsSequence
  <2> DEFINE P == {i \in DOMAIN Kinds : HasWorst(vs, Kinds[i])}
  <2>2. Within(P, Len(Kinds)) BY <2>1 DEF Within
  <2> HIDE DEF P
  <2>3. IsSequence(AtPlaces(Kinds, P)) BY <2>1, <2>2, PlacesAreTaken
  <2>4. IsSequence(kinds) BY <2>3 DEF KindsWith, P
  <2> HIDE DEF kinds
  <2>5. Len(kinds) \in Nat /\ DOMAIN kinds = 1 .. Len(kinds) BY <2>4, SeqFacts
  <2>6. /\ DOMAIN worst = 1 .. Len(kinds) /\ worst = [i \in 1 .. Len(kinds) |-> worst[i]]
        /\ \A i \in 1 .. Len(kinds) : worst[i].line = "worst"
    BY <2>5
  <2>7. \A i \in 1 .. Len(kinds) : IsContract(worst[i], vs) BY <2>6 DEF IsContract
  <2> HIDE DEF worst
  <2> QED BY <1>4, <2>5, <2>6, <2>7
<1>10. Good(p2) BY <1>2, <1>9 DEF IsContract
<1>11. Good(body)
  <2> DEFINE P == {i \in DOMAIN vs : vs[i].outcome = only}
             w == IF only = NoFilter THEN vs ELSE Only(vs, only)
  <2>1. IsSequence(w)
    <3>1. Len(vs) \in Nat /\ DOMAIN vs = 1 .. Len(vs) BY SeqFacts
    <3>2. Within(P, Len(vs)) BY <3>1 DEF Within
    <3> HIDE DEF P
    <3>3. IsSequence(AtPlaces(vs, P)) BY <3>1, <3>2, PlacesAreTaken
    <3>4. IsSequence(Only(vs, only)) BY <3>3 DEF Only, P
    <3> QED BY <3>4
  <2>2. shown = Ranked(w, Alphabet) BY DEF Body
  <2> HIDE DEF w, shown
  <2>3. Len(w) \in Nat /\ DOMAIN w = 1 .. Len(w) BY <2>1, SeqFacts
  <2>4. DOMAIN shown = 1 .. Len(w) BY <2>2, <2>3 DEF Ranked
  <2>5. /\ DOMAIN body = 1 .. Len(w) /\ body = [i \in 1 .. Len(w) |-> body[i]]
        /\ \A i \in 1 .. Len(w) : body[i].line = "verdict"
    BY <2>4
  <2>6. \A i \in 1 .. Len(w) : IsContract(body[i], vs) BY <2>5 DEF IsContract
  <2> HIDE DEF body
  <2> QED BY <1>4, <2>3, <2>5, <2>6
<1>12. Report(vs, metrics, only) = p1 \o p2 \o p3 \o p4 \o p5 \o body BY DEF Report
<1> HIDE DEF p1, p2, p3, p4, p5, body, worst, shown, kinds
<1>13. Good(p1 \o p2) BY <1>1, <1>5, <1>10
<1>14. Good(p1 \o p2 \o p3) BY <1>1, <1>6, <1>13
<1>15. Good(p1 \o p2 \o p3 \o p4) BY <1>1, <1>7, <1>14
<1>16. Good(p1 \o p2 \o p3 \o p4 \o p5) BY <1>1, <1>8, <1>15
<1>17. Good(Report(vs, metrics, only)) BY <1>1, <1>11, <1>12, <1>16
<1> QED BY <1>17 DEF Good

LEMMA StatusFollowsTheScan ==
  ASSUME NEW vs, IsSequence(vs)
  PROVE  /\ ExitStatus(vs) \in {OK, FOUND}
         /\ ExitStatus(vs) = FOUND <=> \E v \in Members(vs) : v.outcome = SKEWED
<1> DEFINE P == {i \in DOMAIN vs : vs[i].outcome = SKEWED}
<1>1. Len(vs) \in Nat /\ DOMAIN vs = 1 .. Len(vs) BY SeqFacts
<1>2. IsFiniteSet(P)
  <2>1. IsFiniteSet(1 .. Len(vs)) BY <1>1, FS_Interval
  <2>2. P \subseteq 1 .. Len(vs) BY <1>1
  <2> QED BY <2>1, <2>2, FS_Subset
<1>3. Cardinality(P) \in Nat /\ (Cardinality(P) = 0 <=> P = {})
  <2> HIDE DEF P
  <2> QED BY <1>2, FS_CardinalityType, FS_EmptySet
<1>4. P # {} <=> \E v \in Members(vs) : v.outcome = SKEWED BY DEF Members
<1>5. ExitStatus(vs) = IF Cardinality(P) > 0 THEN 1 ELSE 0 BY DEF ExitStatus, Count
<1> HIDE DEF P
<1> QED BY <1>3, <1>4, <1>5 DEF OK, FOUND

-----------------------------------------------------------------------------
(* Ratios are in order: NoRatio last, then by what exceeds what.           *)

Proper(r) == r.num \in Int /\ r.den \in Nat /\ (r.den > 0 \/ r.num > 0)
IsRatio(r) == r = NoRatio \/ Proper(r)
Hotter(r, s) == r # NoRatio /\ (s = NoRatio \/ Exceeds(r, s))

LEMMA Cancel ==
  ASSUME NEW x \in Int, NEW y \in Int, NEW d \in Nat, d > 0, x * d <= y * d
  PROVE  x <= y
<1> SUFFICES ASSUME y + 1 <= x PROVE FALSE OBVIOUS
<1>1. (y + 1) * d <= x * d BY TimesMonotone
<1>2. (y + 1) * d = y * d + d OBVIOUS
<1>3. x * d \in Int /\ y * d \in Int OBVIOUS
<1> QED BY <1>1, <1>2, <1>3

LEMMA FractionsChain ==
  ASSUME NEW a \in Int, NEW c \in Int, NEW e \in Int,
         NEW b \in Nat, NEW d \in Nat, NEW f \in Nat,
         d > 0 \/ c > 0, f > 0 \/ e > 0, a * d <= c * b, c * f <= e * d
  PROVE  a * f <= e * b
<1>1. CASE d > 0
  <2>1. (a * d) * f <= (c * b) * f
    <3>1. a * d \in Int /\ c * b \in Int OBVIOUS
    <3> QED BY <3>1, TimesMonotone
  <2>2. (c * f) * b <= (e * d) * b
    <3>1. c * f \in Int /\ e * d \in Int OBVIOUS
    <3> QED BY <3>1, TimesMonotone
  <2>3. /\ (a * d) * f = (a * f) * d /\ (c * b) * f = (c * f) * b
        /\ (e * d) * b = (e * b) * d
    OBVIOUS
  <2>4. (a * f) * d \in Int /\ (c * f) * b \in Int /\ (e * b) * d \in Int OBVIOUS
  <2>5. (a * f) * d <= (e * b) * d BY <2>1, <2>2, <2>3, <2>4
  <2>6. a * f \in Int /\ e * b \in Int OBVIOUS
  <2> QED BY <1>1, <2>5, <2>6, Cancel
<1>2. CASE ~(d > 0)
  <2>1. d = 0 /\ c > 0 /\ e * d = 0 BY <1>2
  <2>2. f = 0
    <3> SUFFICES ASSUME f > 0 PROVE FALSE OBVIOUS
    <3>1. 1 * f <= c * f BY <2>1, TimesMonotone
    <3> QED BY <2>1, <3>1
  <2>3. e > 0 /\ a * f = 0 BY <2>2
  <2>4. 0 * b <= e * b BY <2>3, TimesMonotone
  <2> QED BY <2>3, <2>4
<1> QED BY <1>1, <1>2

LEMMA ExceedsOrders ==
  ASSUME NEW r, NEW s, NEW t, Proper(r), Proper(s), Proper(t)
  PROVE  /\ ~(Exceeds(r, s) /\ Exceeds(s, r))
         /\ ~Exceeds(r, s) /\ ~Exceeds(s, t) => ~Exceeds(r, t)
         /\ ~Exceeds(r, s) /\ ~Exceeds(s, r) => SameRatio(r, s)
<1> DEFINE a == r.num
           b == r.den
           c == s.num
           d == s.den
           e == t.num
           f == t.den
<1>1. /\ a \in Int /\ c \in Int /\ e \in Int /\ b \in Nat /\ d \in Nat /\ f \in Nat
      /\ (d > 0 \/ c > 0) /\ (f > 0 \/ e > 0)
  BY DEF Proper
<1>2. /\ Exceeds(r, s) <=> a * d > c * b
      /\ Exceeds(s, r) <=> c * b > a * d
      /\ Exceeds(s, t) <=> c * f > e * d
      /\ Exceeds(r, t) <=> a * f > e * b
      /\ SameRatio(r, s) <=> a * d = c * b
  BY DEF Exceeds, SameRatio
<1> HIDE DEF a, b, c, d, e, f
<1>3. a * d \in Int /\ c * b \in Int /\ c * f \in Int /\ e * d \in Int
      /\ a * f \in Int /\ e * b \in Int
  BY <1>1
<1>4. a * d <= c * b /\ c * f <= e * d => a * f <= e * b BY <1>1, FractionsChain
<1> QED BY <1>2, <1>3, <1>4

LEMMA HotterOrders ==
  ASSUME NEW r, NEW s, NEW t, IsRatio(r), IsRatio(s), IsRatio(t)
  PROVE  /\ ~(Hotter(r, s) /\ Hotter(s, r))
         /\ ~Hotter(r, s) /\ ~Hotter(s, t) => ~Hotter(r, t)
<1>1. Proper(r) \/ r = NoRatio BY DEF IsRatio
<1>2. Proper(s) \/ s = NoRatio BY DEF IsRatio
<1>3. Proper(t) \/ t = NoRatio BY DEF IsRatio
<1>4. Proper(r) /\ Proper(s) => ~(Exceeds(r, s) /\ Exceeds(s, r)) BY ExceedsOrders
<1>5. Proper(r) /\ Proper(s) /\ Proper(t) =>
        (~Exceeds(r, s) /\ ~Exceeds(s, t) => ~Exceeds(r, t))
  BY ExceedsOrders
<1> QED BY <1>1, <1>2, <1>3, <1>4, <1>5 DEF Hotter

-----------------------------------------------------------------------------
(* What judge returns.                                                     *)

Measured == {m \in DOMAIN KindOf : Measurable(m)}

IsVerdict(v) ==
  /\ v.stage \in Nat
  /\ v.metric \in Measured
  /\ v.outcome \in {SKEWED, EVEN, UNDECIDED}
  /\ IsRatio(v.ratio)
  /\ v.outcome = SKEWED => Proper(v.ratio)

LEMMA KthIsInteger ==
  ASSUME NEW vals \in Seq(Int), NEW k \in 1 .. Len(vals)
  PROVE  Kth(vals, k) \in Int
<1>1. PICK v \in Int : IsKth(vals, k, v) BY SomeKth
<1>2. \A w \in Members(vals) : w \in Int BY Positions DEF Members
<1>3. v \in Members(vals) BY <1>1 DEF IsKth, Members
<1>4. Kth(vals, k) = CHOOSE w \in Members(vals) :
                       /\ Cardinality(Under(vals, w)) < k
                       /\ Cardinality(UpTo(vals, w)) >= k
  BY DEF Kth, Under, UpTo
<1>5. Kth(vals, k) \in Members(vals) BY <1>1, <1>3, <1>4 DEF IsKth
<1> QED BY <1>2, <1>5

LEMMA DecideIs ==
  ASSUME NEW vals \in Seq(Int), NEW floor, NEW threshold, NEW answer,
         answer = Decide(vals, floor, threshold)
  PROVE  /\ answer.outcome \in {SKEWED, EVEN, UNDECIDED}
         /\ IsRatio(answer.ratio)
         /\ answer.outcome = SKEWED => Proper(answer.ratio)
<1> DEFINE n == Len(vals)
           silent == n < MinTasks \/ Largest(vals) = 0 \/ Largest(vals) < floor
<1>1. CASE silent
  <2>1. answer = [outcome |-> UNDECIDED, ratio |-> NoRatio] BY <1>1 DEF Decide
  <2> QED BY <2>1 DEF IsRatio, SKEWED, UNDECIDED
<1>2. CASE ~silent
  <2>1. n \in Nat /\ ~(n < 3) BY <1>2 DEF MinTasks
  <2> HIDE DEF n
  <2>2. /\ n \in 1 .. n /\ (n + 1) \div 2 \in 1 .. n /\ n \div 2 + 1 \in 1 .. n BY <2>1
  <2>3. Largest(vals) \in Int BY <2>2, KthIsInteger DEF Largest, n
  <2>4. TwiceMedian(vals) \in Int
    <3>1. Kth(vals, (n + 1) \div 2) \in Int /\ Kth(vals, n \div 2 + 1) \in Int
      BY <2>2, KthIsInteger DEF n
    <3> QED BY <3>1 DEF TwiceMedian, n
  <2>5. CASE TwiceMedian(vals) = 0
    <3>1. answer = [outcome |-> SKEWED, ratio |-> Unbounded] BY <1>2, <2>5 DEF Decide, n
    <3> QED BY <3>1 DEF IsRatio, Proper, Unbounded
  <2>6. CASE TwiceMedian(vals) # 0
    <3>1. answer = [outcome |-> IF Exceeds(Over(vals), threshold) THEN SKEWED ELSE EVEN,
                    ratio |-> Over(vals)]
      BY <1>2, <2>6 DEF Decide, n
    <3>2. Proper(Over(vals))
      <4> DEFINE a == 2 * Largest(vals)
                 b == TwiceMedian(vals)
      <4>1. a \in Int /\ b \in Int /\ b # 0 BY <2>3, <2>4, <2>6
      <4>2. Over(vals) = Divide(a, b) BY DEF Over
      <4> HIDE DEF a, b
      <4> QED BY <4>1, <4>2 DEF Divide, Proper
    <3> QED BY <3>1, <3>2 DEF IsRatio
  <2> QED BY <2>5, <2>6
<1> QED BY <1>1, <1>2

LEMMA JudgeIs ==
  ASSUME NEW s \in [id : Nat, values : [Measured -> Seq(Int)]], NEW m \in Measured,
         NEW threshold
  PROVE  IsVerdict(Judge(s, m, threshold))
<1> DEFINE answer == Decide(s.values[m], Floors[KindOf[m]], threshold)
<1>1. s.id \in Nat /\ s.values[m] \in Seq(Int) OBVIOUS
<1>2. /\ answer.outcome \in {SKEWED, EVEN, UNDECIDED} /\ IsRatio(answer.ratio)
      /\ answer.outcome = SKEWED => Proper(answer.ratio)
  BY <1>1, DecideIs
<1> HIDE DEF answer
<1>3. Judge(s, m, threshold) = [stage |-> s.id, metric |-> m,
                                outcome |-> answer.outcome, ratio |-> answer.ratio]
  BY DEF Judge, answer
<1> QED BY <1>1, <1>2, <1>3 DEF IsVerdict

-----------------------------------------------------------------------------
(* Two comparisons of verdicts: sorted's, and max's.                       *)

LEMMA IndexIs ==
  ASSUME NEW s, DOMAIN s \subseteq Nat, NEW x \in Members(s)
  PROVE  IndexIn(s, x) \in Nat /\ s[IndexIn(s, x)] = x
<1>1. \E i \in DOMAIN s : s[i] = x BY DEF Members
<1>2. IndexIn(s, x) \in DOMAIN s /\ s[IndexIn(s, x)] = x BY <1>1 DEF IndexIn
<1> QED BY <1>2

OutcomeOf(v) == IndexIn(Outcomes, v.outcome)
KindPlace(v) == IndexIn(Kinds, KindOf[v.metric])
NamePlace(v) == IndexIn(Alphabet, v.metric)

LEMMA PlacesOfAVerdict ==
  ASSUME NEW v, IsVerdict(v)
  PROVE  /\ OutcomeOf(v) \in 1 .. 3 /\ KindPlace(v) \in Nat /\ NamePlace(v) \in Nat
         /\ v.stage \in Nat /\ (OutcomeOf(v) = 1 <=> v.outcome = SKEWED)
<1>1. OutcomeOf(v) \in 1 .. 3 /\ (OutcomeOf(v) = 1 <=> v.outcome = SKEWED)
  <2>1. v.outcome \in {SKEWED, EVEN, UNDECIDED} BY DEF IsVerdict
  <2>2. /\ DOMAIN Outcomes = 1 .. 3 /\ Outcomes[1] = SKEWED /\ Outcomes[2] = EVEN
        /\ Outcomes[3] = UNDECIDED
    BY DEF Outcomes
  <2>3. \E i \in DOMAIN Outcomes : Outcomes[i] = v.outcome BY <2>1, <2>2
  <2>4. OutcomeOf(v) \in DOMAIN Outcomes /\ Outcomes[OutcomeOf(v)] = v.outcome
    BY <2>3 DEF OutcomeOf, IndexIn
  <2>5. OutcomeOf(v) \in 1 .. 3 BY <2>2, <2>4
  <2>6. CASE OutcomeOf(v) = 1 BY <2>2, <2>4, <2>5, <2>6
  <2>7. CASE OutcomeOf(v) = 2 BY <2>2, <2>4, <2>7 DEF SKEWED, EVEN
  <2>8. CASE OutcomeOf(v) = 3 BY <2>2, <2>4, <2>8 DEF SKEWED, UNDECIDED
  <2> QED BY <2>5, <2>6, <2>7, <2>8
<1>2. v.metric \in DOMAIN KindOf /\ KindOf[v.metric] \in Members(Kinds)
  BY DEF IsVerdict, Measured, Measurable
<1>3. KindPlace(v) \in Nat
  <2>1. Kinds \in Seq(Members(Kinds)) BY CommandAssumption DEF CommandAssumption
  <2>2. IsSequence(Kinds) BY <2>1 DEF IsSequence
  <2>3. DOMAIN Kinds \subseteq Nat BY <2>2, SeqFacts
  <2> QED BY <1>2, <2>3, IndexIs DEF KindPlace
<1>4. NamePlace(v) \in Nat
  <2>1. DOMAIN Alphabet \subseteq Nat /\ v.metric \in Members(Alphabet)
    BY CommandAssumption DEF CommandAssumption, IsVerdict, Measured
  <2> QED BY <2>1, IndexIs DEF NamePlace
<1> QED BY <1>1, <1>3, <1>4 DEF IsVerdict

RankedBelow(v, w) ==
  \/ OutcomeOf(v) < OutcomeOf(w)
  \/ OutcomeOf(v) = OutcomeOf(w) /\ KindPlace(v) < KindPlace(w)
  \/ OutcomeOf(v) = OutcomeOf(w) /\ KindPlace(v) = KindPlace(w) /\ Hotter(v.ratio, w.ratio)
  \/ /\ OutcomeOf(v) = OutcomeOf(w) /\ KindPlace(v) = KindPlace(w)
     /\ ~Hotter(v.ratio, w.ratio) /\ ~Hotter(w.ratio, v.ratio)
     /\ (v.stage < w.stage \/ (v.stage = w.stage /\ NamePlace(v) < NamePlace(w)))

LEMMA RanksBeforeIs ==
  ASSUME NEW v, NEW w
  PROVE  RanksBefore(v, w, Alphabet) <=> RankedBelow(v, w)
BY DEF RanksBefore, RankedBelow, OutcomeOf, KindPlace, NamePlace, Hotter

LEMMA RanksOrder ==
  ASSUME NEW v, NEW w, NEW u, IsVerdict(v), IsVerdict(w), IsVerdict(u)
  PROVE  /\ ~(RankedBelow(v, w) /\ RankedBelow(w, v))
         /\ ~RankedBelow(v, w) /\ ~RankedBelow(w, u) => ~RankedBelow(v, u)
<1> DEFINE H(x, y) == Hotter(x.ratio, y.ratio)
<1>1. /\ OutcomeOf(v) \in Nat /\ KindPlace(v) \in Nat /\ NamePlace(v) \in Nat /\ v.stage \in Nat
      /\ OutcomeOf(w) \in Nat /\ KindPlace(w) \in Nat /\ NamePlace(w) \in Nat /\ w.stage \in Nat
      /\ OutcomeOf(u) \in Nat /\ KindPlace(u) \in Nat /\ NamePlace(u) \in Nat /\ u.stage \in Nat
  BY PlacesOfAVerdict
<1>2. IsRatio(v.ratio) /\ IsRatio(w.ratio) /\ IsRatio(u.ratio) BY DEF IsVerdict
<1>3. ~(H(v, w) /\ H(w, v)) /\ ~(H(w, u) /\ H(u, w)) /\ ~(H(v, u) /\ H(u, v))
  BY <1>2, HotterOrders
<1>4. /\ ~H(v, w) /\ ~H(w, u) => ~H(v, u)
      /\ ~H(w, v) /\ ~H(v, u) => ~H(w, u)
      /\ ~H(v, u) /\ ~H(u, w) => ~H(v, w)
      /\ ~H(u, w) /\ ~H(w, v) => ~H(u, v)
      /\ ~H(w, u) /\ ~H(u, v) => ~H(w, v)
      /\ ~H(u, v) /\ ~H(v, w) => ~H(u, w)
  BY <1>2, HotterOrders
<1> HIDE DEF H
<1>5. \A x, y : RankedBelow(x, y) <=>
        \/ OutcomeOf(x) < OutcomeOf(y)
        \/ OutcomeOf(x) = OutcomeOf(y) /\ KindPlace(x) < KindPlace(y)
        \/ OutcomeOf(x) = OutcomeOf(y) /\ KindPlace(x) = KindPlace(y) /\ H(x, y)
        \/ /\ OutcomeOf(x) = OutcomeOf(y) /\ KindPlace(x) = KindPlace(y)
           /\ ~H(x, y) /\ ~H(y, x)
           /\ (x.stage < y.stage \/ (x.stage = y.stage /\ NamePlace(x) < NamePlace(y)))
  BY DEF RankedBelow, H
<1>6. ~(RankedBelow(v, w) /\ RankedBelow(w, v)) BY <1>1, <1>3, <1>5
<1>7. ~RankedBelow(v, w) /\ ~RankedBelow(w, u) => ~RankedBelow(v, u)
  BY <1>1, <1>3, <1>4, <1>5
<1> QED BY <1>6, <1>7

LEMMA WorseOrders ==
  ASSUME NEW v, NEW w, NEW u, IsVerdict(v), IsVerdict(w), IsVerdict(u),
         v.outcome = SKEWED, w.outcome = SKEWED, u.outcome = SKEWED
  PROVE  /\ ~(Worse(v, w) /\ Worse(w, v))
         /\ ~Worse(v, w) /\ ~Worse(w, u) => ~Worse(v, u)
<1> DEFINE E(x, y) == Exceeds(x.ratio, y.ratio)
<1>1. /\ v.stage \in Nat /\ w.stage \in Nat /\ u.stage \in Nat
      /\ Proper(v.ratio) /\ Proper(w.ratio) /\ Proper(u.ratio)
  BY DEF IsVerdict
<1>2. ~(E(v, w) /\ E(w, v)) /\ ~(E(w, u) /\ E(u, w)) /\ ~(E(v, u) /\ E(u, v))
  BY <1>1, ExceedsOrders
<1>3. /\ ~E(v, w) /\ ~E(w, u) => ~E(v, u)
      /\ ~E(w, v) /\ ~E(v, u) => ~E(w, u)
      /\ ~E(v, u) /\ ~E(u, w) => ~E(v, w)
      /\ ~E(u, w) /\ ~E(w, v) => ~E(u, v)
      /\ ~E(w, u) /\ ~E(u, v) => ~E(w, v)
      /\ ~E(u, v) /\ ~E(v, w) => ~E(u, w)
  BY <1>1, ExceedsOrders
<1>4. \A x, y : Worse(x, y) <=> E(x, y) \/ (~E(y, x) /\ x.stage < y.stage) BY DEF Worse
<1> HIDE DEF E
<1> QED BY <1>1, <1>2, <1>3, <1>4

-----------------------------------------------------------------------------
(* A stable sort: ties by place.                                           *)

WeakOrder(K, B) ==
  /\ \A x, y \in K : ~(<<x, y>> \in B /\ <<y, x>> \in B)
  /\ \A x, y, z \in K : <<x, y>> \notin B /\ <<y, z>> \notin B => <<x, z>> \notin B

StableOf(K, B) ==
  {ij \in K \X K : \/ <<ij[1], ij[2]>> \in B
                   \/ ij[1] < ij[2] /\ <<ij[2], ij[1]>> \notin B}

LEMMA StableMeans ==
  ASSUME NEW K, NEW B, NEW x \in K, NEW y \in K
  PROVE  <<x, y>> \in StableOf(K, B) <=> <<x, y>> \in B \/ (x < y /\ <<y, x>> \notin B)
BY DEF StableOf

LEMMA StableIsAnOrder ==
  ASSUME NEW K, NEW n \in Nat, Within(K, n), NEW B, WeakOrder(K, B)
  PROVE  OrderOf(K, StableOf(K, B)) /\ IsFiniteSet(K)
<1> DEFINE R == StableOf(K, B)
<1>0. IsFiniteSet(K)
  <2>1. IsFiniteSet(1 .. n) BY FS_Interval
  <2> QED BY <2>1, FS_Subset DEF Within
<1>1. \A x, y \in K : <<x, y>> \in R <=> <<x, y>> \in B \/ (x < y /\ <<y, x>> \notin B)
  BY StableMeans
<1>2. \A x \in K : x \in Int BY DEF Within
<1> HIDE DEF R
<1>3. \A x \in K : <<x, x>> \notin R BY <1>1, <1>2 DEF WeakOrder
<1>4. ASSUME NEW x \in K, NEW y \in K, x # y PROVE <<x, y>> \in R \/ <<y, x>> \in R
  <2>1. x < y \/ y < x BY <1>2, <1>4
  <2> QED BY <1>1, <2>1
<1>5. ASSUME NEW x \in K, NEW y \in K, NEW z \in K, <<x, y>> \in R, <<y, z>> \in R
      PROVE  <<x, z>> \in R
  <2>1. <<y, x>> \notin B /\ <<z, y>> \notin B BY <1>1, <1>5 DEF WeakOrder
  <2>2. <<z, x>> \notin B BY <2>1 DEF WeakOrder
  <2>3. CASE <<x, y>> \in B
    <3>1. <<x, z>> \notin B => <<x, y>> \notin B BY <2>1 DEF WeakOrder
    <3> QED BY <1>1, <2>3, <3>1
  <2>4. CASE <<y, z>> \in B
    <3>1. <<x, z>> \notin B => <<y, z>> \notin B BY <2>1 DEF WeakOrder
    <3> QED BY <1>1, <2>4, <3>1
  <2>5. CASE <<x, y>> \notin B /\ <<y, z>> \notin B
    <3>1. x < y /\ y < z BY <1>1, <1>5, <2>5
    <3>2. x < z BY <1>2, <3>1
    <3> QED BY <1>1, <2>2, <3>2
  <2> QED BY <2>3, <2>4, <2>5
<1>6. OrderOf(K, R) BY <1>3, <1>4, <1>5 DEF OrderOf
<1> QED BY <1>0, <1>6 DEF R

Sortable(vs) == IsSequence(vs) /\ \A v \in Members(vs) : IsVerdict(v)

LEMMA SortableMeans ==
  ASSUME NEW vs, Sortable(vs)
  PROVE  /\ Len(vs) \in Nat /\ DOMAIN vs = 1 .. Len(vs)
         /\ \A i \in DOMAIN vs : IsVerdict(vs[i]) /\ vs[i] \in Members(vs)
BY SeqFacts DEF Sortable

(* sorted(): every verdict once, none after one it is ranked before.       *)
IsSorted(t, vs) ==
  /\ DOMAIN t = DOMAIN vs
  /\ \E p \in [DOMAIN vs -> DOMAIN vs] :
       /\ \A r \in DOMAIN vs : t[r] = vs[p[r]]
       /\ \A i \in DOMAIN vs : \E r \in DOMAIN vs : p[r] = i
  /\ \A q, r \in DOMAIN vs : r < q => ~RankedBelow(t[q], t[r])

LEMMA RankedIsSorted ==
  ASSUME NEW vs, Sortable(vs)
  PROVE  IsSorted(Ranked(vs, Alphabet), vs)
<1> DEFINE K == DOMAIN vs
           n == Len(vs)
           B == {ij \in K \X K : RankedBelow(vs[ij[1]], vs[ij[2]])}
           R == StableOf(K, B)
           t == Ranked(vs, Alphabet)
           before(i, j) == \/ RanksBefore(vs[i], vs[j], Alphabet)
                           \/ i < j /\ ~RanksBefore(vs[j], vs[i], Alphabet)
           place(r) == CHOOSE i \in K : Cardinality({j \in K : before(j, i)}) = r - 1
<1>1. n \in Nat /\ K = 1 .. n /\ \A i \in K : IsVerdict(vs[i]) BY SortableMeans
<1>2. \A i, j \in K : <<i, j>> \in B <=> RankedBelow(vs[i], vs[j]) OBVIOUS
<1>3. t = [r \in K |-> vs[place(r)]] BY DEF Ranked
<1> HIDE DEF B, t, K
<1>4. WeakOrder(K, B)
  <2>1. ASSUME NEW x \in K, NEW y \in K PROVE ~(<<x, y>> \in B /\ <<y, x>> \in B)
    BY <1>1, <1>2, RanksOrder
  <2>2. ASSUME NEW x \in K, NEW y \in K, NEW z \in K, <<x, y>> \notin B, <<y, z>> \notin B
        PROVE  <<x, z>> \notin B
    BY <1>1, <1>2, <2>2, RanksOrder
  <2> QED BY <2>1, <2>2 DEF WeakOrder
<1>5. Within(K, n) BY <1>1 DEF Within
<1>6. OrderOf(K, R) /\ IsFiniteSet(K) BY <1>1, <1>4, <1>5, StableIsAnOrder
<1>7. \A i, j \in K : <<i, j>> \in R <=> before(i, j)
  <2>1. TAKE i, j \in K
  <2>2. <<i, j>> \in R <=> <<i, j>> \in B \/ (i < j /\ <<j, i>> \notin B) BY StableMeans
  <2>3. /\ <<i, j>> \in B <=> RanksBefore(vs[i], vs[j], Alphabet)
        /\ <<j, i>> \in B <=> RanksBefore(vs[j], vs[i], Alphabet)
    BY <1>2, RanksBeforeIs
  <2> QED BY <2>2, <2>3
<1> HIDE DEF R
<1>8. \A i \in K : Cardinality({j \in K : before(j, i)}) = RankIn(K, R, i)
  <2>1. TAKE i \in K
  <2>2. {j \in K : before(j, i)} = BeforeIn(K, R, i) BY <1>7 DEF BeforeIn
  <2> QED BY <2>2 DEF RankIn
<1>9. /\ Cardinality(K) \in Nat
      /\ \A x \in K : RankIn(K, R, x) \in 0 .. Cardinality(K) - 1
      /\ \A x, y \in K : RankIn(K, R, x) = RankIn(K, R, y) => x = y
      /\ \A r \in 0 .. Cardinality(K) - 1 : \E x \in K : RankIn(K, R, x) = r
  BY <1>6, RanksAreTaken
<1>10. Cardinality(K) = n
  <2> HIDE DEF n
  <2>1. Cardinality(1 .. n) = IF 1 > n THEN 0 ELSE n - 1 + 1 BY <1>1, FS_Interval
  <2>2. Cardinality(1 .. n) = n BY <1>1, <2>1
  <2> QED BY <1>1, <2>2
<1>11. \A r \in K : place(r) \in K /\ RankIn(K, R, place(r)) = r - 1
  <2>1. TAKE r \in K
  <2>2. r - 1 \in 0 .. n - 1 BY <1>1
  <2>3. PICK x \in K : RankIn(K, R, x) = r - 1 BY <1>9, <1>10, <2>2
  <2>4. \E i \in K : Cardinality({j \in K : before(j, i)}) = r - 1 BY <1>8, <2>3
  <2>5. place(r) \in K /\ Cardinality({j \in K : before(j, place(r))}) = r - 1 BY <2>4
  <2> QED BY <1>8, <2>5
<1> HIDE DEF place, before
<1> DEFINE p == [r \in K |-> place(r)]
<1>12. DOMAIN t = K /\ \A r \in K : t[r] = vs[place(r)] BY <1>3
<1>13. p \in [K -> K] /\ \A r \in K : p[r] = place(r) BY <1>11
<1>14. \A i \in K : \E r \in K : p[r] = i
  <2>1. TAKE i \in K
  <2>2. RankIn(K, R, i) \in 0 .. n - 1 BY <1>9, <1>10
  <2>3. PICK r \in 1 .. n : r - 1 = RankIn(K, R, i)
    <3>1. RankIn(K, R, i) + 1 \in 1 .. n /\ (RankIn(K, R, i) + 1) - 1 = RankIn(K, R, i)
      BY <1>1, <2>2
    <3> QED BY <3>1
  <2>4. r \in K BY <1>1
  <2>5. place(r) = i BY <1>9, <1>11, <2>3, <2>4
  <2> QED BY <1>13, <2>4, <2>5
<1>15. ASSUME NEW q \in K, NEW r \in K, r < q PROVE ~RankedBelow(t[q], t[r])
  <2>1. place(q) \in K /\ place(r) \in K BY <1>11
  <2>2. RankIn(K, R, place(r)) = r - 1 /\ RankIn(K, R, place(q)) = q - 1 BY <1>11
  <2>3. r \in Int /\ q \in Int BY <1>1
  <2>4. ~(RankIn(K, R, place(q)) < RankIn(K, R, place(r))) BY <1>15, <2>2, <2>3
  <2>5. <<place(q), place(r)>> \notin R BY <1>6, <2>1, <2>4, RankFollowsOrder
  <2>6. <<place(q), place(r)>> \notin B BY <2>1, <2>5, StableMeans DEF R
  <2> QED BY <1>2, <1>12, <2>1, <2>6
<1> HIDE DEF p
<1>16. \E f \in [K -> K] : /\ \A r \in K : t[r] = vs[f[r]]
                           /\ \A i \in K : \E r \in K : f[r] = i
  <2>1. p \in [K -> K] BY <1>13
  <2>2. /\ \A r \in K : t[r] = vs[p[r]]
        /\ \A i \in K : \E r \in K : p[r] = i
    BY <1>12, <1>13, <1>14
  <2> QED BY <2>1, <2>2
<1> QED BY <1>12, <1>15, <1>16 DEF IsSorted, K, t

(* max(): one of them, and none is worse.                                  *)
LEMMA WorstIsWorst ==
  ASSUME NEW vs, Sortable(vs), NEW k, HasWorst(vs, k)
  PROVE  \E i \in SkewedOf(vs, k) :
           /\ Worst(vs, k) = vs[i]
           /\ \A j \in SkewedOf(vs, k) : ~Worse(vs[j], vs[i])
<1> DEFINE K == SkewedOf(vs, k)
           n == Len(vs)
           B == {ij \in K \X K : Worse(vs[ij[1]], vs[ij[2]])}
           R == StableOf(K, B)
           top == {i \in K : \A j \in K : ~Worse(vs[j], vs[i])}
<1>1. /\ n \in Nat /\ Within(K, n) /\ K # {}
      /\ \A i \in K : IsVerdict(vs[i]) /\ vs[i].outcome = SKEWED
  BY SortableMeans DEF Within, SkewedOf, HasWorst
<1>2. \A i, j \in K : <<i, j>> \in B <=> Worse(vs[i], vs[j]) OBVIOUS
<1>3. Worst(vs, k) = vs[CHOOSE i \in top : \A j \in top : i <= j] BY DEF Worst
<1> HIDE DEF B, K
<1>4. WeakOrder(K, B)
  <2>1. ASSUME NEW x \in K, NEW y \in K PROVE ~(<<x, y>> \in B /\ <<y, x>> \in B)
    BY <1>1, <1>2, WorseOrders
  <2>2. ASSUME NEW x \in K, NEW y \in K, NEW z \in K, <<x, y>> \notin B, <<y, z>> \notin B
        PROVE  <<x, z>> \notin B
    BY <1>1, <1>2, <2>2, WorseOrders
  <2> QED BY <2>1, <2>2 DEF WeakOrder
<1>5. OrderOf(K, R) /\ IsFiniteSet(K) BY <1>1, <1>4, StableIsAnOrder
<1> HIDE DEF R
<1>6. \E i \in K : RankIn(K, R, i) = 0
  <2>1. /\ Cardinality(K) \in Nat
        /\ \A x \in K : RankIn(K, R, x) \in 0 .. Cardinality(K) - 1
        /\ \A x, y \in K : RankIn(K, R, x) = RankIn(K, R, y) => x = y
        /\ \A r \in 0 .. Cardinality(K) - 1 : \E x \in K : RankIn(K, R, x) = r
    BY <1>5, RanksAreTaken
  <2>2. Cardinality(K) # 0 BY <1>1, <1>5, FS_EmptySet
  <2>3. 0 \in 0 .. Cardinality(K) - 1 BY <2>1, <2>2
  <2> QED BY <2>1, <2>3
<1>7. PICK i \in K : RankIn(K, R, i) = 0 BY <1>6
<1>8. ASSUME NEW j \in K PROVE ~Worse(vs[j], vs[i])
  <2>1. RankIn(K, R, j) \in Nat /\ (<<j, i>> \in R <=> RankIn(K, R, j) < RankIn(K, R, i))
    BY <1>5, RankFollowsOrder
  <2>2. <<j, i>> \notin R BY <1>7, <2>1
  <2>3. <<j, i>> \notin B BY <2>2, StableMeans DEF R
  <2> QED BY <1>2, <2>3
<1>9. top \in SUBSET Nat /\ top # {}
  <2>1. K \subseteq Nat BY <1>1 DEF Within
  <2>2. top \subseteq K /\ i \in top BY <1>8
  <2> QED BY <2>1, <2>2
<1> HIDE DEF top
<1>10. \E m \in top : \A j \in top : m <= j BY <1>9, HasLeast
<1> DEFINE m == CHOOSE h \in top : \A j \in top : h <= j
<1>11. m \in top BY <1>10
<1> HIDE DEF m
<1>12. m \in K /\ \A j \in K : ~Worse(vs[j], vs[m]) BY <1>11 DEF top
<1>13. Worst(vs, k) = vs[m] BY <1>3 DEF m
<1> QED BY <1>12, <1>13 DEF K

(* Two verdicts of a kind that neither comparison tells apart.             *)
LEMMA NeitherIsWorse ==
  ASSUME NEW v, NEW w, IsVerdict(v), IsVerdict(w), w.outcome = SKEWED,
         KindOf[v.metric] = KindOf[w.metric], ~RankedBelow(w, v),
         v.outcome = SKEWED => ~Worse(v, w)
  PROVE  v.stage = w.stage /\ SameRatio(v.ratio, w.ratio)
<1>1. /\ OutcomeOf(w) = 1 /\ OutcomeOf(v) \in 1 .. 3
      /\ (OutcomeOf(v) = 1 => v.outcome = SKEWED)
      /\ v.stage \in Nat /\ w.stage \in Nat
  BY PlacesOfAVerdict
<1>2. OutcomeOf(v) = 1 /\ v.outcome = SKEWED
  <2>1. ~(OutcomeOf(w) < OutcomeOf(v)) BY DEF RankedBelow
  <2> QED BY <1>1, <2>1
<1>3. KindPlace(v) = KindPlace(w) BY DEF KindPlace
<1>4. Proper(v.ratio) /\ Proper(w.ratio) BY <1>2 DEF IsVerdict
<1>5. v.ratio # NoRatio /\ w.ratio # NoRatio BY <1>4 DEF Proper, NoRatio
<1>6. ~Exceeds(w.ratio, v.ratio)
  <2>1. ~Hotter(w.ratio, v.ratio) BY <1>1, <1>2, <1>3 DEF RankedBelow
  <2> QED BY <1>5, <2>1 DEF Hotter
<1>7. ~Worse(v, w) BY <1>2
<1>8. ~Exceeds(v.ratio, w.ratio) /\ ~(v.stage < w.stage) BY <1>6, <1>7 DEF Worse
<1>9. SameRatio(v.ratio, w.ratio) BY <1>4, <1>6, <1>8, ExceedsOrders
<1>10. ~(w.stage < v.stage)
  <2>1. ~Hotter(w.ratio, v.ratio) /\ ~Hotter(v.ratio, w.ratio)
    BY <1>5, <1>6, <1>8 DEF Hotter
  <2> QED BY <1>1, <1>2, <1>3, <2>1 DEF RankedBelow
<1> QED BY <1>1, <1>8, <1>9, <1>10

(* The first line of a kind, in a body that shows every skewed verdict.    *)
LEMMA FirstOfKind ==
  ASSUME NEW vs, Sortable(vs), NEW k, HasWorst(vs, k), NEW ws, Sortable(ws),
         Members(ws) \subseteq Members(vs),
         \A v \in Members(vs) : v.outcome = SKEWED => v \in Members(ws),
         NEW body, body = Ranked(ws, Alphabet), NEW first,
         first = body[CHOOSE i \in DOMAIN body :
                        /\ KindOf[body[i].metric] = k
                        /\ \A j \in 1 .. i - 1 : KindOf[body[j].metric] # k]
  PROVE  first.stage = Worst(vs, k).stage /\ SameRatio(first.ratio, Worst(vs, k).ratio)
<1> DEFINE worst == Worst(vs, k)
           K == DOMAIN ws
           kind(i) == KindOf[body[i].metric]
           hits == {i \in K : kind(i) = k}
           f == CHOOSE i \in K : kind(i) = k /\ \A j \in 1 .. i - 1 : kind(j) # k
<1>1. /\ Len(ws) \in Nat /\ K = 1 .. Len(ws)
      /\ \A i \in K : IsVerdict(ws[i]) /\ ws[i] \in Members(ws)
  BY SortableMeans
<1>2. IsSorted(body, ws) BY RankedIsSorted
<1>3. DOMAIN body = K BY <1>2 DEF IsSorted
<1>4. PICK p \in [K -> K] :
        /\ \A r \in K : body[r] = ws[p[r]]
        /\ \A i \in K : \E r \in K : p[r] = i
  BY <1>2 DEF IsSorted
<1>5. \A q, r \in K : r < q => ~RankedBelow(body[q], body[r]) BY <1>2 DEF IsSorted
<1>6. \A r \in K : IsVerdict(body[r]) /\ body[r] \in Members(ws) BY <1>1, <1>4
<1>7. PICK a \in SkewedOf(vs, k) : /\ worst = vs[a]
                                   /\ \A j \in SkewedOf(vs, k) : ~Worse(vs[j], vs[a])
  BY WorstIsWorst
<1>8. /\ worst \in Members(vs) /\ worst.outcome = SKEWED /\ KindOf[worst.metric] = k
      /\ IsVerdict(worst)
  BY <1>7, SortableMeans DEF SkewedOf
<1> HIDE DEF worst
<1>9. PICK b \in K : ws[b] = worst
  <2>1. worst \in Members(ws) BY <1>8
  <2> QED BY <2>1 DEF Members
<1>10. PICK w \in K : body[w] = worst BY <1>4, <1>9
<1>11. first = body[f] BY <1>3
<1> HIDE DEF K
<1>12. f \in K /\ kind(f) = k /\ \A j \in 1 .. f - 1 : kind(j) # k
  <2>1. hits \in SUBSET Nat /\ hits # {}
    <3>1. w \in hits BY <1>8, <1>10
    <3>2. \A i \in hits : i \in Nat BY <1>1
    <3> QED BY <3>1, <3>2
  <2> HIDE DEF hits
  <2>2. PICK m \in hits : \A i \in hits : m <= i BY <2>1, HasLeast
  <2>3. m \in K /\ kind(m) = k BY <2>2 DEF hits
  <2>4. ASSUME NEW j \in 1 .. m - 1, kind(j) = k PROVE FALSE
    <3>1. j \in K BY <1>1, <2>3
    <3>2. j \in hits BY <2>4, <3>1 DEF hits
    <3>3. m <= j BY <2>2, <3>2
    <3> QED BY <1>1, <2>3, <2>4, <3>3
  <2>5. \E i \in K : kind(i) = k /\ \A j \in 1 .. i - 1 : kind(j) # k BY <2>3, <2>4
  <2> HIDE DEF kind
  <2> QED BY <2>5
<1> HIDE DEF f
<1>13. ~RankedBelow(worst, first)
  <2>1. f \in Int /\ w \in Int /\ kind(w) = k /\ w >= 1 BY <1>1, <1>8, <1>10, <1>12
  <2>2. f <= w
    <3> SUFFICES ASSUME w < f PROVE FALSE BY <2>1
    <3>1. w \in 1 .. f - 1 BY <2>1
    <3> QED BY <1>12, <2>1, <3>1
  <2>3. CASE f = w
    <3>1. first = worst BY <1>10, <1>11, <2>3
    <3> QED BY <1>8, <3>1, RanksOrder
  <2>4. CASE f < w BY <1>5, <1>10, <1>11, <1>12, <2>4
  <2> QED BY <2>1, <2>2, <2>3, <2>4
<1>14. IsVerdict(first) /\ first \in Members(vs) /\ KindOf[first.metric] = k
  BY <1>6, <1>11, <1>12
<1>15. first.outcome = SKEWED => ~Worse(first, worst)
  <2> SUFFICES ASSUME first.outcome = SKEWED PROVE ~Worse(first, worst) OBVIOUS
  <2>1. PICK c \in DOMAIN vs : first = vs[c] BY <1>14 DEF Members
  <2>2. c \in SkewedOf(vs, k) BY <1>14, <2>1 DEF SkewedOf
  <2> QED BY <1>7, <2>1, <2>2
<1>16. first.stage = worst.stage /\ SameRatio(first.ratio, worst.ratio)
  BY <1>8, <1>13, <1>14, <1>15, NeitherIsWorse
<1> QED BY <1>16 DEF worst

-----------------------------------------------------------------------------
(* What is known at each phase.                                            *)

FullScan == Scan(file, Metrics, args.threshold)
FullReport == Report(FullScan, Metrics, args.only)

Accepted == Refused(Metrics) = {}

Inputs == args \in Usages /\ file \in Logs \cup {Unreadable}

Order ==
  /\ phase \in {"parse", "refuse", "profile", "scan", "print", "flush", "exit"}
  /\ phase # "exit" => status = -1
  /\ phase \in {"profile", "scan", "print"} => Accepted
  /\ phase \in {"scan", "print"} => file \in Logs

Judged ==
  /\ phase \in {"parse", "refuse", "profile"} => verdicts = <<>>
  /\ phase = "scan" => /\ Len(verdicts) \in 0 .. Len(FullScan)
                       /\ verdicts = SubSeq(FullScan, 1, Len(verdicts))
  /\ phase = "print" => verdicts = FullScan

Spoken ==
  /\ phase \in {"parse", "refuse", "profile", "scan"} => buffer = <<>> /\ delivered = <<>>
  /\ phase = "print" => SaidSoFar(FullReport, buffer, delivered)

IsTheAnswer(lines, s) ==
  Accepted /\ file \in Logs /\ lines = FullReport /\ s = ExitStatus(FullScan)

Closing ==
  /\ phase = "flush" => code = REFUSED \/ IsTheAnswer(delivered \o buffer, code)
  /\ Answers => IsTheAnswer(delivered, status)

CommandInv == Inputs /\ Order /\ Judged /\ Spoken /\ Closing

LEMMA WhatIsRead ==
  ASSUME Inputs, file \in Logs
  PROVE  /\ IsSequence(file) /\ IsSequence(Metrics)
         /\ IsSequence(FullScan) /\ IsSequence(FullReport)
         /\ Len(FullScan) = Len(file) * Len(Metrics)
<1>1. IsSequence(file)
  <2>1. file \in Seq([id : Nat,
                      values : [{m \in DOMAIN KindOf : Measurable(m)} -> Seq(Int)]])
    BY CommandAssumption DEF CommandAssumption
  <2> QED BY <2>1, TypedIsASeq
<1>2. IsSequence(Metrics)
  <2>1. IsSequence(args.metrics) BY CommandAssumption DEF CommandAssumption, Inputs, IsSequence
  <2>2. IsSequence(Quantities)
    <3>1. Quantities \in Seq({m \in DOMAIN KindOf : Measurable(m)})
      BY CommandAssumption DEF CommandAssumption
    <3> QED BY <3>1, TypedIsASeq
  <2> QED BY <2>1, <2>2 DEF Metrics
<1>3. IsSequence(FullScan) /\ Len(FullScan) = Len(file) * Len(Metrics)
  BY <1>1, <1>2, ScanIs DEF FullScan
<1>4. IsSequence(FullReport) BY <1>3, ReportIs DEF FullReport
<1> QED BY <1>1, <1>2, <1>3, <1>4

LEMMA Starts == Init => CommandInv
<1> SUFFICES ASSUME Init PROVE CommandInv OBVIOUS
<1>1. phase = "parse" /\ status = -1 BY DEF Init
<1>2. Inputs /\ verdicts = <<>> /\ buffer = <<>> /\ delivered = <<>> BY DEF Init, Inputs
<1>3. Order /\ Judged /\ Spoken /\ Closing
  BY <1>1, <1>2 DEF Order, Judged, Spoken, Closing, Answers, OK, FOUND
<1> QED BY <1>2, <1>3 DEF CommandInv

LEMMA SameRun ==
  ASSUME UNCHANGED <<args, file>>
  PROVE  /\ FullScan' = FullScan /\ FullReport' = FullReport /\ Accepted' = Accepted
         /\ Metrics' = Metrics
BY DEF FullScan, FullReport, Accepted, Metrics

LEMMA Steps ==
  ASSUME CommandInv, [Next]_commandVars
  PROVE  CommandInv'
<1> USE DEF CommandInv, Exit, Answers, OK, FOUND, REFUSED, FAILED, UNFLUSHED, BROKEN
<1>0. /\ phase # "exit" => status = -1
      /\ phase \in {"parse", "refuse", "profile", "scan", "print", "flush", "exit"}
  BY DEF Order
<1>1. CASE Parse
  <2>1. UNCHANGED <<args, file, verdicts, buffer, delivered>> /\ phase = "parse"
        /\ \/ phase' = "refuse" /\ status' = -1
           \/ phase' = "exit" /\ status' \in {2, 120}
           \/ phase' = "exit" /\ status' = 0 /\ args.asks = "help"
    BY <1>0, <1>1 DEF Parse
  <2>2. Inputs' /\ Order' /\ Judged' BY <2>1 DEF Inputs, Order, Judged
  <2>3. Spoken' /\ Closing' BY <2>1 DEF Spoken, Closing
  <2> QED BY <2>2, <2>3
<1>2. CASE Refuse
  <2>1. /\ UNCHANGED <<args, file, verdicts, buffer, delivered, status>>
        /\ phase = "refuse" /\ phase' = "flush" /\ code' = REFUSED /\ status = -1
    BY <1>0, <1>2 DEF Refuse
  <2>2. Inputs' /\ Order' /\ Judged' BY <2>1 DEF Inputs, Order, Judged
  <2>3. Spoken' /\ Closing' BY <2>1 DEF Spoken, Closing
  <2> QED BY <2>2, <2>3
<1>3. CASE Accept
  <2>1. /\ UNCHANGED <<args, file, verdicts, buffer, delivered, status>>
        /\ phase = "refuse" /\ phase' = "profile" /\ status = -1 /\ Accepted
    BY <1>0, <1>3 DEF Accept, Accepted
  <2>2. Accepted' BY <2>1, SameRun
  <2>3. Inputs' /\ Order' /\ Judged' BY <2>1, <2>2 DEF Inputs, Order, Judged
  <2>4. Spoken' /\ Closing' BY <2>1 DEF Spoken, Closing
  <2> QED BY <2>3, <2>4
<1>4. CASE Profile
  <2>1. /\ UNCHANGED <<args, file, verdicts, buffer, delivered>> /\ phase = "profile"
        /\ \/ phase' = "exit" /\ status' = 3
           \/ phase' = "scan" /\ status' = -1 /\ file \in Logs
    BY <1>0, <1>4 DEF Profile, Inputs
  <2>2. Accepted /\ verdicts = <<>> /\ buffer = <<>> /\ delivered = <<>>
    BY <2>1 DEF Order, Judged, Spoken
  <2>3. Accepted' BY <2>1, <2>2, SameRun
  <2>4. Inputs' /\ Order' BY <2>1, <2>3 DEF Inputs, Order
  <2>5. Spoken' /\ Closing' BY <2>1, <2>2 DEF Spoken, Closing
  <2>6. Judged'
    <3>1. CASE phase' = "exit" BY <3>1 DEF Judged
    <3>2. CASE phase' = "scan"
      <4>1. verdicts' = <<>> /\ file \in Logs BY <2>1, <2>2, <3>2
      <4>2. IsSequence(FullScan) BY <4>1, WhatIsRead
      <4>3. Len(FullScan) \in Nat /\ SubSeq(FullScan, 1, 0) = <<>>
        BY <4>2, SeqFacts, NothingYet
      <4>4. FullScan' = FullScan BY <2>1, SameRun
      <4>5. Len(verdicts') = 0 BY <4>1
      <4> QED BY <3>2, <4>1, <4>3, <4>4, <4>5 DEF Judged
    <3> QED BY <2>1, <3>1, <3>2
  <2> QED BY <2>4, <2>5, <2>6
<1>5. CASE JudgeNext
  <2> DEFINE n == Len(verdicts)
  <2>1. /\ UNCHANGED <<args, file, buffer, delivered>> /\ phase = "scan"
        /\ n < Len(file) * Len(Metrics)
        /\ \/ phase' = "exit" /\ status' = 3
           \/ /\ phase' = "scan" /\ status' = -1
              /\ verdicts' = Append(verdicts, FullScan[n + 1])
    BY <1>0, <1>5 DEF JudgeNext, FullScan
  <2>2. Accepted /\ file \in Logs /\ buffer = <<>> /\ delivered = <<>>
        /\ n \in 0 .. Len(FullScan) /\ verdicts = SubSeq(FullScan, 1, n)
    BY <2>1 DEF Order, Judged, Spoken
  <2>3. Accepted' /\ FullScan' = FullScan BY <2>1, <2>2, SameRun
  <2>4. Inputs' /\ Order' BY <2>1, <2>2, <2>3 DEF Inputs, Order
  <2>5. Spoken' /\ Closing' BY <2>1, <2>2 DEF Spoken, Closing
  <2>6. Judged'
    <3>1. CASE phase' = "exit" BY <3>1 DEF Judged
    <3>2. CASE phase' = "scan"
      <4>1. verdicts' = Append(SubSeq(FullScan, 1, n), FullScan[n + 1])
        BY <2>1, <2>2, <3>2
      <4>2. IsSequence(FullScan) /\ n < Len(FullScan) BY <2>1, <2>2, WhatIsRead
      <4>3. Len(FullScan) \in Nat /\ n \in Nat BY <2>2, <4>2, SeqFacts
      <4> HIDE DEF n
      <4>4. verdicts' = SubSeq(FullScan, 1, n + 1) BY <4>1, <4>2, <4>3, OneMore
      <4>5. Len(SubSeq(FullScan, 1, n + 1)) = n + 1 BY <4>2, <4>3, FirstOf
      <4>6. Len(verdicts') = n + 1 BY <4>4, <4>5
      <4>7. n + 1 \in 0 .. Len(FullScan) BY <4>2, <4>3
      <4> QED BY <2>3, <3>2, <4>4, <4>6, <4>7 DEF Judged
    <3> QED BY <2>1, <3>1, <3>2
  <2> QED BY <2>4, <2>5, <2>6
<1>6. CASE Scanned
  <2>1. /\ UNCHANGED <<args, file, verdicts, buffer, delivered, status>>
        /\ phase = "scan" /\ phase' = "print" /\ status = -1
        /\ Len(verdicts) = Len(file) * Len(Metrics)
    BY <1>0, <1>6 DEF Scanned
  <2>2. Accepted /\ file \in Logs /\ buffer = <<>> /\ delivered = <<>>
        /\ verdicts = SubSeq(FullScan, 1, Len(verdicts))
    BY <2>1 DEF Order, Judged, Spoken
  <2>3. Accepted' /\ FullScan' = FullScan /\ FullReport' = FullReport
    BY <2>1, <2>2, SameRun
  <2>4. /\ IsSequence(FullScan) /\ IsSequence(FullReport)
        /\ Len(FullScan) = Len(file) * Len(Metrics)
    BY <2>2, WhatIsRead
  <2>5. verdicts = SubSeq(FullScan, 1, Len(FullScan)) BY <2>1, <2>2, <2>4
  <2>6. verdicts = FullScan BY <2>4, <2>5, FirstOf
  <2>7. Inputs' /\ Order' /\ Judged' BY <2>1, <2>2, <2>3, <2>6 DEF Inputs, Order, Judged
  <2>8. Len(FullReport) \in Nat /\ SubSeq(FullReport, 1, 0) = <<>>
    BY <2>4, SeqFacts, NothingYet
  <2>9. SaidSoFar(FullReport, <<>>, <<>>) BY <2>8 DEF SaidSoFar
  <2>10. Spoken' BY <2>1, <2>2, <2>3, <2>9 DEF Spoken
  <2>11. Closing' BY <2>1 DEF Closing
  <2> QED BY <2>7, <2>10, <2>11
<1>7. CASE PrintLine
  <2>1. UNCHANGED <<args, file, verdicts>> /\ phase = "print" /\ status = -1
        /\ Printed < Len(Lines)
        /\ \/ phase' = "exit" /\ status' = 141
           \/ /\ phase' = "print" /\ status' = -1
              /\ \/ /\ buffer' = Append(buffer, Lines[Printed + 1])
                    /\ delivered' = delivered
                 \/ /\ delivered' = delivered \o buffer
                    /\ buffer' = <<Lines[Printed + 1]>>
    BY <1>0, <1>7 DEF PrintLine
  <2>2. Accepted /\ file \in Logs /\ verdicts = FullScan
    BY <2>1 DEF Order, Judged
  <2>3. Lines = FullReport BY <2>2 DEF Lines, FullReport
  <2>4. Accepted' /\ FullScan' = FullScan /\ FullReport' = FullReport
    BY <2>1, <2>2, SameRun
  <2>5. Inputs' /\ Order' /\ Judged' BY <2>1, <2>2, <2>4 DEF Inputs, Order, Judged
  <2>6. Closing' BY <2>1 DEF Closing
  <2>7. Spoken'
    <3>1. CASE phase' = "exit" BY <3>1 DEF Spoken
    <3>2. CASE phase' = "print"
      <4>1. IsSequence(FullReport) BY <2>2, WhatIsRead
      <4>2. SaidSoFar(FullReport, buffer, delivered) BY <2>1 DEF Spoken
      <4>3. /\ OneLine(FullReport[Printed + 1], buffer, delivered, buffer', delivered')
            /\ Printed < Len(FullReport)
        BY <2>1, <2>3, <3>2 DEF OneLine
      <4>4. Printed \in Nat /\ Printed = Len(delivered) + Len(buffer)
        BY <4>2 DEF SaidSoFar, Printed
      <4>5. SaidSoFar(FullReport, buffer', delivered') BY <4>1, <4>2, <4>3, <4>4, PrintsOn
      <4> QED BY <2>4, <3>2, <4>5 DEF Spoken
    <3> QED BY <2>1, <3>1, <3>2
  <2> QED BY <2>5, <2>6, <2>7
<1>8. CASE Return
  <2>1. /\ UNCHANGED <<args, file, verdicts, buffer, delivered, status>>
        /\ phase = "print" /\ phase' = "flush" /\ status = -1
        /\ Printed = Len(Lines) /\ code' = ExitStatus(verdicts)
    BY <1>0, <1>8 DEF Return, StatusOf
  <2>2. Accepted /\ file \in Logs /\ verdicts = FullScan
        /\ delivered \o buffer = SubSeq(FullReport, 1, Printed)
    BY <2>1 DEF Order, Judged, Spoken, SaidSoFar, Printed
  <2>3. Lines = FullReport BY <2>2 DEF Lines, FullReport
  <2>4. Accepted' /\ FullScan' = FullScan /\ FullReport' = FullReport
    BY <2>1, <2>2, SameRun
  <2>5. delivered \o buffer = SubSeq(FullReport, 1, Len(FullReport)) BY <2>1, <2>2, <2>3
  <2>6. delivered \o buffer = FullReport BY <2>2, <2>5, WhatIsRead, FirstOf
  <2>7. Inputs' /\ Order' /\ Judged' BY <2>1 DEF Inputs, Order, Judged
  <2>8. Spoken' BY <2>1 DEF Spoken
  <2>9. Closing' BY <2>1, <2>2, <2>4, <2>6 DEF Closing, IsTheAnswer
  <2> QED BY <2>7, <2>8, <2>9
<1>9. CASE Flush
  <2>1. /\ UNCHANGED <<args, file, verdicts, code>> /\ phase = "flush" /\ phase' = "exit"
        /\ \/ delivered' = delivered \o buffer /\ status' = code
           \/ status' = 141
    BY <1>9 DEF Flush
  <2>2. code = REFUSED \/ IsTheAnswer(delivered \o buffer, code) BY <2>1 DEF Closing
  <2>3. Accepted' = Accepted /\ FullScan' = FullScan /\ FullReport' = FullReport
    BY <2>1, SameRun
  <2>4. Inputs' /\ Order' /\ Judged' BY <2>1 DEF Inputs, Order, Judged
  <2>5. Spoken' BY <2>1 DEF Spoken
  <2>6. status' \in {OK, FOUND} =>
          /\ Accepted /\ file \in Logs /\ delivered' = FullReport
          /\ status' = ExitStatus(FullScan)
    <3>1. CASE status' = 141 BY <3>1
    <3>2. CASE delivered' = delivered \o buffer /\ status' = code
      <4>1. CASE code = REFUSED BY <3>2, <4>1
      <4>2. CASE IsTheAnswer(delivered \o buffer, code)
        BY <3>2, <4>2 DEF IsTheAnswer
      <4> QED BY <2>2, <4>1, <4>2
    <3> QED BY <2>1, <3>1, <3>2
  <2>7. status' \in {OK, FOUND} =>
          /\ Accepted' /\ file' \in Logs /\ delivered' = FullReport'
          /\ status' = ExitStatus(FullScan')
    BY <2>1, <2>3, <2>6
  <2>8. Closing' BY <2>1, <2>7 DEF Closing, IsTheAnswer
  <2> QED BY <2>4, <2>5, <2>8
<1>10. CASE ReaderCloses \/ UNCHANGED commandVars
  <2>1. UNCHANGED <<args, file, phase, verdicts, buffer, delivered, code, status>>
    BY <1>10 DEF ReaderCloses, commandVars
  <2>2. Accepted' = Accepted /\ FullScan' = FullScan /\ FullReport' = FullReport
    BY <2>1, SameRun
  <2>4. Inputs' /\ Order' /\ Judged' BY <2>1, <2>2 DEF Inputs, Order, Judged
  <2>5. Spoken' BY <2>1, <2>2 DEF Spoken
  <2>6. Closing' BY <2>1, <2>2 DEF Closing, IsTheAnswer
  <2> QED BY <2>4, <2>5, <2>6
<1> QED
  BY <1>1, <1>2, <1>3, <1>4, <1>5, <1>6, <1>7, <1>8, <1>9, <1>10 DEF Next, Command

LEMMA Holds == Spec => []CommandInv
<1>1. CommandInv /\ [Next]_commandVars => CommandInv' BY Steps
<1> QED BY <1>1, Starts, PTL DEF Spec

(* A status of 0 or 1, the 0 of --help apart, is an answer, given whole:   *)
(* nothing was refused, the log was read, and every line of the report of  *)
(* the whole scan has been written to the pipe, wherever the reader may    *)
(* have gone away (cli.main, commands.skew_command).                       *)
THEOREM AnswersAreDelivered == Spec => []AnswerWasDelivered
<1>1. CommandInv => AnswerWasDelivered
  <2> SUFFICES ASSUME CommandInv, Answers PROVE
        /\ Accepted /\ file # Unreadable /\ delivered = FullReport
    BY DEF AnswerWasDelivered, Accepted, FullReport, FullScan
  <2>1. Accepted /\ file \in Logs /\ delivered = FullReport
    BY DEF CommandInv, Closing, IsTheAnswer
  <2>2. Unreadable \notin Logs BY CommandAssumption DEF CommandAssumption
  <2> QED BY <2>1, <2>2
<1> QED BY <1>1, Holds, PTL

(* An answer's status is 1 exactly when some stage skewed on a metric that *)
(* was judged, whatever --only left out, and it is the status that the     *)
(* contract line names (commands.skew_lines, skew.exit_status).            *)
THEOREM StatusesAreOfTheScan == Spec => []StatusIsOfTheWholeScan
<1>1. CommandInv => StatusIsOfTheWholeScan
  <2> SUFFICES ASSUME CommandInv, Answers PROVE StatusIsOfTheWholeScan
    BY DEF StatusIsOfTheWholeScan
  <2>1. file \in Logs /\ delivered = FullReport /\ status = ExitStatus(FullScan)
    BY DEF CommandInv, Closing, IsTheAnswer
  <2>2. IsSequence(file) /\ IsSequence(Metrics) /\ IsSequence(FullScan)
    BY <2>1, WhatIsRead DEF CommandInv
  <2>3. Members(FullScan)
          = {Judge(sm[1], sm[2], args.threshold) : sm \in Members(file) \X Members(Metrics)}
    BY <2>2, ScanIs DEF FullScan
  <2>4. status = FOUND <=> \E v \in Members(FullScan) : v.outcome = SKEWED
    BY <2>1, <2>2, StatusFollowsTheScan
  <2>5. (\E v \in Members(FullScan) : v.outcome = SKEWED) <=> SkewedSomewhere
    <3>1. ASSUME NEW v \in Members(FullScan), v.outcome = SKEWED PROVE SkewedSomewhere
      <4>1. PICK sm \in Members(file) \X Members(Metrics) :
              v = Judge(sm[1], sm[2], args.threshold)
        BY <2>3
      <4>2. sm[1] \in Members(file) /\ sm[2] \in Members(Metrics) OBVIOUS
      <4> QED BY <3>1, <4>1, <4>2 DEF SkewedSomewhere
    <3>2. ASSUME NEW s \in Members(file), NEW m \in Members(Metrics),
                 Judge(s, m, args.threshold).outcome = SKEWED
          PROVE  \E v \in Members(FullScan) : v.outcome = SKEWED
      <4>1. <<s, m>> \in Members(file) \X Members(Metrics) OBVIOUS
      <4>2. Judge(s, m, args.threshold) \in Members(FullScan) BY <2>3, <4>1
      <4> QED BY <3>2, <4>2
    <3> QED BY <3>1, <3>2 DEF SkewedSomewhere
  <2>6. \A l \in Members(FullReport) : IsContract(l, FullScan)
    BY <2>2, ReportIs DEF FullReport
  <2>7. \A i \in DOMAIN delivered :
          delivered[i].line = "contract" => delivered[i].status = status
    BY <2>1, <2>6 DEF IsContract, Members
  <2>8. (status = FOUND) = SkewedSomewhere BY <2>4, <2>5 DEF SkewedSomewhere
  <2> QED BY <2>7, <2>8 DEF StatusIsOfTheWholeScan
<1> QED BY <1>1, Holds, PTL

(* The summary and the body name the same worst stage of a kind, at the    *)
(* same ratio: max() over the skewed verdicts and the first of the kind in *)
(* sorted() agree, however the ties fall (skew.worst, skew.rank_key,       *)
(* commands.skew_lines).                                                   *)
THEOREM BodiesLeadWithTheWorst == Spec => []BodyLeadsWithTheWorst
<1>1. CommandInv => BodyLeadsWithTheWorst
  <2> SUFFICES ASSUME CommandInv, phase = "print", args.only \in {NoFilter, SKEWED},
                      NEW k \in Members(KindsWith(verdicts)),
                      NEW first,
                      first = Body(verdicts, args.only)[
                        CHOOSE i \in DOMAIN Body(verdicts, args.only) :
                          /\ KindOf[Body(verdicts, args.only)[i].metric] = k
                          /\ \A j \in 1 .. i - 1 :
                               KindOf[Body(verdicts, args.only)[j].metric] # k]
               PROVE  /\ first.stage = Worst(verdicts, k).stage
                      /\ SameRatio(first.ratio, Worst(verdicts, k).ratio)
    BY DEF BodyLeadsWithTheWorst
  <2> DEFINE vs == verdicts
             P == {i \in DOMAIN vs : vs[i].outcome = SKEWED}
             ws == IF args.only = NoFilter THEN vs ELSE Only(vs, args.only)
             Q == {i \in DOMAIN Kinds : HasWorst(vs, Kinds[i])}
  <2>1. Accepted /\ file \in Logs /\ vs = FullScan BY DEF CommandInv, Order, Judged
  <2>2. IsSequence(file) /\ IsSequence(Metrics) /\ IsSequence(FullScan)
    BY <2>1, WhatIsRead DEF CommandInv
  <2>3. \A v \in Members(FullScan) : IsVerdict(v)
    <3>1. \A m \in Members(Metrics) : m \in Measured
      BY <2>1 DEF Accepted, Refused, Measured, Measurable
    <3>2. \A s \in Members(file) : s \in [id : Nat, values : [Measured -> Seq(Int)]]
      <4>1. file \in Seq([id : Nat, values : [Measured -> Seq(Int)]])
        BY <2>1, CommandAssumption DEF CommandAssumption, Measured
      <4> QED BY <4>1, TypedIsASeq
    <3>3. Members(FullScan)
            = {Judge(sm[1], sm[2], args.threshold) : sm \in Members(file) \X Members(Metrics)}
      BY <2>2, ScanIs DEF FullScan
    <3>4. \A s \in Members(file), m \in Members(Metrics) :
            IsVerdict(Judge(s, m, args.threshold))
      BY <3>1, <3>2, JudgeIs
    <3> QED BY <3>3, <3>4
  <2>4. Sortable(vs) BY <2>1, <2>2, <2>3 DEF Sortable
  <2>5. HasWorst(vs, k)
    <3>1. Kinds \in Seq(Members(Kinds)) BY CommandAssumption DEF CommandAssumption
    <3>2. IsSequence(Kinds) BY <3>1 DEF IsSequence
    <3>3. Len(Kinds) \in Nat /\ DOMAIN Kinds = 1 .. Len(Kinds) BY <3>2, SeqFacts
    <3>4. Within(Q, Len(Kinds)) BY <3>3 DEF Within
    <3> HIDE DEF Q
    <3>5. Members(AtPlaces(Kinds, Q)) = {Kinds[i] : i \in Q} BY <3>3, <3>4, PlacesAreTaken
    <3>6. PICK i \in Q : k = Kinds[i] BY <3>5 DEF KindsWith, Q
    <3> QED BY <3>6 DEF Q
  <2>6. /\ Sortable(ws) /\ Members(ws) \subseteq Members(vs)
        /\ \A v \in Members(vs) : v.outcome = SKEWED => v \in Members(ws)
    <3>1. CASE args.only = NoFilter BY <2>4, <3>1
    <3>2. CASE args.only # NoFilter
      <4>1. ws = AtPlaces(vs, P) BY <3>2 DEF Only
      <4>2. Len(vs) \in Nat /\ DOMAIN vs = 1 .. Len(vs) BY <2>4, SortableMeans
      <4>3. Within(P, Len(vs)) BY <4>2 DEF Within
      <4>4. IsSequence(ws) /\ Members(ws) = {vs[i] : i \in P}
        <5> HIDE DEF P, ws
        <5> QED BY <4>1, <4>2, <4>3, PlacesAreTaken
      <4> HIDE DEF ws
      <4>5. Members(ws) \subseteq Members(vs) BY <4>4 DEF Members
      <4>6. \A v \in Members(vs) : v.outcome = SKEWED => v \in Members(ws)
        BY <4>4 DEF Members
      <4> QED BY <2>4, <4>4, <4>5, <4>6 DEF Sortable
    <3> QED BY <3>1, <3>2
  <2>7. Body(vs, args.only) = Ranked(ws, Alphabet) BY DEF Body
  <2> HIDE DEF ws
  <2> QED BY <2>4, <2>5, <2>6, <2>7, FirstOfKind
<1> QED BY <1>1, Holds, PTL
=============================================================================
