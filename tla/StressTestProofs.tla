-------------------------- MODULE StressTestProofs --------------------------
(***************************************************************************)
(* Proofs about the stress test and what graph_maker makes of its log, for *)
(* any number of requests, of requests of a batch and of lines that        *)
(* account_ids.txt starts with.                                            *)
(***************************************************************************)
EXTENDS StressTest, FiniteSetTheorems, TLAPS

Tests ==
  [endpoint : {Create, Role, Permission}, mode : {"sequential", "concurrent", "batch", "unknown"}]

Testing == {"sending", "awaiting", "pausing"}

Distinct(s) == \A i, j \in DOMAIN s : s[i] = s[j] => i = j

-----------------------------------------------------------------------------
(* The inductive invariant *)

\* The tests of the session are different ones, and the current one is among them
\* until the session is over.
SessionInv ==
  /\ session \in Seq(Tests)
  /\ Distinct(session)
  /\ current \in 1..(Len(session) + 1)
  /\ phase \in {"between", "over"} \cup Testing
  /\ phase = "over" <=> current = Len(session) + 1

\* Tests that have not begun have nothing to send and have sent nothing; a test
\* that has ended has sent all, unless it may have failed to read the file.
CountsInv ==
  /\ total \in [DOMAIN session -> Nat]
  /\ sent \in [DOMAIN session -> Nat]
  /\ lines \in Nat
  /\ \A g \in DOMAIN session : sent[g] <= total[g]
  /\ \A g \in DOMAIN session :
       g > current \/ (g = current /\ phase = "between") => total[g] = 0 /\ sent[g] = 0
  /\ \A g \in DOMAIN session :
       g < current /\ ~ReadsFile(session[g]) => sent[g] = total[g]

\* The requests that have been sent, and the one an entry is about.
Sent == {q \in (DOMAIN session) \X (Nat \ {0}) : q[2] <= sent[q[1]]}

RequestOf(e) == <<e.groupID, e.requestNumber>>

\* Each request that has been sent has one entry, or is missed by the log, or is
\* not answered yet.
RequestsInv ==
  /\ \A e \in log : e.transactionSuccess \in BOOLEAN /\ e = Entry(RequestOf(e), e.transactionSuccess)
  /\ \A e, f \in log : RequestOf(e) = RequestOf(f) => e = f
  /\ {RequestOf(e) : e \in log} \cup unlogged \cup pending = Sent
  /\ {RequestOf(e) : e \in log} \cap unlogged = {}
  /\ pending \cap ({RequestOf(e) : e \in log} \cup unlogged) = {}

StressInv == SessionInv /\ CountsInv /\ RequestsInv /\ WindowIsKept

-----------------------------------------------------------------------------
(* The tests of a session *)

\* A place in the product of two lists, of one or three elements each, is a place
\* in the one and a place in the other.
LEMMA Places ==
  ASSUME NEW m \in {1, 3}, NEW n \in {1, 3}, NEW j \in 1..(n * m), NEW k \in 1..(n * m)
  PROVE  /\ ((k - 1) \div m) + 1 \in 1..n
         /\ ((k - 1) % m) + 1 \in 1..m
         /\ /\ ((j - 1) \div m) + 1 = ((k - 1) \div m) + 1
            /\ ((j - 1) % m) + 1 = ((k - 1) % m) + 1
            => j = k
<1>1. CASE m = 1
  BY <1>1
<1>2. CASE m = 3
  BY <1>2
<1> QED
  BY <1>1, <1>2

LEMMA CrossIsDistinct ==
  ASSUME NEW eps \in Seq({Create, Role, Permission}), Len(eps) \in {1, 3}, Distinct(eps),
         NEW modes \in Seq({"sequential", "concurrent", "batch", "unknown"}),
         Len(modes) \in {1, 3}, Distinct(modes)
  PROVE  /\ Cross(eps, modes) \in Seq(Tests)
         /\ Distinct(Cross(eps, modes))
         /\ Cross(eps, modes) # <<>>
<1> DEFINE m == Len(modes)
           n == Len(eps)
           At(k) == [endpoint |-> eps[((k - 1) \div m) + 1], mode |-> modes[((k - 1) % m) + 1]]
<1>1. n * m \in Nat /\ n * m >= 1
  OBVIOUS
<1>2. \A k \in 1..(n * m) :
        ((k - 1) \div m) + 1 \in 1..n /\ ((k - 1) % m) + 1 \in 1..m
  BY Places
<1>3. \A k \in 1..(n * m) : At(k) \in Tests
  <2> SUFFICES ASSUME NEW k \in 1..(n * m) PROVE At(k) \in Tests
    OBVIOUS
  <2>1. eps[((k - 1) \div m) + 1] \in {Create, Role, Permission}
    BY <1>2
  <2>2. modes[((k - 1) % m) + 1] \in {"sequential", "concurrent", "batch", "unknown"}
    BY <1>2
  <2> QED
    BY <2>1, <2>2 DEF Tests
<1>4. Cross(eps, modes) = [k \in 1..(n * m) |-> At(k)]
  BY DEF Cross
<1>5. Cross(eps, modes) \in [1..(n * m) -> Tests]
  <2> HIDE DEF At
  <2> QED
    BY <1>3, <1>4
<1>6. ASSUME NEW j \in 1..(n * m), NEW k \in 1..(n * m), At(j) = At(k)
      PROVE  j = k
  <2>1. /\ eps[((j - 1) \div m) + 1] = eps[((k - 1) \div m) + 1]
        /\ modes[((j - 1) % m) + 1] = modes[((k - 1) % m) + 1]
    BY <1>6
  <2>2. /\ ((j - 1) \div m) + 1 = ((k - 1) \div m) + 1
        /\ ((j - 1) % m) + 1 = ((k - 1) % m) + 1
    BY <1>2, <2>1 DEF Distinct
  <2> HIDE DEF m, n
  <2>3. m \in {1, 3} /\ n \in {1, 3}
    BY DEF m, n
  <2> QED
    BY <2>2, <2>3, Places
<1>7. Distinct(Cross(eps, modes))
  <2> HIDE DEF At
  <2> QED
    BY <1>4, <1>6 DEF Distinct
<1>8. Cross(eps, modes) \in Seq(Tests) /\ Len(Cross(eps, modes)) = n * m
  <2> HIDE DEF n, m
  <2> QED
    BY <1>1, <1>5
<1> QED
  BY <1>1, <1>7, <1>8

LEMMA SessionsAreDistinct ==
  ASSUME NEW s \in Sessions
  PROVE  s \in Seq(Tests) /\ Distinct(s) /\ s # <<>>
<1>1. PICK eps \in {Endpoints} \cup {<<Endpoints[i]>> : i \in 1..3},
           modes \in {Modes, <<"unknown">>} \cup {<<Modes[i]>> : i \in 1..3} :
        s = Cross(eps, modes)
  BY DEF Sessions
<1>2. /\ eps \in Seq({Create, Role, Permission}) /\ Len(eps) \in {1, 3} /\ Distinct(eps)
  <2>1. \/ eps = <<Create, Role, Permission>>
        \/ \E e \in {Create, Role, Permission} : eps = <<e>>
    BY DEF Endpoints
  <2>2. CASE eps = <<Create, Role, Permission>>
    BY <2>2 DEF Distinct, Create, Role, Permission
  <2>3. ASSUME NEW e \in {Create, Role, Permission}, eps = <<e>>
        PROVE  /\ eps \in Seq({Create, Role, Permission})
               /\ Len(eps) \in {1, 3} /\ Distinct(eps)
    BY <2>3 DEF Distinct
  <2> QED
    BY <2>1, <2>2, <2>3
<1>3. /\ modes \in Seq({"sequential", "concurrent", "batch", "unknown"})
      /\ Len(modes) \in {1, 3} /\ Distinct(modes)
  <2>1. \/ modes = <<"sequential", "concurrent", "batch">>
        \/ \E m \in {"sequential", "concurrent", "batch", "unknown"} : modes = <<m>>
    BY DEF Modes
  <2>2. CASE modes = <<"sequential", "concurrent", "batch">>
    BY <2>2 DEF Distinct
  <2>3. ASSUME NEW m \in {"sequential", "concurrent", "batch", "unknown"}, modes = <<m>>
        PROVE  /\ modes \in Seq({"sequential", "concurrent", "batch", "unknown"})
               /\ Len(modes) \in {1, 3} /\ Distinct(modes)
    BY <2>3 DEF Distinct
  <2> QED
    BY <2>1, <2>2, <2>3
<1> QED
  BY <1>1, <1>2, <1>3, CrossIsDistinct

LEMMA StressInit == Init => StressInv
<1> SUFFICES ASSUME Init PROVE StressInv
  OBVIOUS
<1>1. session \in Seq(Tests) /\ Distinct(session) /\ session # <<>>
  BY SessionsAreDistinct DEF Init
<1>2. Len(session) \in Nat /\ Len(session) >= 1
  BY <1>1
<1>3. SessionInv
  BY <1>1, <1>2 DEF Init, SessionInv
<1>4. CountsInv
  BY <1>1, <1>2, BoundsAreNatural DEF Init, CountsInv
<1>5. RequestsInv
  <2>1. Sent = {}
    BY DEF Init, Sent
  <2> QED
    BY <2>1 DEF Init, RequestsInv
<1>6. WindowIsKept
  BY DEF Init, WindowIsKept, InFlight
<1> QED
  BY <1>3, <1>4, <1>5, <1>6 DEF StressInv

-----------------------------------------------------------------------------
(* The driver's steps *)

\* A running test.
LEMMA RunningTest ==
  ASSUME SessionInv, CountsInv, phase # "over"
  PROVE  /\ current \in DOMAIN session /\ current \in Nat /\ Len(session) \in Nat
         /\ DOMAIN session = 1..Len(session)
         /\ Test = session[current] /\ Test \in Tests
         /\ total[current] \in Nat /\ sent[current] \in Nat /\ sent[current] <= total[current]
<1>1. /\ Len(session) \in Nat /\ DOMAIN session = 1..Len(session)
      /\ current \in 1..Len(session)
  BY DEF SessionInv
<1> QED
  BY <1>1 DEF SessionInv, CountsInv, Test

LEMMA WindowIsNatural ==
  ASSUME total[current] \in Nat
  PROVE  Window \in Nat
BY BatchIsPositive DEF Window

\* The end of a wave is within the total, and within the window.
LEMMA WaveSize ==
  ASSUME SessionInv, CountsInv, phase = "sending", sent[current] < total[current]
  PROVE  /\ Window \in Nat /\ WaveEnd \in Nat
         /\ sent[current] <= WaveEnd /\ WaveEnd <= total[current]
         /\ IsFiniteSet({current} \X ((sent[current] + 1)..WaveEnd))
         /\ Cardinality({current} \X ((sent[current] + 1)..WaveEnd)) <= Window
<1> DEFINE wave == (sent[current] + 1)..WaveEnd
<1>1. total[current] \in Nat /\ sent[current] \in Nat
  BY RunningTest
<1>2. Window \in Nat
  BY <1>1, WindowIsNatural
<1>3. /\ WaveEnd \in Nat /\ sent[current] <= WaveEnd /\ WaveEnd <= total[current]
      /\ WaveEnd - sent[current] <= Window
  BY <1>1, <1>2 DEF WaveEnd
<1>4. sent[current] + 1 \in Int /\ WaveEnd \in Int
  BY <1>1, <1>3
<1>5. /\ IsFiniteSet(wave)
      /\ Cardinality(wave) = IF sent[current] + 1 > WaveEnd THEN 0 ELSE WaveEnd - (sent[current] + 1) + 1
  BY <1>4, FS_Interval
<1>6. Cardinality(wave) \in Nat /\ Cardinality(wave) <= Window
  <2>1. CASE sent[current] + 1 > WaveEnd
    BY <1>2, <1>5, <2>1
  <2>2. CASE ~(sent[current] + 1 > WaveEnd)
    BY <1>1, <1>2, <1>3, <1>5, <2>2
  <2> QED
    BY <2>1, <2>2
<1>7. IsFiniteSet({current}) /\ Cardinality({current}) = 1
  BY FS_Singleton
<1> HIDE DEF wave
<1>8. /\ IsFiniteSet({current} \X wave)
      /\ Cardinality({current} \X wave) = Cardinality({current}) * Cardinality(wave)
  BY <1>5, <1>7, FS_Product
<1>9. Cardinality({current} \X wave) <= Window
  BY <1>2, <1>6, <1>7, <1>8
<1> QED
  BY <1>2, <1>3, <1>8, <1>9 DEF wave

\* What is in flight outside a wave belongs to tests that gave up.
LEMMA NothingInFlight ==
  ASSUME WindowIsKept, phase # "awaiting"
  PROVE  /\ InFlight = {}
         /\ \A q \in pending : /\ q[1] # current /\ q[1] < current
                               /\ ReadsFile(session[q[1]]) /\ sent[q[1]] < total[q[1]]
BY DEF WindowIsKept, InFlight

\* The tests before the current one, and after the next one begins.
LEMMA NextTestKeepsSession ==
  ASSUME SessionInv, CountsInv, phase # "over", NextTest
  PROVE  /\ SessionInv'
         /\ session' = session /\ total' = total /\ lines' = lines
         /\ unlogged' = unlogged /\ log' = log
         /\ current' = current + 1 /\ phase' \in {"between", "over"}
         /\ \A g \in DOMAIN session :
              /\ g < current' <=> g < current \/ g = current
              /\ g > current' \/ g = current' => g > current
<1>1. /\ current \in DOMAIN session /\ current \in Nat /\ Len(session) \in Nat
      /\ DOMAIN session = 1..Len(session)
  BY RunningTest
<1>2. /\ session' = session /\ total' = total /\ lines' = lines
      /\ unlogged' = unlogged /\ log' = log /\ current' = current + 1
      /\ phase' = IF current = Len(session) THEN "over" ELSE "between"
  BY DEF NextTest
<1>3. SessionInv'
  BY <1>1, <1>2 DEF SessionInv
<1> QED
  BY <1>1, <1>2, <1>3

\* The requests that test g has sent.
LEMMA SentUpTo ==
  ASSUME SessionInv, CountsInv, phase # "over", NEW n \in Nat, sent[current] <= n,
         session' = session, SendUpTo(n)
  PROVE  /\ sent' \in [DOMAIN session -> Nat] /\ sent'[current] = n
         /\ \A g \in DOMAIN session : g # current => sent'[g] = sent[g]
         /\ {current} \X ((sent[current] + 1)..n) \subseteq Sent'
         /\ Sent' = Sent \cup ({current} \X ((sent[current] + 1)..n))
         /\ Sent \cap ({current} \X ((sent[current] + 1)..n)) = {}
<1> DEFINE wave == {current} \X ((sent[current] + 1)..n)
<1>1. /\ current \in DOMAIN session /\ sent[current] \in Nat
      /\ sent \in [DOMAIN session -> Nat]
  BY RunningTest DEF CountsInv
<1>2. /\ sent' = [sent EXCEPT ![current] = n]
  BY DEF SendUpTo
<1>3. /\ sent' \in [DOMAIN session -> Nat] /\ sent'[current] = n
      /\ \A g \in DOMAIN session : g # current => sent'[g] = sent[g]
  BY <1>1, <1>2
<1>4. ASSUME NEW g \in DOMAIN session, NEW k \in Nat \ {0}
      PROVE  k <= sent'[g] <=> k <= sent[g] \/ (g = current /\ k \in (sent[current] + 1)..n)
  <2>1. CASE g = current
    BY <1>1, <1>3, <2>1
  <2>2. CASE g # current
    BY <1>3, <2>2
  <2> QED
    BY <2>1, <2>2
<1>5. (sent[current] + 1)..n \subseteq Nat \ {0}
  BY <1>1
<1>6. wave \subseteq (DOMAIN session) \X (Nat \ {0})
  BY <1>1, <1>5
<1>7. \A q \in (DOMAIN session) \X (Nat \ {0}) :
        q[2] <= sent'[q[1]] <=> q[2] <= sent[q[1]] \/ q \in wave
  BY <1>4
<1>8. Sent' = {q \in (DOMAIN session) \X (Nat \ {0}) : q[2] <= sent'[q[1]]}
  BY DEF Sent
<1>9. Sent' = Sent \cup wave
  <2> HIDE DEF wave
  <2> QED
    BY <1>6, <1>7, <1>8 DEF Sent
<1>10. Sent \cap wave = {}
  <2> SUFFICES ASSUME NEW q \in Sent, q \in wave PROVE FALSE
    OBVIOUS
  <2>1. q[1] = current /\ q[2] \in (sent[current] + 1)..n /\ q[2] <= sent[q[1]]
    BY DEF Sent
  <2> QED
    BY <1>1, <2>1
<1> QED
  BY <1>3, <1>9, <1>10

\* Sending: the requests that are new are not answered yet, and no entry changes.
LEMMA SendingKeepsRequests ==
  ASSUME SessionInv, CountsInv, RequestsInv, phase # "over", NEW n \in Nat, sent[current] <= n,
         SendUpTo(n), UNCHANGED <<session, total, unlogged, log>>
  PROVE  RequestsInv'
<1> DEFINE wave    == {current} \X ((sent[current] + 1)..n)
           entries == {RequestOf(e) : e \in log}
<1>1. Sent' = Sent \cup wave /\ Sent \cap wave = {}
  BY SentUpTo
<1>2. pending' = pending \cup wave /\ log' = log /\ unlogged' = unlogged
  BY DEF SendUpTo
<1>3. \A e \in log : Entry(RequestOf(e), e.transactionSuccess)' = Entry(RequestOf(e), e.transactionSuccess)
  BY DEF Entry, RequestOf
<1>4. {RequestOf(e) : e \in log}' = entries
  BY <1>2 DEF RequestOf
<1> HIDE DEF wave
<1>5. /\ entries \cup unlogged \cup pending = Sent /\ entries \cap unlogged = {}
      /\ pending \cap (entries \cup unlogged) = {}
  BY DEF RequestsInv
<1> HIDE DEF entries
<1>6. /\ entries \cup unlogged \cup pending' = Sent' /\ entries \cap unlogged = {}
      /\ pending' \cap (entries \cup unlogged) = {}
  BY <1>1, <1>2, <1>5
<1> QED
  BY <1>2, <1>3, <1>4, <1>6 DEF RequestsInv, RequestOf

\* Steps that send nothing and answer nothing.
LEMMA NothingSent ==
  ASSUME RequestsInv, UNCHANGED <<session, total, sent, pending, unlogged, log>>
  PROVE  RequestsInv'
BY DEF RequestsInv, RequestOf, Sent, Entry

\* A test that begins has no entries yet, so that its total changes none.
LEMMA StartTestKeeps ==
  ASSUME StressInv, StartTest
  PROVE  StressInv'
<1>1. /\ SessionInv /\ CountsInv /\ RequestsInv /\ WindowIsKept
      /\ phase = "between" /\ phase' = "sending"
      /\ total' = [total EXCEPT ![current] = IF Test.endpoint = Role THEN lines ELSE TOTAL_REQUESTS]
      /\ UNCHANGED <<session, current, sent, pending, unlogged, lines, log>>
  BY DEF StressInv, StartTest
<1>2. /\ current \in DOMAIN session /\ current \in Nat
      /\ total[current] = 0 /\ sent[current] = 0
  BY <1>1, RunningTest DEF CountsInv
<1>3. /\ total' \in [DOMAIN session -> Nat]
      /\ \A g \in DOMAIN session : g # current => total'[g] = total[g]
      /\ total'[current] \in Nat
  <2>1. lines \in Nat /\ TOTAL_REQUESTS \in Nat /\ total \in [DOMAIN session -> Nat]
    BY <1>1, TotalIsPositive DEF CountsInv
  <2> QED
    BY <1>1, <1>2, <2>1
<1>4. SessionInv'
  BY <1>1 DEF SessionInv, Testing
<1>5. CountsInv'
  <2>1. \A g \in DOMAIN session : sent[g] <= total'[g]
    BY <1>1, <1>2, <1>3 DEF CountsInv
  <2>2. ASSUME NEW g \in DOMAIN session, g > current PROVE total'[g] = 0 /\ sent[g] = 0
    <3>1. g # current
      BY <1>2, <2>2
    <3> QED
      BY <1>1, <1>3, <2>2, <3>1 DEF CountsInv
  <2>3. ASSUME NEW g \in DOMAIN session, g < current, ~ReadsFile(session[g])
        PROVE  sent[g] = total'[g]
    <3>1. g # current
      BY <1>2, <2>3
    <3> QED
      BY <1>1, <1>3, <2>3, <3>1 DEF CountsInv
  <2> QED
    BY <1>1, <1>3, <2>1, <2>2, <2>3 DEF CountsInv
<1>6. RequestsInv'
  <2>1. Sent' = Sent
    BY <1>1 DEF Sent
  <2>2. ASSUME NEW e \in log PROVE e = Entry(RequestOf(e), e.transactionSuccess)'
    <3>1. RequestOf(e) \in Sent /\ e = Entry(RequestOf(e), e.transactionSuccess)
      BY <1>1 DEF RequestsInv
    <3>2. e.groupID \in DOMAIN session /\ e.groupID # current
      BY <1>2, <3>1 DEF Sent, RequestOf
    <3> QED
      BY <1>1, <1>3, <3>1, <3>2 DEF Entry, RequestOf
  <2> QED
    BY <1>1, <2>1, <2>2 DEF RequestsInv, RequestOf
<1>7. WindowIsKept'
  <2>1. InFlight = {} /\ \A q \in pending : q[1] # current
    BY <1>1, NothingInFlight
  <2>2. \A q \in pending : q[1] \in DOMAIN session
    BY <1>1 DEF RequestsInv, Sent
  <2> QED
    BY <1>1, <1>3, <2>1, <2>2 DEF WindowIsKept, InFlight
<1> QED
  BY <1>4, <1>5, <1>6, <1>7 DEF StressInv

\* The requests that are pending are those of tests that have sent some.
LEMMA NextTestKeepsWindow ==
  ASSUME SessionInv, CountsInv, phase # "over", NextTest, CountsInv', RequestsInv',
         \A q \in pending' : q[1] # current =>
           q[1] < current /\ ReadsFile(session[q[1]]) /\ sent'[q[1]] < total[q[1]],
         \A q \in pending' : q[1] = current => ReadsFile(Test) /\ sent'[current] < total[current]
  PROVE  WindowIsKept'
<1>1. /\ session' = session /\ total' = total /\ current' = current + 1
      /\ phase' \in {"between", "over"} /\ current \in Nat /\ Test = session[current]
  BY NextTestKeepsSession, RunningTest
<1>2. ASSUME NEW q \in pending'
      PROVE  q[1] < current' /\ ReadsFile(session[q[1]]) /\ sent'[q[1]] < total[q[1]]
  <2>1. CASE q[1] = current
    BY <1>1, <1>2, <2>1
  <2>2. CASE q[1] # current
    <3>1. q[1] < current /\ ReadsFile(session[q[1]]) /\ sent'[q[1]] < total[q[1]]
      BY <1>2, <2>2
    <3>2. q[1] \in Nat
      <4>1. q \in Sent' /\ DOMAIN session' = 1..Len(session)
        BY <1>1, RunningTest DEF RequestsInv
      <4> QED
        BY <4>1 DEF Sent
    <3> QED
      BY <1>1, <3>1, <3>2
  <2> QED
    BY <2>1, <2>2
<1>3. \A q \in pending' : q[1] # current'
  <2> SUFFICES ASSUME NEW q \in pending' PROVE q[1] # current'
    OBVIOUS
  <2>1. q[1] < current' /\ current' \in Nat
    BY <1>1, <1>2
  <2>2. q[1] \in Nat
    <3>1. q \in Sent' /\ DOMAIN session' = 1..Len(session)
      BY <1>1, RunningTest DEF RequestsInv
    <3> QED
      BY <3>1 DEF Sent
  <2> QED
    BY <2>1, <2>2
<1> QED
  BY <1>1, <1>2, <1>3 DEF WindowIsKept, InFlight

\* A test that ends has sent all it was to send, and a test that is skipped has
\* nothing to send; neither leaves a request behind.
LEMMA EndingKeeps ==
  ASSUME StressInv, SkipTest \/ EndTest
  PROVE  StressInv'
<1>1. /\ SessionInv /\ CountsInv /\ RequestsInv /\ WindowIsKept
      /\ phase \in {"between", "sending"} /\ NextTest
      /\ UNCHANGED <<sent, pending>>
      /\ phase = "sending" => sent[current] = total[current]
  BY DEF StressInv, SkipTest, EndTest
<1>2. /\ current \in DOMAIN session /\ current \in Nat /\ phase # "over"
  BY <1>1, RunningTest
<1>3. /\ SessionInv'
      /\ session' = session /\ total' = total /\ lines' = lines
      /\ unlogged' = unlogged /\ log' = log
      /\ \A g \in DOMAIN session :
           /\ g < current' <=> g < current \/ g = current
           /\ g > current' \/ g = current' => g > current
  BY <1>1, NextTestKeepsSession
<1>4. sent[current] = total[current]
  BY <1>1, <1>2 DEF CountsInv
<1>5. CountsInv'
  BY <1>1, <1>3, <1>4 DEF CountsInv
<1>6. RequestsInv'
  BY <1>1, <1>3, NothingSent
<1>7. \A q \in pending : /\ q[1] # current /\ q[1] < current
                         /\ ReadsFile(session[q[1]]) /\ sent[q[1]] < total[q[1]]
  BY <1>1, NothingInFlight
<1>8. WindowIsKept'
  BY <1>1, <1>2, <1>5, <1>6, <1>7, NextTestKeepsWindow
<1> QED
  BY <1>3, <1>5, <1>6, <1>8 DEF StressInv

\* The counts after the current test has sent requests up to number n.
LEMMA SendingKeepsCounts ==
  ASSUME SessionInv, CountsInv, phase = "sending",
         NEW n \in Nat, sent[current] <= n, n <= total[current], SendUpTo(n),
         UNCHANGED <<session, total, lines>>,
         \/ current' = current
         \/ /\ ReadsFile(Test)
            /\ \A g \in DOMAIN session :
                 /\ g < current' <=> g < current \/ g = current
                 /\ g > current' \/ g = current' => g > current,
         phase' = "between" => current' # current
  PROVE  CountsInv'
<1>1. /\ current \in DOMAIN session /\ current \in Nat /\ Test = session[current]
      /\ DOMAIN session = 1..Len(session) /\ Len(session) \in Nat
  BY RunningTest
<1>2. /\ sent' \in [DOMAIN session -> Nat] /\ sent'[current] = n
      /\ \A g \in DOMAIN session : g # current => sent'[g] = sent[g]
  BY SentUpTo
<1>3. \A g \in DOMAIN session : sent'[g] <= total[g]
  BY <1>2 DEF CountsInv
<1>4. ASSUME NEW g \in DOMAIN session, g > current' \/ (g = current' /\ phase' = "between")
      PROVE  total[g] = 0 /\ sent'[g] = 0
  <2>1. g > current
    BY <1>4
  <2>2. g # current
    BY <1>1, <2>1
  <2> QED
    BY <1>2, <2>1, <2>2 DEF CountsInv
<1>5. ASSUME NEW g \in DOMAIN session, g < current', ~ReadsFile(session[g])
      PROVE  sent'[g] = total[g]
  <2>1. g < current
    BY <1>1, <1>5
  <2>2. g # current
    BY <1>1, <2>1
  <2> QED
    BY <1>2, <1>5, <2>1, <2>2 DEF CountsInv
<1> QED
  BY <1>2, <1>3, <1>4, <1>5 DEF CountsInv

\* A wave is the only thing in flight of the test that sends it.
LEMMA SendWaveKeeps ==
  ASSUME StressInv, SendWave
  PROVE  StressInv'
<1> DEFINE wave == {current} \X ((sent[current] + 1)..WaveEnd)
<1>1. /\ SessionInv /\ CountsInv /\ RequestsInv /\ WindowIsKept
      /\ phase = "sending" /\ sent[current] < total[current]
      /\ SendUpTo(WaveEnd) /\ phase' = "awaiting"
      /\ UNCHANGED <<session, current, total, unlogged, lines, log>>
  BY DEF StressInv, SendWave
<1>2. /\ WaveEnd \in Nat /\ sent[current] <= WaveEnd /\ WaveEnd <= total[current]
      /\ IsFiniteSet(wave) /\ Cardinality(wave) <= Window
  BY <1>1, WaveSize
<1>3. SessionInv'
  BY <1>1 DEF SessionInv, Testing
<1>4. CountsInv'
  BY <1>1, <1>2, SendingKeepsCounts
<1>5. RequestsInv'
  BY <1>1, <1>2, SendingKeepsRequests
<1>6. WindowIsKept'
  <2>1. \A q \in pending : /\ q[1] # current /\ q[1] < current
                           /\ ReadsFile(session[q[1]]) /\ sent[q[1]] < total[q[1]]
    BY <1>1, NothingInFlight
  <2>2. pending' = pending \cup wave
    BY <1>1 DEF SendUpTo
  <2>3. \A q \in wave : q[1] = current
    OBVIOUS
  <2>4. Window' = Window
    BY <1>1 DEF Window, Test
  <2> HIDE DEF wave
  <2>5. InFlight' = wave
    BY <1>1, <2>1, <2>2, <2>3 DEF InFlight
  <2>6. \A g \in DOMAIN session : g # current => sent'[g] = sent[g]
    BY <1>1, <1>2, SentUpTo
  <2>7. \A q \in pending : q[1] \in DOMAIN session
    BY <1>1 DEF RequestsInv, Sent
  <2>8. \A q \in pending' : q[1] # current =>
          q[1] < current /\ ReadsFile(session[q[1]]) /\ sent'[q[1]] < total[q[1]]
    BY <2>1, <2>2, <2>3, <2>6, <2>7
  <2> QED
    BY <1>1, <1>2, <2>4, <2>5, <2>8 DEF WindowIsKept
<1> QED
  BY <1>3, <1>4, <1>5, <1>6 DEF StressInv

\* A test that cannot read the file has not sent all, whatever it leaves behind.
LEMMA GiveUpKeeps ==
  ASSUME StressInv, GiveUp
  PROVE  StressInv'
<1>1. /\ SessionInv /\ CountsInv /\ RequestsInv /\ WindowIsKept
      /\ phase = "sending" /\ ReadsFile(Test) /\ NextTest
  BY DEF StressInv, GiveUp
<1>2. PICK n \in sent[current]..(WaveEnd - 1) : SendUpTo(n)
  BY DEF GiveUp
<1>3. /\ current \in DOMAIN session /\ current \in Nat
      /\ sent[current] \in Nat /\ total[current] \in Nat /\ sent[current] <= total[current]
  BY <1>1, RunningTest
<1>4. WaveEnd <= total[current] /\ WaveEnd \in Nat
  <2>1. Window \in Nat
    BY <1>3, WindowIsNatural
  <2> QED
    BY <1>3, <2>1 DEF WaveEnd
<1>5. n \in Nat /\ sent[current] <= n /\ n < total[current] /\ n <= total[current]
  BY <1>2, <1>3, <1>4
<1>6. /\ SessionInv'
      /\ session' = session /\ total' = total /\ lines' = lines
      /\ unlogged' = unlogged /\ log' = log /\ current' = current + 1
      /\ \A g \in DOMAIN session :
           /\ g < current' <=> g < current \/ g = current
           /\ g > current' \/ g = current' => g > current
  BY <1>1, NextTestKeepsSession
<1>7. CountsInv'
  <2>1. current' # current
    BY <1>3, <1>6
  <2> QED
    BY <1>1, <1>2, <1>5, <1>6, <2>1, SendingKeepsCounts
<1>8. RequestsInv'
  BY <1>1, <1>2, <1>5, <1>6, SendingKeepsRequests
<1>9. WindowIsKept'
  <2>1. /\ sent'[current] = n
        /\ \A g \in DOMAIN session : g # current => sent'[g] = sent[g]
    BY <1>1, <1>2, <1>5, <1>6, SentUpTo
  <2>2. pending' = pending \cup ({current} \X ((sent[current] + 1)..n))
    BY <1>2 DEF SendUpTo
  <2>3. \A q \in pending : /\ q[1] # current /\ q[1] < current /\ q[1] \in DOMAIN session
                           /\ ReadsFile(session[q[1]]) /\ sent[q[1]] < total[q[1]]
    BY <1>1, NothingInFlight DEF RequestsInv, Sent
  <2>4. \A q \in pending' : q[1] # current =>
          q[1] < current /\ ReadsFile(session[q[1]]) /\ sent'[q[1]] < total[q[1]]
    BY <2>1, <2>2, <2>3
  <2> QED
    BY <1>1, <1>5, <1>7, <1>8, <2>1, <2>4, NextTestKeepsWindow
<1> QED
  BY <1>6, <1>7, <1>8, <1>9 DEF StressInv

\* A wave has ended when nothing is in flight; a pause sends nothing.
LEMMA WaitingKeeps ==
  ASSUME StressInv, EndWave \/ EndPause
  PROVE  StressInv'
<1>1. /\ SessionInv /\ CountsInv /\ RequestsInv /\ WindowIsKept
      /\ phase \in {"awaiting", "pausing"} /\ InFlight = {}
      /\ phase' \in {"pausing", "sending"}
      /\ UNCHANGED <<session, current, total, sent, pending, unlogged, lines, log>>
  BY DEF StressInv, EndWave, EndPause, AfterWave, WindowIsKept
<1>2. SessionInv'
  BY <1>1 DEF SessionInv, Testing
<1>3. CountsInv'
  BY <1>1 DEF CountsInv
<1>4. RequestsInv'
  BY <1>1, NothingSent
<1>5. WindowIsKept'
  BY <1>1 DEF WindowIsKept, InFlight
<1> QED
  BY <1>2, <1>3, <1>4, <1>5 DEF StressInv

-----------------------------------------------------------------------------
(* The server's steps *)

\* The entry of a request is about that request.
LEMMA EntryOfRequest ==
  ASSUME NEW q \in Sent, NEW success \in BOOLEAN
  PROVE  /\ RequestOf(Entry(q, success)) = q
         /\ Entry(q, success).transactionSuccess = success
<1>1. q = <<q[1], q[2]>>
  BY DEF Sent
<1> QED
  BY <1>1 DEF Entry, RequestOf

\* An answered request gets its entry, or is missed by the log.
LEMMA AnswerKeepsRequests ==
  ASSUME RequestsInv, NEW q \in pending,
         pending' = pending \ {q}, UNCHANGED <<session, total, sent>>,
         (\E success \in BOOLEAN : Logs(q, success)) \/ Unlogged(q)
  PROVE  RequestsInv'
<1> DEFINE entries == {RequestOf(e) : e \in log}
<1>1. /\ entries \cup unlogged \cup pending = Sent /\ entries \cap unlogged = {}
      /\ pending \cap (entries \cup unlogged) = {}
      /\ \A e \in log : /\ e.transactionSuccess \in BOOLEAN
                        /\ e = Entry(RequestOf(e), e.transactionSuccess)
      /\ \A e, f \in log : RequestOf(e) = RequestOf(f) => e = f
  BY DEF RequestsInv
<1>2. Sent' = Sent /\ q \in Sent
  BY <1>1 DEF Sent
<1>3. \A r, success : Entry(r, success)' = Entry(r', success')
  BY DEF Entry
<1>4. CASE Unlogged(q)
  <2>1. log' = log /\ unlogged' = unlogged \cup {q}
    BY <1>4 DEF Unlogged
  <2>2. {RequestOf(e) : e \in log}' = entries
    BY <2>1 DEF RequestOf
  <2>3. \A e \in log : Entry(RequestOf(e), e.transactionSuccess)' = Entry(RequestOf(e), e.transactionSuccess)
    BY DEF Entry, RequestOf
  <2> HIDE DEF entries
  <2>4. /\ entries \cup unlogged' \cup pending' = Sent' /\ entries \cap unlogged' = {}
        /\ pending' \cap (entries \cup unlogged') = {}
    BY <1>1, <1>2, <2>1
  <2> QED
    BY <1>1, <2>1, <2>2, <2>3, <2>4 DEF RequestsInv, RequestOf
<1>5. ASSUME NEW success \in BOOLEAN, Logs(q, success) PROVE RequestsInv'
  <2> DEFINE new == Entry(q, success)
  <2>1. log' = log \cup {new} /\ unlogged' = unlogged
    BY <1>5 DEF Logs
  <2>2. RequestOf(new) = q /\ new.transactionSuccess = success
    BY <1>2, EntryOfRequest
  <2>3. \A e \in log' : Entry(RequestOf(e), e.transactionSuccess)' = Entry(RequestOf(e), e.transactionSuccess)
    BY DEF Entry, RequestOf
  <2>4. \A e \in log' : e \in log \/ e = new
    BY <2>1
  <2>5. \A e \in log' : /\ e.transactionSuccess \in BOOLEAN
                        /\ e = Entry(RequestOf(e), e.transactionSuccess)
    BY <1>1, <2>2, <2>4
  <2>6. {RequestOf(e) : e \in log}' = entries \cup {q}
    <3> HIDE DEF new
    <3>1. {RequestOf(e) : e \in log}' = {RequestOf(e) : e \in log'}
      BY DEF RequestOf
    <3>2. {RequestOf(e) : e \in log \cup {new}} = {RequestOf(e) : e \in log} \cup {RequestOf(new)}
      OBVIOUS
    <3> QED
      BY <2>1, <2>2, <3>1, <3>2
  <2>7. q \notin entries
    BY <1>1
  <2>8. \A e \in log : RequestOf(e) # q
    BY <2>7
  <2>9. \A e, f \in log' : RequestOf(e) = RequestOf(f) => e = f
    <3> HIDE DEF new
    <3> QED
      BY <1>1, <2>2, <2>4, <2>8
  <2> HIDE DEF entries, new
  <2>10. /\ (entries \cup {q}) \cup unlogged' \cup pending' = Sent'
         /\ (entries \cup {q}) \cap unlogged' = {}
         /\ pending' \cap ((entries \cup {q}) \cup unlogged') = {}
    BY <1>1, <1>2, <2>1, <2>7
  <2> QED
    BY <2>3, <2>5, <2>6, <2>9, <2>10 DEF RequestsInv, RequestOf
<1> QED
  BY <1>4, <1>5

LEMMA AnswerKeeps ==
  ASSUME StressInv, NEW q \in pending, Answer(q)
  PROVE  StressInv'
<1>1. /\ SessionInv /\ CountsInv /\ RequestsInv /\ WindowIsKept
      /\ pending' = pending \ {q} /\ UNCHANGED <<session, current, phase, total, sent>>
  BY DEF StressInv, Answer
<1>2. lines' = lines \/ lines' = lines + 1
  BY Zenon DEF Answer, AnswerCreate, AnswerQuery
<1>3. (\E success \in BOOLEAN : Logs(q, success)) \/ Unlogged(q)
  <2>1. AnswerCreate(q) \/ AnswerQuery(q)
    BY DEF Answer
  <2> QED
    BY <2>1, Zenon DEF AnswerCreate, AnswerQuery
<1>4. SessionInv'
  BY <1>1 DEF SessionInv
<1>5. CountsInv'
  BY <1>1, <1>2 DEF CountsInv
<1>6. RequestsInv'
  BY <1>1, <1>3, AnswerKeepsRequests
<1>7. WindowIsKept'
  <2>1. Window' = Window
    BY <1>1 DEF Window, Test
  <2>2. InFlight' \subseteq InFlight
    BY <1>1 DEF InFlight
  <2>3. CASE phase = "awaiting"
    <3>1. /\ current \in Nat /\ sent[current] \in Nat /\ total[current] \in Nat
      BY <1>1, <2>3, RunningTest
    <3>2. InFlight \subseteq {current} \X (1..sent[current])
      <4> SUFFICES ASSUME NEW r \in InFlight PROVE r \in {current} \X (1..sent[current])
        OBVIOUS
      <4>1. r \in Sent /\ r[1] = current
        BY <1>1 DEF InFlight, RequestsInv
      <4>2. r = <<current, r[2]>> /\ r[2] \in Nat \ {0} /\ r[2] <= sent[current]
        BY <4>1 DEF Sent
      <4> QED
        BY <3>1, <4>2
    <3>3. IsFiniteSet({current} \X (1..sent[current]))
      <4>1. IsFiniteSet({current})
        BY FS_Singleton
      <4>2. 1 \in Int /\ sent[current] \in Int
        BY <3>1
      <4>3. IsFiniteSet(1..sent[current])
        BY <4>2, FS_Interval
      <4> QED
        BY <4>1, <4>3, FS_Product
    <3>4. IsFiniteSet(InFlight)
      BY <3>2, <3>3, FS_Subset
    <3>5. /\ Cardinality(InFlight') \in Nat /\ Cardinality(InFlight) \in Nat
          /\ Cardinality(InFlight') <= Cardinality(InFlight)
      BY <2>2, <3>4, FS_Subset, FS_CardinalityType
    <3>6. Window \in Nat
      BY <3>1, WindowIsNatural
    <3>7. Cardinality(InFlight) <= Window
      BY <1>1, <2>3 DEF WindowIsKept
    <3>8. Cardinality(InFlight') <= Window
      BY <3>5, <3>6, <3>7
    <3> QED
      BY <1>1, <2>1, <2>3, <3>8 DEF WindowIsKept
  <2>4. CASE phase # "awaiting"
    BY <1>1, <2>2, <2>4 DEF WindowIsKept
  <2> QED
    BY <2>3, <2>4
<1> QED
  BY <1>4, <1>5, <1>6, <1>7 DEF StressInv

\* An entry that is written over is missed from then on.
LEMMA OverwriteKeeps ==
  ASSUME StressInv, NEW e \in log, Overwrite(e)
  PROVE  StressInv'
<1> DEFINE entries == {RequestOf(f) : f \in log}
<1>1. /\ SessionInv /\ CountsInv /\ RequestsInv /\ WindowIsKept
      /\ log' = log \ {e} /\ unlogged' = unlogged \cup {RequestOf(e)}
      /\ UNCHANGED <<session, current, phase, total, sent, pending, lines>>
  BY DEF StressInv, Overwrite, RequestOf
<1>2. SessionInv' /\ CountsInv'
  BY <1>1 DEF SessionInv, CountsInv
<1>3. WindowIsKept'
  BY <1>1 DEF WindowIsKept, InFlight, Window, Test
<1>4. RequestsInv'
  <2>1. /\ entries \cup unlogged \cup pending = Sent /\ entries \cap unlogged = {}
        /\ pending \cap (entries \cup unlogged) = {}
        /\ \A f \in log : /\ f.transactionSuccess \in BOOLEAN
                          /\ f = Entry(RequestOf(f), f.transactionSuccess)
        /\ \A f, g \in log : RequestOf(f) = RequestOf(g) => f = g
    BY <1>1 DEF RequestsInv
  <2>2. \A f \in log : Entry(RequestOf(f), f.transactionSuccess)' = Entry(RequestOf(f), f.transactionSuccess)
    BY <1>1 DEF Entry, RequestOf
  <2>3. {RequestOf(f) : f \in log}' = entries \ {RequestOf(e)}
    <3>1. {RequestOf(f) : f \in log}' = {RequestOf(f) : f \in log \ {e}}
      BY <1>1 DEF RequestOf
    <3>2. \A f \in log : f # e => RequestOf(f) # RequestOf(e)
      BY <2>1
    <3>3. {RequestOf(f) : f \in log \ {e}} = {RequestOf(f) : f \in log} \ {RequestOf(e)}
      BY <3>2
    <3> QED
      BY <3>1, <3>3
  <2>4. RequestOf(e) \in entries /\ Sent' = Sent
    BY <1>1 DEF Sent
  <2> HIDE DEF entries
  <2>5. /\ (entries \ {RequestOf(e)}) \cup unlogged' \cup pending' = Sent'
        /\ (entries \ {RequestOf(e)}) \cap unlogged' = {}
        /\ pending' \cap ((entries \ {RequestOf(e)}) \cup unlogged') = {}
    BY <1>1, <2>1, <2>4
  <2> QED
    BY <1>1, <2>1, <2>2, <2>3, <2>5 DEF RequestsInv, RequestOf
<1> QED
  BY <1>2, <1>3, <1>4 DEF StressInv

LEMMA StressNext == StressInv /\ [Next]_vars => StressInv'
<1> SUFFICES ASSUME StressInv, [Next]_vars PROVE StressInv'
  OBVIOUS
<1>1. CASE StartTest
  BY <1>1, StartTestKeeps
<1>2. CASE SkipTest \/ EndTest
  BY <1>2, EndingKeeps
<1>3. CASE SendWave
  BY <1>3, SendWaveKeeps
<1>4. CASE GiveUp
  BY <1>4, GiveUpKeeps
<1>5. CASE EndWave \/ EndPause
  BY <1>5, WaitingKeeps
<1>6. CASE \E q \in pending : Answer(q)
  BY <1>6, AnswerKeeps
<1>7. CASE \E e \in log : Overwrite(e)
  BY <1>7, OverwriteKeeps
<1>8. CASE UNCHANGED vars
  BY <1>8, NothingSent DEF StressInv, SessionInv, CountsInv, WindowIsKept, InFlight, Window, Test, vars
<1> QED
  BY <1>1, <1>2, <1>3, <1>4, <1>5, <1>6, <1>7, <1>8 DEF Next, Driver

LEMMA StressAlways == Spec => []StressInv
BY StressInit, StressNext, PTL DEF Spec

-----------------------------------------------------------------------------
(* Theorems *)

\* Entries have the fields of their requests.
LEMMA EntriesOfTests ==
  ASSUME StressInv, NEW e \in log
  PROVE  /\ e.groupID \in DOMAIN session /\ e.requestNumber \in Nat \ {0}
         /\ e.requestNumber <= sent[e.groupID] /\ e.requestNumber <= total[e.groupID]
         /\ e.totalTransactions = total[e.groupID] /\ total[e.groupID] \in Nat
         /\ session[e.groupID] \in Tests
         /\ e.testType = session[e.groupID].mode
         /\ e.route.path = session[e.groupID].endpoint
         /\ e.method = IF session[e.groupID].endpoint = Create THEN "POST" ELSE "GET"
         /\ e \in EntryShape
<1>1. /\ RequestOf(e) \in Sent /\ e.transactionSuccess \in BOOLEAN
      /\ e = Entry(RequestOf(e), e.transactionSuccess)
  BY DEF StressInv, RequestsInv
<1>2. /\ e.groupID \in DOMAIN session /\ e.requestNumber \in Nat \ {0}
      /\ e.requestNumber <= sent[e.groupID]
  BY <1>1 DEF Sent, RequestOf
<1>3. /\ sent[e.groupID] <= total[e.groupID]
      /\ sent[e.groupID] \in Nat /\ total[e.groupID] \in Nat
      /\ session[e.groupID] \in Tests /\ e.groupID \in Nat
  BY <1>2 DEF StressInv, CountsInv, SessionInv
<1>4. LET t == session[e.groupID] IN
        e = [groupID            |-> e.groupID,
             requestNumber      |-> e.requestNumber,
             totalTransactions  |-> total[e.groupID],
             testType           |-> t.mode,
             method             |-> IF t.endpoint = Create THEN "POST" ELSE "GET",
             route              |-> [path  |-> t.endpoint,
                                     param |-> IF t.endpoint = Create THEN 0 ELSE e.requestNumber],
             transactionSuccess |-> e.transactionSuccess]
  BY <1>1, Zenon DEF Entry, RequestOf
<1>5. /\ e.totalTransactions = total[e.groupID]
      /\ e.testType = session[e.groupID].mode
      /\ e.route.path = session[e.groupID].endpoint
      /\ e.method = IF session[e.groupID].endpoint = Create THEN "POST" ELSE "GET"
  BY <1>4
<1>6. e \in EntryShape
  <2>1. /\ session[e.groupID].mode \in {"sequential", "concurrent", "batch", "unknown"}
        /\ session[e.groupID].endpoint \in {Create, Role, Permission}
    BY <1>3 DEF Tests
  <2> QED
    BY <1>1, <1>2, <1>3, <1>4, <2>1 DEF EntryShape
<1> QED
  BY <1>2, <1>3, <1>5, <1>6

\* Every variable of the stress test keeps the values its code can give it: its
\* requests are numbered from 1 on.
THEOREM StressTypeCorrect == Spec => []TypeOK
<1>1. ASSUME StressInv PROVE TypeOK
  <2>1. log \subseteq EntryShape
    BY <1>1, EntriesOfTests
  <2>2. pending \cup unlogged \subseteq (DOMAIN session) \X (Nat \ {0})
    BY <1>1 DEF StressInv, RequestsInv, Sent
  <2> QED
    BY <1>1, <2>1, <2>2 DEF StressInv, SessionInv, CountsInv, TypeOK, Testing
<1> QED
  BY <1>1, StressAlways, PTL

\* Whatever the mode, the size of a batch and what the waves before it left, a test
\* never has more requests in flight than its mode allows (stress_testing.js awaits
\* every wave before the next), and only one that could not read the file, and
\* returned, leaves any behind.
THEOREM StressWindowIsKept == Spec => []WindowIsKept
<1>1. StressInv => WindowIsKept
  BY DEF StressInv
<1> QED
  BY <1>1, StressAlways, PTL

\* However answers are ordered, connections break and updates of the log get lost:
\* each number a test has used is in the log once, missed by it, or not answered,
\* none is used twice or left out or beyond the total, and a test that cannot fail
\* to read the file is finished when the next one begins.
THEOREM StressGroupsAreWhole == Spec => []GroupsAreWhole
<1>1. ASSUME StressInv PROVE GroupsAreWhole
  <2> SUFFICES ASSUME NEW g \in DOMAIN session
               PROVE  LET logged     == {e \in log : e.groupID = g}
                          numbers    == {e.requestNumber : e \in logged}
                          missed     == {n \in 1..total[g] : <<g, n>> \in unlogged}
                          unanswered == {n \in 1..total[g] : <<g, n>> \in pending}
                      IN  /\ sent[g] <= total[g]
                          /\ numbers \cup missed \cup unanswered = 1..sent[g]
                          /\ numbers \cap missed = {}
                          /\ unanswered \cap (numbers \cup missed) = {}
                          /\ \A e, f \in logged : e.requestNumber = f.requestNumber => e = f
                          /\ \A e \in logged : e.totalTransactions = total[g]
                          /\ g < current /\ ~ReadsFile(session[g]) =>
                               sent[g] = total[g] /\ unanswered = {}
    BY DEF GroupsAreWhole
  <2> DEFINE logged     == {e \in log : e.groupID = g}
             numbers    == {e.requestNumber : e \in logged}
             missed     == {n \in 1..total[g] : <<g, n>> \in unlogged}
             unanswered == {n \in 1..total[g] : <<g, n>> \in pending}
             entries    == {RequestOf(e) : e \in log}
  <2>1. sent[g] <= total[g] /\ sent[g] \in Nat /\ total[g] \in Nat /\ g \in Nat /\ current \in Nat
    BY <1>1 DEF StressInv, CountsInv, SessionInv
  <2>2. \A n : n \in numbers <=> <<g, n>> \in entries
    BY DEF RequestOf
  <2>3. /\ \A n \in 1..sent[g] : <<g, n>> \in Sent
        /\ \A n : <<g, n>> \in Sent => n \in 1..sent[g]
    BY <2>1 DEF Sent
  <2>4. /\ \A n : n \in numbers => n \in 1..sent[g]
        /\ \A n : n \in missed <=> <<g, n>> \in unlogged
        /\ \A n : n \in unanswered <=> <<g, n>> \in pending
    <3>1. \A n : <<g, n>> \in Sent => n \in 1..sent[g] /\ n \in 1..total[g]
      BY <2>1 DEF Sent
    <3> QED
      BY <1>1, <2>2, <3>1 DEF StressInv, RequestsInv
  <2>5. /\ entries \cup unlogged \cup pending = Sent /\ entries \cap unlogged = {}
        /\ pending \cap (entries \cup unlogged) = {}
    BY <1>1 DEF StressInv, RequestsInv
  <2>6. \A e, f \in logged : e.requestNumber = f.requestNumber => e = f
    BY <1>1 DEF StressInv, RequestsInv, RequestOf
  <2>7. \A e \in logged : e.totalTransactions = total[g]
    BY <1>1, EntriesOfTests
  <2>8. ASSUME g < current, ~ReadsFile(session[g])
         PROVE  sent[g] = total[g] /\ unanswered = {}
    <3>1. sent[g] = total[g]
      BY <1>1, <2>8 DEF StressInv, CountsInv
    <3>2. \A n : <<g, n>> \notin pending
      BY <1>1, <2>1, <2>8 DEF StressInv, WindowIsKept
    <3> QED
      BY <3>1, <3>2
  <2> HIDE DEF logged, numbers, missed, unanswered, entries
  <2>9. numbers \cup missed \cup unanswered = 1..sent[g]
    BY <2>2, <2>3, <2>4, <2>5
  <2>10. numbers \cap missed = {} /\ unanswered \cap (numbers \cup missed) = {}
    BY <2>2, <2>4, <2>5
  <2> QED
    BY <2>1, <2>6, <2>7, <2>8, <2>9, <2>10 DEF logged, numbers, missed, unanswered
<1> QED
  BY <1>1, StressAlways, PTL

-----------------------------------------------------------------------------
(* What graph_maker draws *)

\* The parsed entries are the kept ones without the parameter of their route.
LEMMA ParsedEntry ==
  ASSUME StressInv, NEW d \in parse_data(log)
  PROVE  \E e \in log :
           /\ d = [e EXCEPT !.route = [path |-> e.route.path, param |-> 0]]
           /\ d.groupID = e.groupID /\ d.requestNumber = e.requestNumber
           /\ d.totalTransactions = e.totalTransactions /\ d.method = e.method
           /\ d.testType = e.testType /\ d.route = [path |-> e.route.path, param |-> 0]
<1>1. PICK e \in log : d = [e EXCEPT !.route = get_base_route(e.route)]
  BY DEF parse_data
<1>2. /\ e \in EntryShape
      /\ d = [e EXCEPT !.route = [path |-> e.route.path, param |-> 0]]
  BY <1>1, EntriesOfTests DEF get_base_route
<1> QED
  BY <1>2 DEF EntryShape

\* Parsed entries are of one test just when their routes and test types agree, and
\* then their totals and methods agree too.
LEMMA TestsOfParsed ==
  ASSUME StressInv, NEW d \in parse_data(log), NEW c \in parse_data(log)
  PROVE  /\ d.groupID = c.groupID <=> d.route = c.route /\ d.testType = c.testType
         /\ d.groupID = c.groupID =>
              d.totalTransactions = c.totalTransactions /\ d.method = c.method
         /\ d.groupID = c.groupID /\ d.requestNumber = c.requestNumber => d = c
         /\ d.requestNumber \in 1..d.totalTransactions
<1>1. PICK e \in log :
         /\ d = [e EXCEPT !.route = [path |-> e.route.path, param |-> 0]]
         /\ d.groupID = e.groupID /\ d.requestNumber = e.requestNumber
         /\ d.totalTransactions = e.totalTransactions /\ d.method = e.method
         /\ d.testType = e.testType /\ d.route = [path |-> e.route.path, param |-> 0]
  BY ParsedEntry
<1>2. PICK f \in log :
         /\ c = [f EXCEPT !.route = [path |-> f.route.path, param |-> 0]]
         /\ c.groupID = f.groupID /\ c.requestNumber = f.requestNumber
         /\ c.totalTransactions = f.totalTransactions /\ c.method = f.method
         /\ c.testType = f.testType /\ c.route = [path |-> f.route.path, param |-> 0]
  BY ParsedEntry
<1>3. /\ e.groupID \in DOMAIN session /\ f.groupID \in DOMAIN session
      /\ session[e.groupID] \in Tests /\ session[f.groupID] \in Tests
      /\ e.testType = session[e.groupID].mode /\ f.testType = session[f.groupID].mode
      /\ e.route.path = session[e.groupID].endpoint
      /\ f.route.path = session[f.groupID].endpoint
      /\ e.totalTransactions = total[e.groupID] /\ f.totalTransactions = total[f.groupID]
      /\ e.method = IF session[e.groupID].endpoint = Create THEN "POST" ELSE "GET"
      /\ f.method = IF session[f.groupID].endpoint = Create THEN "POST" ELSE "GET"
      /\ e.requestNumber \in Nat \ {0} /\ e.requestNumber <= total[e.groupID]
      /\ total[e.groupID] \in Nat
  BY EntriesOfTests
<1>4. e.groupID = f.groupID <=> e.route.path = f.route.path /\ e.testType = f.testType
  <2>1. e.route.path = f.route.path /\ e.testType = f.testType
          => session[e.groupID] = session[f.groupID]
    <3>1. \A s, t \in Tests : s.endpoint = t.endpoint /\ s.mode = t.mode => s = t
      BY DEF Tests
    <3> QED
      BY <1>3, <3>1
  <2>2. \A g, h \in DOMAIN session : session[g] = session[h] => g = h
    BY DEF StressInv, SessionInv, Distinct
  <2>3. e.route.path = f.route.path /\ e.testType = f.testType => e.groupID = f.groupID
    BY <1>3, <2>1, <2>2
  <2>4. e.groupID = f.groupID => e.route.path = f.route.path /\ e.testType = f.testType
    BY <1>3
  <2> QED
    BY <2>3, <2>4
<1>5. d.route = c.route <=> e.route.path = f.route.path
  BY <1>1, <1>2
<1>6. e.groupID = f.groupID /\ e.requestNumber = f.requestNumber => e = f
  BY DEF StressInv, RequestsInv, RequestOf
<1>7. e = f => d = c
  BY <1>1, <1>2
<1>8. d.requestNumber \in 1..d.totalTransactions
  BY <1>1, <1>3
<1>9. e.groupID = f.groupID =>
        d.totalTransactions = c.totalTransactions /\ d.method = c.method
  BY <1>1, <1>2, <1>3
<1>10. d.groupID = c.groupID <=> d.route = c.route /\ d.testType = c.testType
  BY <1>1, <1>2, <1>4, <1>5
<1>11. d.groupID = c.groupID /\ d.requestNumber = c.requestNumber => d = c
  BY <1>1, <1>2, <1>6, <1>7
<1> QED
  BY <1>1, <1>2, <1>8, <1>9, <1>10, <1>11

\* A group that is told by fields on which the entries of a test agree has all
\* entries of a test or none.
LEMMA GroupsHaveTestsWhole ==
  ASSUME StressInv, NEW group \in Output(parse_data(log)), NEW e \in group,
         NEW f \in parse_data(log), f.groupID = e.groupID
  PROVE  e \in parse_data(log) /\ f \in group
<1> DEFINE data == parse_data(log)
<1>1. \A d, c \in data : d.groupID = c.groupID =>
        /\ d.route = c.route /\ d.testType = c.testType
        /\ d.totalTransactions = c.totalTransactions /\ d.method = c.method
  BY TestsOfParsed
<1> HIDE DEF data
<1>2. \/ \E route \in Routes(data) : group \in Groups(RouteData(data, route), LAMBDA d : d.testType)
      \/ \E route \in Routes(data) : group \in TransactionLines(data, route)
      \/ \E route \in Routes(data) : group \in TimeLines(data, route)
      \/ \E route \in Routes(data) : group = plot_gas_consumption(data, route)
      \/ group = plot_transaction_cost_vs_length(data)
      \/ group = calculate_transaction_speed(data)
  BY DEF Output, Labelled, generate_statistics_table, data
<1>3. \/ \E route, d : group = {c \in RouteData(data, route) : c.testType = d.testType}
      \/ \E route, d : group = {c \in RouteData(data, route) : TransactionKey(c) = TransactionKey(d)}
      \/ \E route, d : group = {c \in RouteData(data, route) : TimeKey(c) = TimeKey(d)}
      \/ \E route : group = RouteData(data, route)
      \/ group = {c \in data : c.method = "POST"}
      \/ group = data
  BY <1>2 DEF Groups, TransactionLines, TimeLines, plot_gas_consumption,
              plot_transaction_cost_vs_length, calculate_transaction_speed
<1>4. e \in data
  BY <1>3 DEF RouteData
<1>5. /\ f \in data /\ f.route = e.route /\ f.testType = e.testType
      /\ f.totalTransactions = e.totalTransactions /\ f.method = e.method
  BY <1>1, <1>4 DEF data
<1>6. f \in group
  BY <1>3, <1>5 DEF RouteData, TransactionKey, TimeKey
<1> QED
  BY <1>4, <1>6 DEF data

\* What is labelled with a test type is of one route and one test type.
LEMMA LabelledAreTests ==
  ASSUME StressInv, NEW group \in Labelled(parse_data(log)), NEW e \in group, NEW f \in group
  PROVE  /\ e \in parse_data(log) /\ f \in parse_data(log)
         /\ f.groupID = e.groupID
<1> DEFINE data == parse_data(log)
<1> HIDE DEF data
<1>1. \/ \E route \in Routes(data) : group \in Groups(RouteData(data, route), LAMBDA d : d.testType)
      \/ \E route \in Routes(data) : group \in TransactionLines(data, route)
      \/ \E route \in Routes(data) : group \in TimeLines(data, route)
  BY DEF Labelled, generate_statistics_table, data
<1>2. \/ \E route, d : group = {c \in RouteData(data, route) : c.testType = d.testType}
      \/ \E route, d : group = {c \in RouteData(data, route) : TransactionKey(c) = TransactionKey(d)}
      \/ \E route, d : group = {c \in RouteData(data, route) : TimeKey(c) = TimeKey(d)}
  BY <1>1 DEF Groups, TransactionLines, TimeLines
<1>3. /\ e \in data /\ f \in data
      /\ f.route = e.route /\ f.testType = e.testType
  BY <1>2 DEF RouteData, TransactionKey, TimeKey
<1> QED
  BY <1>3, TestsOfParsed DEF data

\* Within a session graph_maker.py, which never looks at group identifiers, takes
\* all entries of a test into what it makes, or none; and each line and each row it
\* labels with a test type is one test, in which a request counts once.
THEOREM StressOneTestPerLine == Spec => []OneTestPerLine
<1>1. ASSUME StressInv PROVE OneTestPerLine
  <2> DEFINE data == parse_data(log)
  <2>1. \A group \in Output(data) : \A e \in group, f \in data :
          f.groupID = e.groupID => f \in group
    BY <1>1, GroupsHaveTestsWhole
  <2>2. ASSUME NEW group \in Labelled(data), NEW e \in group, NEW f \in group
        PROVE  /\ f.groupID = e.groupID
               /\ f.requestNumber = e.requestNumber => f = e
               /\ e.requestNumber \in 1..e.totalTransactions
    <3>1. e \in data /\ f \in data /\ f.groupID = e.groupID
      BY <1>1, LabelledAreTests
    <3> QED
      BY <1>1, <3>1, TestsOfParsed
  <2> QED
    BY <2>1, <2>2 DEF OneTestPerLine
<1> QED
  BY <1>1, StressAlways, PTL
=============================================================================
