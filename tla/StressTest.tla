----------------------------- MODULE StressTest -----------------------------
(***************************************************************************)
(* The stress test of src/API/stress_testing.js: a session runs tests of   *)
(* three endpoints in three modes against the API server, and the server's *)
(* request log is drawn by graph_maker.  The server is an environment that *)
(* answers in any order or breaks the connection; what its log entry says  *)
(* follows server.js and logging_middleware.js, and RequestLog is why the  *)
(* file that graph_maker reads may miss it.                                *)
(*                                                                         *)
(* A test sends its requests in waves: as many as its window allows in one *)
(* turn of the event loop, then it awaits all their answers.               *)
(***************************************************************************)
EXTENDS GraphMaker, Sequences

CONSTANTS
  TOTAL_REQUESTS,         \* requests of a creation or permission test
  SIMULTANEOUS_REQUESTS,  \* requests of one batch
  MaxLines,               \* bound: lines account_ids.txt starts with
  MaxTests,               \* bound: tests of a session
  MaxUnlogged             \* bound: requests of a session that the log misses

ASSUME TotalIsPositive == TOTAL_REQUESTS \in Nat \ {0}
ASSUME BatchIsPositive == SIMULTANEOUS_REQUESTS \in Nat \ {0}
ASSUME BoundsAreNatural == MaxLines \in Nat /\ MaxTests \in Nat /\ MaxUnlogged \in Nat

Create     == "create_user_with_dynamic_gas"
Role       == "get_role"
Permission == "has_permission"
Modes      == <<"sequential", "concurrent", "batch">>
Endpoints  == <<Create, Role, Permission>>

\* The tests of a session, by the answer to the prompt, ALL_TESTS and MODE.
Cross(eps, modes) ==
  [k \in 1..(Len(eps) * Len(modes)) |->
     [endpoint |-> eps[((k - 1) \div Len(modes)) + 1],
      mode     |-> modes[((k - 1) % Len(modes)) + 1]]]

Sessions ==
  {Cross(eps, modes) :
     eps   \in {Endpoints} \cup {<<Endpoints[i]>> : i \in 1..3},
     modes \in {Modes, <<"unknown">>} \cup {<<Modes[i]>> : i \in 1..3}}

\* A test is known by its place in the session, which stands for the fresh
\* identifier of its group, and a request by its test and its number.
VARIABLES
  session,   \* the tests to be run
  current,   \* the running test, or the next one
  phase,     \* between tests, sending, awaiting, pausing between batches, over
  total,     \* requests each test is to send
  sent,      \* requests it has sent: the number of the last one
  pending,   \* requests that are not answered
  unlogged,  \* requests answered without leaving an entry in the file
  lines,     \* lines of account_ids.txt, all different
  log        \* the entries of the file that graph_maker reads

vars == <<session, current, phase, total, sent, pending, unlogged, lines, log>>

Test == session[current]

Init ==
  /\ session \in {s \in Sessions : Len(s) <= MaxTests}
  /\ current = 1
  /\ phase = "between"
  /\ total = [g \in DOMAIN session |-> 0]
  /\ sent = [g \in DOMAIN session |-> 0]
  /\ pending = {}
  /\ unlogged = {}
  /\ lines \in 0..MaxLines
  /\ log = {}

-----------------------------------------------------------------------------
(* The driver *)

\* How many requests a test sends before it awaits answers.
Window ==
  IF Test.endpoint = Role \/ Test.mode = "sequential" THEN 1
  ELSE IF Test.mode = "concurrent" THEN total[current]
  ELSE SIMULTANEOUS_REQUESTS

\* The tests that read the account file again for each request: permission tests
\* ask about two accounts, and so does the batch mode of the creation test,
\* which draws its data from the same function.
ReadsFile(t) == t.endpoint = Permission \/ (t.endpoint = Create /\ t.mode = "batch")

\* The test has something to ask about.  An unknown mode runs the role test only.
CanRun ==
  /\ Test.endpoint = Role \/ Test.mode # "unknown"
  /\ Test.endpoint = Role => lines > 0
  /\ ReadsFile(Test) => lines >= 2

NextTest ==
  /\ current' = current + 1
  /\ phase' = IF current = Len(session) THEN "over" ELSE "between"
  /\ UNCHANGED <<session, total, unlogged, lines, log>>

\* The role test asks once for each line that the file has when it starts.
StartTest ==
  /\ phase = "between"
  /\ CanRun
  /\ phase' = "sending"
  /\ total' = [total EXCEPT ![current] = IF Test.endpoint = Role THEN lines ELSE TOTAL_REQUESTS]
  /\ UNCHANGED <<session, current, sent, pending, unlogged, lines, log>>

\* A file that cannot be read counts as empty.
SkipTest ==
  /\ phase = "between"
  /\ ~CanRun \/ Test.endpoint = Role \/ ReadsFile(Test)
  /\ NextTest
  /\ UNCHANGED <<sent, pending>>

\* The number of the last request of a wave.
WaveEnd ==
  IF sent[current] + Window <= total[current] THEN sent[current] + Window ELSE total[current]

\* Mutated: requests are numbered by the index of the loop, from 0 on.
SendUpToByIndex(n) ==
  /\ sent' = [sent EXCEPT ![current] = n]
  /\ pending' = pending \cup ({current} \X (sent[current]..(n - 1)))

\* Sends the requests up to number n.
SendUpTo(n) ==
  /\ sent' = [sent EXCEPT ![current] = n]
  /\ pending' = pending \cup ({current} \X ((sent[current] + 1)..n))

\* Mutated: the role test goes by the lines that the file has now.
SendWaveRereading ==
  /\ phase = "sending"
  /\ IF Test.endpoint = Role
     THEN sent[current] < lines /\ SendUpTo(sent[current] + 1)
     ELSE sent[current] < total[current] /\ SendUpTo(WaveEnd)
  /\ phase' = "awaiting"
  /\ UNCHANGED <<session, current, total, unlogged, lines, log>>

SendWave ==
  /\ phase = "sending"
  /\ sent[current] < total[current]
  /\ SendUpTo(WaveEnd)
  /\ phase' = "awaiting"
  /\ UNCHANGED <<session, current, total, unlogged, lines, log>>

\* Reading the file fails in the middle of a wave: the test returns, and does not
\* await what it has sent.  (The server only appends to the file, so that there
\* are two accounts again whenever it can be read.)
GiveUp ==
  /\ phase = "sending"
  /\ ReadsFile(Test)
  /\ \E n \in sent[current]..(WaveEnd - 1) : SendUpTo(n)
  /\ NextTest

\* The requests of the running test that are not answered.
InFlight == {q \in pending : q[1] = current}

\* After a wave a batch test pauses.
AfterWave == IF Test.mode = "batch" /\ Test.endpoint # Role THEN "pausing" ELSE "sending"

\* Mutated: a batch is not awaited.
EndWaveEarly ==
  /\ phase = "awaiting"
  /\ Test.mode = "batch" \/ InFlight = {}
  /\ phase' = AfterWave
  /\ UNCHANGED <<session, current, total, sent, pending, unlogged, lines, log>>

\* Mutated: a failed request is not caught, and rejects the Promise.all.
EndWaveUncaught ==
  /\ phase = "awaiting"
  /\ InFlight = {}
  /\ \A q \in unlogged : q[1] # current
  /\ \A e \in log : e.groupID = current => e.transactionSuccess
  /\ phase' = AfterWave
  /\ UNCHANGED <<session, current, total, sent, pending, unlogged, lines, log>>

\* Promise.all over requests whose errors are caught: all are answered.
EndWave ==
  /\ phase = "awaiting"
  /\ InFlight = {}
  /\ phase' = AfterWave
  /\ UNCHANGED <<session, current, total, sent, pending, unlogged, lines, log>>

\* BATCH_WAIT_TIME seconds, after the last batch too.
EndPause ==
  /\ phase = "pausing"
  /\ phase' = "sending"
  /\ UNCHANGED <<session, current, total, sent, pending, unlogged, lines, log>>

EndTest ==
  /\ phase = "sending"
  /\ sent[current] = total[current]
  /\ NextTest
  /\ UNCHANGED <<sent, pending>>

-----------------------------------------------------------------------------
(* The server *)

\* The entry logged for request q.
Entry(q, success) ==
  LET t == session[q[1]] IN
    [groupID            |-> q[1],
     requestNumber      |-> q[2],
     totalTransactions  |-> total[q[1]],
     testType           |-> t.mode,
     method             |-> IF t.endpoint = Create THEN "POST" ELSE "GET",
     route              |-> [path  |-> t.endpoint,
                             param |-> IF t.endpoint = Create THEN 0 ELSE q[2]],
     transactionSuccess |-> success]

Logs(q, success) == log' = log \cup {Entry(q, success)} /\ UNCHANGED unlogged

\* The connection breaks, or the entry does not reach the file.
Unlogged(q) ==
  /\ Cardinality(unlogged) < MaxUnlogged
  /\ unlogged' = unlogged \cup {q}
  /\ UNCHANGED log

\* A creation is answered 200, after a line is appended for its account, or it
\* failed; with the data of a user or without makes no difference.
AnswerCreate(q) ==
  /\ session[q[1]].endpoint = Create
  /\ \/ Logs(q, TRUE) /\ lines' = lines + 1
     \/ Logs(q, FALSE) /\ UNCHANGED lines
     \/ Unlogged(q) /\ lines' \in {lines, lines + 1}

\* A query: answered or failed.
AnswerQuery(q) ==
  /\ session[q[1]].endpoint # Create
  /\ Unlogged(q) \/ \E success \in BOOLEAN : Logs(q, success)
  /\ UNCHANGED lines

Answer(q) ==
  /\ AnswerCreate(q) \/ AnswerQuery(q)
  /\ pending' = pending \ {q}
  /\ UNCHANGED <<session, current, phase, total, sent>>

\* An update of the JSON log that was begun before entry e got there is written
\* over it.
Overwrite(e) ==
  /\ Cardinality(unlogged) < MaxUnlogged
  /\ log # {e}
  /\ log' = log \ {e}
  /\ unlogged' = unlogged \cup {<<e.groupID, e.requestNumber>>}
  /\ UNCHANGED <<session, current, phase, total, sent, pending, lines>>

-----------------------------------------------------------------------------
Driver ==
  \/ StartTest \/ SkipTest \/ SendWave \/ GiveUp \/ EndWave \/ EndPause \/ EndTest

Next ==
  \/ Driver
  \/ \E q \in pending : Answer(q)
  \/ \E e \in log : Overwrite(e)

\* The event loop runs, and the server answers or breaks the connection: see
\* ApiServer for the requests it does answer.
Spec == Init /\ [][Next]_vars /\ WF_vars(Driver) /\ WF_vars(\E q \in pending : Answer(q))

-----------------------------------------------------------------------------
(* Properties *)

EntryShape ==
  [groupID : Nat, requestNumber : Nat \ {0}, totalTransactions : Nat,
   testType : {"sequential", "concurrent", "batch", "unknown"},
   method : {"POST", "GET"}, route : [path : {Create, Role, Permission}, param : Nat],
   transactionSuccess : BOOLEAN]

TypeOK ==
  /\ current \in 1..(Len(session) + 1)
  /\ phase \in {"between", "sending", "awaiting", "pausing", "over"}
  /\ total \in [DOMAIN session -> Nat]
  /\ sent \in [DOMAIN session -> Nat]
  /\ pending \cup unlogged \subseteq (DOMAIN session) \X (Nat \ {0})
  /\ lines \in Nat
  /\ log \subseteq EntryShape

\* A test never has more requests in flight than its mode allows, and none when
\* it is not awaiting answers.  Only a test that returned because it could not
\* read the file leaves requests in flight behind it.
WindowIsKept ==
  /\ phase = "awaiting" => Cardinality(InFlight) <= Window
  /\ phase # "awaiting" => InFlight = {}
  /\ \A q \in pending : q[1] # current =>
       q[1] < current /\ ReadsFile(session[q[1]]) /\ sent[q[1]] < total[q[1]]

\* Each test numbers its requests from 1 on without gap and never beyond the
\* total it announces, although the account file grows under it: each number is
\* in the log once, or missed by it, or not answered yet.  A test that reads the
\* file at most once goes on to its total.
GroupsAreWhole ==
  \A g \in DOMAIN session :
    LET logged     == {e \in log : e.groupID = g}
        numbers    == {e.requestNumber : e \in logged}
        missed     == {n \in 1..total[g] : <<g, n>> \in unlogged}
        unanswered == {n \in 1..total[g] : <<g, n>> \in pending}
    IN  /\ sent[g] <= total[g]
        /\ numbers \cup missed \cup unanswered = 1..sent[g]
        /\ numbers \cap missed = {} /\ unanswered \cap (numbers \cup missed) = {}
        /\ \A e, f \in logged : e.requestNumber = f.requestNumber => e = f
        /\ \A e \in logged : e.totalTransactions = total[g]
        /\ g < current /\ ~ReadsFile(session[g]) => sent[g] = total[g] /\ unanswered = {}

\* graph_maker.py groups entries by test type, total and route, or some of
\* them, and never by group identifier (lines 210, 285 and 364).  Whatever the
\* file has lost, nothing it makes of a session tears a test apart, and what it
\* labels with a test type, the lines of the metrics and the rows of the
\* statistics, is one test, with at most one entry for each request number and
\* none beyond the total.  (The plot of the gas, the table of the costs and the
\* speed put tests together.)
OneTestPerLine ==
  LET data == parse_data(log) IN
    /\ \A group \in Output(data) : \A e \in group, f \in data :
         f.groupID = e.groupID => f \in group
    /\ \A group \in Labelled(data) : \A e, f \in group :
         /\ f.groupID = e.groupID
         /\ f.requestNumber = e.requestNumber => f = e
         /\ e.requestNumber \in 1..e.totalTransactions

\* Every session comes to its end.
SessionEnds == <>(phase = "over")
=============================================================================
