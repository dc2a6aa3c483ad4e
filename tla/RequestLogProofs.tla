-------------------------- MODULE RequestLogProofs --------------------------
(***************************************************************************)
(* Proofs about the request logs, for any number of responses, of crashes  *)
(* and of failures: what no overlap of the updates can do to the logs, and *)
(* what keeping them apart is enough for.                                  *)
(***************************************************************************)
EXTENDS MCRequestLog, TLAPS

\* The entries of a log, none of which is there twice, are among those that
\* satisfy a condition; a log that is no array has none.
Lists(log, entries) ==
  log \notin {Absent, Broken} => IsSet(log) /\ \A i \in DOMAIN log : log[i] \in entries

\* The entries whose JSON update has got past reading.
HaveRead == {e \in Entries : jsonOp[e] \notin {"idle", "reading"}}

Appended == {e \in Entries : txtOp[e] = "done"}

\* An entry is in the text log once its append is done, and in what is written or
\* to be written as JSON once its update has read the file.  No update has been
\* started, and none is through, while the file is yet to be created.
LogInv ==
  /\ TypeOK
  /\ \A e \in Entries : jsonOp[e] \in {"reading", "truncating", "writing", "done"} => fileExists
  /\ \A e \in Entries : txtOp[e] = "idle" <=> jsonOp[e] = "idle"
  /\ Lists(text, Appended)
  /\ Lists(json, HaveRead)
  /\ \A e \in Entries : Lists(newData[e], HaveRead)

-----------------------------------------------------------------------------
(* Operators *)

\* An entry is added to a log that does not have it.
LEMMA AppendLists ==
  ASSUME NEW log \in Seq(Entries), NEW S, NEW T, S \subseteq T, NEW r \in T,
         r \in Entries, Lists(log, S), r \notin S
  PROVE  Append(log, r) \in Seq(Entries) /\ Lists(Append(log, r), T)
<1>1. log \notin {Absent, Broken}
  BY MarksAreNoEntries
<1>2. /\ Append(log, r) \in Seq(Entries)
      /\ Len(log) \in Nat
      /\ DOMAIN log = 1..Len(log)
      /\ DOMAIN Append(log, r) = 1..(Len(log) + 1)
      /\ Append(log, r)[Len(log) + 1] = r
      /\ \A i \in 1..Len(log) : Append(log, r)[i] = log[i] /\ log[i] \in S
  BY <1>1 DEF Lists
<1>3. IsSet(log)
  BY <1>1 DEF Lists
<1>4. ASSUME NEW i \in 1..(Len(log) + 1), NEW j \in 1..(Len(log) + 1),
             Append(log, r)[i] = Append(log, r)[j]
      PROVE  i = j
  BY <1>2, <1>3, <1>4 DEF IsSet
<1>5. \A i \in 1..(Len(log) + 1) : Append(log, r)[i] \in T
  BY <1>2
<1> QED
  BY <1>2, <1>4, <1>5 DEF Lists, IsSet

\* A log keeps listing what it lists as the condition gets wider.
LEMMA ListsMore ==
  ASSUME NEW log, NEW S, NEW T, S \subseteq T, Lists(log, S)
  PROVE  Lists(log, T)
BY DEF Lists

\* A log of one entry, and an empty one.
LEMMA ShortLists ==
  ASSUME NEW S, NEW r \in S
  PROVE  Lists(<<r>>, S) /\ Lists(<<>>, S)
BY DEF Lists, IsSet

\* An update writes a content of its own, or breaks the file.
LEMMA OverwrittenIs ==
  ASSUME NEW old, NEW new, NEW c \in Overwritten(old, new)
  PROVE  c \in {new, Broken}
BY DEF Overwritten

-----------------------------------------------------------------------------
(* The invariant *)

LEMMA MarksDiffer ==
  /\ <<>> \in Seq(Entries) /\ \A e \in Entries : <<e>> \in Seq(Entries)
  /\ Absent \notin Contents
<1>1. <<>> \in Seq(Entries) /\ \A e \in Entries : <<e>> \in Seq(Entries)
  OBVIOUS
<1>2. Absent \notin Contents
  BY MarksAreNoEntries DEF Contents
<1> QED
  BY <1>1, <1>2

LEMMA InitLogInv == Init => LogInv
<1> SUFFICES ASSUME Init PROVE LogInv
  OBVIOUS
<1>1. TypeOK
  BY MarksDiffer, MarksAreNoEntries DEF Init, TypeOK, Contents
<1>2. \A S : Lists(<<>>, S) /\ Lists(Absent, S)
  BY DEF Lists, IsSet
<1> QED
  BY <1>1, <1>2 DEF Init, LogInv

\* What an entry's two operations have in common: the JSON file of a step lists
\* no entry that has not read it.
LEMMA FinishKeepsLogInv ==
  ASSUME LogInv, NEW r \in Entries, Finish(r)
  PROVE  LogInv'
<1> USE DEF LogInv
<1>0. /\ txtOp[r] = "idle" /\ jsonOp[r] = "idle"
      /\ txtOp' = [txtOp EXCEPT ![r] = "appending"]
      /\ turn' \subseteq Entries
      /\ UNCHANGED <<text, newData, crashes>>
  <2>1. \A q : q \in Aliased => <<q, 2>> \in Entries
    BY DEF Entries
  <2> QED
    BY <2>1 DEF Finish
<1>1. \/ fileExists /\ StartUpdate(r)
      \/ ~fileExists /\ Create(r)
  BY DEF Finish
<1>2. \A q \in Entries :
        /\ q # r => txtOp'[q] = txtOp[q] /\ jsonOp'[q] = jsonOp[q]
        /\ q = r => txtOp'[q] = "appending"
        /\ q = r => jsonOp'[q] \in {"reading", "done", "skipped", "lost"}
  BY <1>0, <1>1 DEF StartUpdate, Create, TypeOK
<1>3. HaveRead \subseteq HaveRead'
  BY <1>0, <1>2 DEF HaveRead
<1>4. Lists(text, Appended)'
  <2>1. Appended' = Appended
    BY <1>0, <1>2 DEF Appended
  <2> QED
    BY <1>0, <2>1
<1>6. \A q \in Entries : Lists(newData'[q], HaveRead')
  BY <1>0, <1>3, ListsMore
<1>7. \A q \in Entries : (txtOp[q] = "idle" <=> jsonOp[q] = "idle")'
  BY <1>2
<1>8. jsonOp' \in [Entries -> {"idle", "reading", "truncating", "writing", "done", "skipped", "lost"}]
  BY <1>1 DEF StartUpdate, Create, TypeOK
<1>9. failures' \in Nat
  BY <1>1, BoundsAreNatural DEF StartUpdate, Create, Fails, TypeOK
<1>10. txtOp' \in [Entries -> {"idle", "appending", "done", "lost"}]
  BY <1>0 DEF TypeOK
<1>11. /\ json' \in Contents \cup {Absent} /\ fileExists' \in BOOLEAN
       /\ fileExists' => json' # Absent
       /\ \A q \in Entries :
            jsonOp'[q] \in {"reading", "truncating", "writing", "done"} => fileExists'
       /\ Lists(json, HaveRead)'
  <2>1. CASE fileExists /\ StartUpdate(r)
    <3>1. Lists(json', HaveRead')
      BY <1>3, <2>1, ListsMore DEF StartUpdate
    <3> QED
      BY <2>1, <3>1 DEF StartUpdate, TypeOK
  <2>2. CASE ~fileExists /\ json' = <<r>> /\ fileExists' = TRUE /\ jsonOp' = [jsonOp EXCEPT ![r] = "done"]
    <3>1. r \in HaveRead'
      BY <2>2 DEF HaveRead, TypeOK
    <3>2. Lists(json', HaveRead')
      BY <2>2, <3>1, ShortLists
    <3>3. json' \in Contents
      BY <2>2, MarksDiffer DEF Contents
    <3>4. json' # Absent
      BY <3>3, MarksDiffer
    <3> QED
      BY <2>2, <3>2, <3>3, <3>4
  <2>3. CASE /\ ~fileExists /\ json' \in {json, <<>>, Broken} /\ fileExists' = fileExists
             /\ jsonOp' = [jsonOp EXCEPT ![r] = IF json' = Broken THEN "lost" ELSE "skipped"]
    <3>1. Lists(json', HaveRead')
      <4>1. Lists(json, HaveRead')
        BY <1>3, ListsMore
      <4>2. Lists(<<>>, HaveRead') /\ Lists(Broken, HaveRead')
        BY DEF Lists, IsSet
      <4> QED
        BY <2>3, <4>1, <4>2
    <3>2. json' \in Contents \cup {Absent}
      BY <2>3, MarksDiffer DEF Contents, TypeOK
    <3>3. \A q \in Entries : jsonOp'[q] = jsonOp[q] \/ jsonOp'[q] \in {"skipped", "lost"}
      BY <2>3 DEF TypeOK
    <3> QED
      BY <2>3, <3>1, <3>2, <3>3 DEF TypeOK
  <2> QED
    BY <1>1, <2>1, <2>2, <2>3 DEF Create
<1>12. TypeOK'
  BY <1>0, <1>8, <1>9, <1>10, <1>11 DEF TypeOK
<1> QED
  BY <1>4, <1>6, <1>7, <1>11, <1>12

LEMMA AppendKeepsLogInv ==
  ASSUME LogInv, NEW r \in Entries, AppendTxt(r)
  PROVE  LogInv'
<1> USE DEF LogInv
<1>1. \A q \in Entries : txtOp'[q] = IF q = r THEN "done" ELSE txtOp[q]
  BY DEF AppendTxt, TypeOK
<1>2. Appended \subseteq Appended' /\ r \in Appended' /\ r \notin Appended
  BY <1>1 DEF AppendTxt, Appended
<1>3. text' \in Seq(Entries) /\ Lists(text', Appended')
  BY <1>2, AppendLists DEF AppendTxt, TypeOK
<1>4. TypeOK'
  BY <1>3 DEF AppendTxt, TypeOK
<1>5. HaveRead' = HaveRead
  BY DEF AppendTxt, HaveRead
<1>6. UNCHANGED <<json, fileExists, jsonOp, newData>>
  BY DEF AppendTxt
<1>7. Lists(json', HaveRead') /\ \A q \in Entries : Lists(newData'[q], HaveRead')
  BY <1>5, <1>6
<1>8. \A q \in Entries : (txtOp[q] = "idle" <=> jsonOp[q] = "idle")'
  BY <1>1, <1>6 DEF AppendTxt
<1>9. \A q \in Entries :
        jsonOp'[q] \in {"reading", "truncating", "writing", "done"} => fileExists'
  BY <1>6
<1> QED
  BY <1>3, <1>4, <1>7, <1>8, <1>9

\* A step of an update that has started: its entry moves on to a place past
\* reading, and the file, if it is written, still lists no entry but those.
LEMMA UpdateKeepsLogInv ==
  ASSUME LogInv, NEW r \in Entries, jsonOp[r] \in {"reading", "truncating", "writing"},
         NEW to \in {"truncating", "writing", "done", "skipped", "lost"},
         jsonOp' = [jsonOp EXCEPT ![r] = to],
         UNCHANGED <<text, fileExists, txtOp, turn, crashes>>, failures' \in Nat,
         json' \in Contents, newData' \in [Entries -> Contents],
         Lists(json, HaveRead)',
         \A e \in Entries : Lists(newData[e], HaveRead)'
  PROVE  LogInv'
<1> USE DEF LogInv
<1>1. \A q \in Entries : jsonOp'[q] = IF q = r THEN to ELSE jsonOp[q]
  BY DEF TypeOK
<1>2. fileExists' /\ json' # Absent
  BY MarksDiffer
<1>3. TypeOK'
  BY <1>2 DEF TypeOK
<1>4. \A q \in Entries : (txtOp[q] = "idle" <=> jsonOp[q] = "idle")'
  BY <1>1
<1>5. Lists(text, Appended)'
  BY DEF Appended
<1> QED
  BY <1>2, <1>3, <1>4, <1>5

\* Such a step takes no entry back.
LEMMA HaveReadGrows ==
  ASSUME TypeOK, NEW r \in Entries, NEW to, to \notin {"idle", "reading"},
         jsonOp' = [jsonOp EXCEPT ![r] = to]
  PROVE  HaveRead \subseteq HaveRead' /\ r \in HaveRead'
BY DEF HaveRead, TypeOK

LEMMA ReadKeepsLogInv ==
  ASSUME LogInv, NEW r \in Entries, ReadJson(r)
  PROVE  LogInv'
<1>1. /\ jsonOp[r] = "reading" /\ json # Absent
      /\ jsonOp' = [jsonOp EXCEPT ![r] = "truncating"]
      /\ newData' = [newData EXCEPT ![r] = WithEntry(json, r)]
      /\ UNCHANGED <<text, json, fileExists, txtOp, turn, crashes, failures>>
  BY DEF ReadJson, files
<1>2. HaveRead \subseteq HaveRead' /\ r \in HaveRead' /\ r \notin HaveRead
  BY <1>1, HaveReadGrows DEF LogInv, HaveRead
<1>3. WithEntry(json, r) \in Contents /\ Lists(WithEntry(json, r), HaveRead')
  <2>1. CASE json = Broken
    BY <2>1 DEF WithEntry, Contents, Lists
  <2>2. CASE json # Broken
    <3>1. json \in Seq(Entries)
      BY <1>1, <2>2 DEF LogInv, TypeOK, Contents
    <3>2. /\ Append(json, r) \in Seq(Entries)
          /\ Lists(Append(json, r), HaveRead')
      BY <3>1, <1>2, AppendLists DEF LogInv
    <3> QED
      BY <2>2, <3>2 DEF WithEntry, Contents
  <2> QED
    BY <2>1, <2>2
<1>4. \A q \in Entries : newData'[q] = IF q = r THEN WithEntry(json, r) ELSE newData[q]
  BY <1>1 DEF LogInv, TypeOK
<1>5. newData' \in [Entries -> Contents]
  BY <1>1, <1>3 DEF LogInv, TypeOK
<1>6. \A q \in Entries : Lists(newData'[q], HaveRead')
  BY <1>2, <1>3, <1>4, ListsMore DEF LogInv
<1>7. Lists(json', HaveRead')
  BY <1>1, <1>2, ListsMore DEF LogInv
<1>8. json' \in Contents /\ failures' \in Nat
  BY <1>1 DEF LogInv, TypeOK
<1> QED
  BY <1>1, <1>5, <1>6, <1>7, <1>8, UpdateKeepsLogInv

\* The steps that write the file, or give the update up.
LEMMA WriteKeepsLogInv ==
  ASSUME LogInv, NEW r \in Entries,
         TruncateJson(r) \/ WriteJson(r) \/ UpdateGivenUp(r) \/ WriteFails(r)
  PROVE  LogInv'
<1>1. json \in Contents
  BY DEF LogInv, TypeOK, TruncateJson, WriteJson, UpdateGivenUp, WriteFails
<1>2. PICK to \in {"writing", "done", "skipped", "lost"} :
        jsonOp' = [jsonOp EXCEPT ![r] = to]
  BY DEF TruncateJson, WriteJson, UpdateGivenUp, WriteFails
<1>3. /\ jsonOp[r] \in {"reading", "truncating", "writing"}
      /\ UNCHANGED <<text, fileExists, txtOp, newData, turn, crashes>>
  BY DEF TruncateJson, WriteJson, UpdateGivenUp, WriteFails, files
<1>4. failures' \in Nat
  BY BoundsAreNatural DEF TruncateJson, WriteJson, UpdateGivenUp, WriteFails, Fails, LogInv, TypeOK
<1>5. HaveRead \subseteq HaveRead'
  BY <1>2, HaveReadGrows DEF LogInv
<1>6. json' \in {json, <<>>, newData[r], Broken}
  BY OverwrittenIs DEF TruncateJson, WriteJson, UpdateGivenUp, WriteFails, files
<1>7. json' \in Contents /\ Lists(json', HaveRead')
  <2>1. Lists(json, HaveRead') /\ Lists(newData[r], HaveRead')
    BY <1>5, ListsMore DEF LogInv
  <2>2. Lists(<<>>, HaveRead') /\ Lists(Broken, HaveRead')
    BY DEF Lists, IsSet
  <2>3. newData[r] \in Contents /\ <<>> \in Contents /\ Broken \in Contents
    BY MarksDiffer DEF LogInv, TypeOK, Contents
  <2> QED
    BY <1>1, <1>6, <2>1, <2>2, <2>3
<1>8. \A q \in Entries : Lists(newData'[q], HaveRead')
  BY <1>3, <1>5, ListsMore DEF LogInv
<1>9. newData' \in [Entries -> Contents]
  BY <1>3 DEF LogInv, TypeOK
<1> QED
  BY <1>2, <1>3, <1>4, <1>7, <1>8, <1>9, UpdateKeepsLogInv

LEMMA DieKeepsLogInv ==
  ASSUME LogInv, Die, crashes' \in Nat, failures' \in Nat
  PROVE  LogInv'
<1> USE DEF LogInv
<1>1. \A q \in Entries :
        /\ txtOp'[q] = IF txtOp[q] = "appending" THEN "lost" ELSE txtOp[q]
        /\ jsonOp'[q] = IF jsonOp[q] \in {"reading", "truncating", "writing"}
                       THEN "lost" ELSE jsonOp[q]
  BY DEF Die
<1>2. UNCHANGED <<text, json, newData>> /\ turn' = {} /\ fileExists' = (json # Absent)
  BY DEF Die
<1>3. TypeOK'
  <2>1. txtOp' \in [Entries -> {"idle", "appending", "done", "lost"}]
    BY DEF Die, TypeOK
  <2>2. jsonOp' \in [Entries -> {"idle", "reading", "truncating", "writing", "done", "skipped", "lost"}]
    BY DEF Die, TypeOK
  <2> QED
    BY <1>2, <2>1, <2>2 DEF TypeOK
<1>4. HaveRead \subseteq HaveRead'
  BY <1>1 DEF HaveRead
<1>5. Lists(text, Appended)'
  <2>1. Appended' = Appended
    BY <1>1 DEF Appended
  <2> QED
    BY <1>2, <2>1
<1>6. Lists(json', HaveRead') /\ \A q \in Entries : Lists(newData'[q], HaveRead')
  BY <1>2, <1>4, ListsMore
<1>7. \A q \in Entries :
        /\ (txtOp[q] = "idle" <=> jsonOp[q] = "idle")'
        /\ jsonOp'[q] \in {"reading", "truncating", "writing", "done"} => fileExists'
  BY <1>1, <1>2 DEF TypeOK
<1> QED
  BY <1>3, <1>5, <1>6, <1>7

LEMMA NextKeepsLogInv == LogInv /\ [Next]_vars => LogInv'
<1> SUFFICES ASSUME LogInv, [Next]_vars PROVE LogInv'
  OBVIOUS
<1>1. CASE UNCHANGED vars
  BY <1>1 DEF vars, files, LogInv, TypeOK, Lists, HaveRead, Appended
<1>2. CASE Crash
  BY <1>2, DieKeepsLogInv, BoundsAreNatural DEF Crash, LogInv, TypeOK
<1>3. ASSUME NEW e \in Entries, AppendFails(e)
      PROVE  LogInv'
  BY <1>3, DieKeepsLogInv, BoundsAreNatural DEF AppendFails, Fails, LogInv, TypeOK
<1>4. ASSUME NEW e \in Entries, Finish(e) \/ Operation(e) \/ UpdateGivenUp(e) \/ WriteFails(e)
      PROVE  LogInv'
  BY <1>4, FinishKeepsLogInv, AppendKeepsLogInv, ReadKeepsLogInv, WriteKeepsLogInv DEF Operation
<1> QED
  BY <1>1, <1>2, <1>3, <1>4 DEF Next, Failure

LEMMA LogInvariant == Spec => []LogInv
BY InitLogInv, NextKeepsLogInv, PTL DEF Spec

\* The values of the variables, and the module's cached answer: fileExists, read
\* once when the module is loaded and kept by hand since, never claims a file
\* that is not there (logging_middleware.js:11, 141).
THEOREM LogTypeCorrect == Spec => []TypeOK
<1>1. LogInv => TypeOK
  BY DEF LogInv
<1> QED
  BY <1>1, LogInvariant, PTL

\* However many updates overlap or fail and processes die, no log has an entry
\* twice or one of a response that has not finished; the two entries a response
\* of the alias has are of two passes through the middlewares (server.js:506).
THEOREM LogInventsNothing == Spec => []NothingInvented
<1>1. LogInv => NothingInvented
  <2> SUFFICES ASSUME LogInv,
                      NEW log \in {text} \cup {newData[e] : e \in Entries} \cup {json},
                      log \notin {Absent, Broken}
               PROVE  IsSet(log) /\ \A i \in DOMAIN log : txtOp[log[i]] # "idle"
    BY DEF NothingInvented
  <2> DEFINE Finished == {e \in Entries : txtOp[e] # "idle"}
  <2>1. Appended \subseteq Finished /\ HaveRead \subseteq Finished
    BY DEF LogInv, HaveRead, Appended
  <2>2. Lists(log, Appended) \/ Lists(log, HaveRead)
    BY DEF LogInv
  <2>3. Lists(log, Finished)
    <3> HIDE DEF Finished
    <3> QED
      BY <2>1, <2>2, ListsMore
  <2> QED
    BY <2>3 DEF Lists
<1> QED
  BY <1>1, LogInvariant, PTL

-----------------------------------------------------------------------------
(* What stays *)

\* The text log is only ever added to: no later append, and no death of the
\* process, takes an entry away or moves it (logging_middleware.js:94).
TextGrows ==
  /\ Len(text) <= Len(text')
  /\ \A i \in 1..Len(text) : text'[i] = text[i]

THEOREM LogTextGrows == Spec => [][TextGrows]_vars
<1>1. LogInv /\ [Next]_vars => [TextGrows]_vars
  <2> SUFFICES ASSUME LogInv, Next PROVE TextGrows
    BY DEF vars, files, TextGrows
  <2>1. text \in Seq(Entries)
    BY DEF LogInv, TypeOK
  <2>2. text' = text \/ \E r \in Entries : text' = Append(text, r)
    BY DEF Next, Operation, Failure, Crash, Die, Finish, AppendTxt, ReadJson, TruncateJson, WriteJson,
           AppendFails, UpdateGivenUp, WriteFails, files
  <2> QED
    BY <2>1, <2>2 DEF TextGrows
<1> QED
  BY <1>1, LogInvariant, PTL DEF Spec
-----------------------------------------------------------------------------
(* Spaced updates *)

\* A content is an array with the entries of all updates that are through.
Complete(content) ==
  /\ content # Broken
  /\ \A e \in Entries : jsonOp[e] = "done" => Contains(content, e)

\* As long as updates are spaced, there is at most one under way.  Until it
\* truncates the file, the file is complete; from the truncation on, what it will
\* write is, with its own entry.  An update that was cut off is under way for
\* good: nothing more is claimed of the file.
SpacedInv ==
  spaced =>
    /\ OneAtMost
    /\ \A e \in Entries : jsonOp[e] \in {"truncating", "writing"} =>
         /\ Complete(newData[e])
         /\ Contains(newData[e], e)
    /\ \A e \in Entries : jsonOp[e] = "writing" => json = <<>>
    /\ (\A e \in Entries : jsonOp[e] \notin {"writing", "lost"}) => Complete(json)

\* Appending an entry to a complete content.
LEMMA AppendContains ==
  ASSUME NEW c \in Seq(Entries), NEW r \in Entries
  PROVE  /\ Contains(Append(c, r), r)
         /\ \A q : Contains(c, q) => Contains(Append(c, r), q)
<1>1. /\ Len(c) \in Nat
      /\ Len(Append(c, r)) = Len(c) + 1
      /\ Append(c, r)[Len(c) + 1] = r
      /\ \A i \in 1..Len(c) : Append(c, r)[i] = c[i]
  OBVIOUS
<1> QED
  BY <1>1 DEF Contains

LEMMA InitSpacedInv == MCInit => SpacedInv
<1> SUFFICES ASSUME MCInit PROVE SpacedInv
  OBVIOUS
<1>1. \A e \in Entries : jsonOp[e] = "idle"
  BY DEF MCInit, Init
<1>2. json # Broken
  BY MarksDiffer, MarksAreNoEntries DEF MCInit, Init
<1> QED
  BY <1>1, <1>2 DEF SpacedInv, OneAtMost, UnderWay, Complete

\* An entry whose update is the only one: all the others are at rest.
LEMMA OthersAtRest ==
  ASSUME TypeOK, OneAtMost, NEW r \in Entries, UnderWay(r)
  PROVE  \A q \in Entries : q # r => jsonOp[q] \in {"idle", "done", "skipped"}
BY DEF TypeOK, OneAtMost, UnderWay

\* A listener that starts an update leaves a complete file as it is; one that
\* creates the file finds no update that is through, and leaves none behind it
\* unless it succeeds.
LEMMA FinishKeepsSpacedInv ==
  ASSUME LogInv, SpacedInv, NEW r \in Entries, Finish(r), spaced, OneAtMost'
  PROVE  SpacedInv'
<1> USE DEF LogInv
<1>0. /\ jsonOp[r] = "idle" /\ newData' = newData
      /\ (fileExists /\ StartUpdate(r)) \/ (~fileExists /\ Create(r))
  BY DEF Finish
<1>1. CASE fileExists /\ StartUpdate(r)
  <2>1. /\ json' = json /\ \A q \in Entries : jsonOp'[q] = IF q = r THEN "reading" ELSE jsonOp[q]
    BY <1>1 DEF StartUpdate, TypeOK
  <2>2. \A c : Complete(c)' <=> Complete(c)
    BY <1>0, <2>1 DEF Complete
  <2> QED
    BY <1>0, <2>1, <2>2 DEF SpacedInv
<1>2. CASE ~fileExists /\ Create(r)
  <2>1. \A q \in Entries : jsonOp[q] \in {"idle", "skipped", "lost"}
    BY <1>2 DEF TypeOK
  <2>2. CASE json' = <<r>> /\ jsonOp' = [jsonOp EXCEPT ![r] = "done"]
    <3>1. \A q \in Entries : jsonOp'[q] = IF q = r THEN "done" ELSE jsonOp[q]
      BY <2>2 DEF TypeOK
    <3>2. Contains(<<r>>, r)
      BY DEF Contains
    <3>3. json' # Broken
      BY <2>2, MarksDiffer, MarksAreNoEntries
    <3>4. Complete(json)'
      BY <2>1, <2>2, <3>1, <3>2, <3>3 DEF Complete
    <3> QED
      BY <2>1, <3>1, <3>4 DEF SpacedInv
  <2>3. CASE /\ json' \in {json, <<>>, Broken}
             /\ jsonOp' = [jsonOp EXCEPT ![r] = IF json' = Broken THEN "lost" ELSE "skipped"]
    <3>1. \A q \in Entries :
            jsonOp'[q] = IF q = r THEN (IF json' = Broken THEN "lost" ELSE "skipped") ELSE jsonOp[q]
      BY <2>3 DEF TypeOK
    <3>2. \A q \in Entries : jsonOp'[q] \in {"idle", "skipped", "lost"}
      BY <2>1, <3>1
    <3>3. json' = Broken => jsonOp'[r] = "lost"
      BY <3>1
    <3>4. (\A q \in Entries : jsonOp'[q] \notin {"writing", "lost"}) => Complete(json)'
      BY <3>2, <3>3 DEF Complete
    <3> QED
      BY <3>2, <3>4 DEF SpacedInv
  <2> QED
    BY <1>2, <2>2, <2>3 DEF Create
<1> QED
  BY <1>0, <1>1, <1>2

\* The steps of the update itself.
LEMMA OperationKeepsSpacedInv ==
  ASSUME LogInv, SpacedInv, NEW r \in Entries, Operation(r), spaced, OneAtMost'
  PROVE  SpacedInv'
<1> USE DEF LogInv
<1>0. OneAtMost
  BY DEF SpacedInv
<1>1. CASE AppendTxt(r)
  <2>1. UNCHANGED <<json, jsonOp, newData>>
    BY <1>1 DEF AppendTxt
  <2> QED
    BY <2>1 DEF SpacedInv, OneAtMost, UnderWay, Complete
<1>2. CASE ReadJson(r)
  <2>1. \A q \in Entries :
          /\ jsonOp'[q] = IF q = r THEN "truncating" ELSE jsonOp[q]
          /\ newData'[q] = IF q = r THEN WithEntry(json, r) ELSE newData[q]
    BY <1>2 DEF ReadJson, TypeOK
  <2>2. jsonOp[r] = "reading" /\ json # Absent
    BY <1>2 DEF ReadJson
  <2>3. \A q \in Entries : q # r => jsonOp[q] \in {"idle", "done", "skipped"}
    BY <1>0, <2>2, OthersAtRest DEF UnderWay
  <2>5. Complete(json)
    BY <2>2, <2>3 DEF SpacedInv
  <2>6. json \in Seq(Entries) /\ json # Broken
    BY <2>2, <2>5 DEF TypeOK, Contents, Complete
  <2>7. newData'[r] = Append(json, r) /\ Append(json, r) \in Seq(Entries)
    <3>1. WithEntry(json, r) = Append(json, r)
      BY <2>6 DEF WithEntry
    <3>2. Append(json, r) \in Seq(Entries)
      BY <2>6
    <3> QED
      BY <2>1, <3>1, <3>2
  <2>8. newData'[r] # Broken
    BY <2>7, MarksAreNoEntries
  <2>9. Contains(newData'[r], r) /\ \A q \in Entries : jsonOp'[q] = "done" => Contains(newData'[r], q)
    BY <2>1, <2>5, <2>6, <2>7, AppendContains DEF Complete
  <2>10. \A q \in Entries : q # r => jsonOp'[q] \in {"idle", "done", "skipped"}
    BY <2>1, <2>3
  <2>11. json' = json
    BY <1>2 DEF ReadJson, files
  <2>12. Complete(json)'
    BY <2>1, <2>2, <2>5, <2>11 DEF Complete
  <2>13. Complete(newData[r])' /\ Contains(newData'[r], r)
    BY <2>8, <2>9 DEF Complete
  <2> QED
    BY <2>1, <2>10, <2>12, <2>13 DEF SpacedInv
<1>3. CASE TruncateJson(r)
  <2>1. \A q \in Entries : jsonOp'[q] = IF q = r THEN "writing" ELSE jsonOp[q]
    BY <1>3 DEF TruncateJson, TypeOK
  <2>2. jsonOp[r] = "truncating" /\ json' = <<>> /\ newData' = newData
    BY <1>3 DEF TruncateJson
  <2>4. \A q \in Entries : q # r => jsonOp'[q] \in {"idle", "done", "skipped"}
    BY <1>0, <2>1, <2>2, OthersAtRest DEF UnderWay
  <2>5. Complete(newData[r]) /\ Contains(newData[r], r)
    BY <2>2 DEF SpacedInv
  <2>6. \A q \in Entries : jsonOp'[q] = "done" => Contains(newData'[r], q)
    BY <2>1, <2>2, <2>5 DEF Complete
  <2> QED
    BY <2>1, <2>2, <2>4, <2>5, <2>6 DEF SpacedInv, Complete
<1>4. CASE WriteJson(r)
  <2>1. \A q \in Entries : jsonOp'[q] = IF q = r THEN "done" ELSE jsonOp[q]
    BY <1>4 DEF WriteJson, TypeOK
  <2>2. jsonOp[r] = "writing"
    BY <1>4 DEF WriteJson
  <2>4. \A q \in Entries : jsonOp'[q] \in {"idle", "done", "skipped"}
    BY <1>0, <2>1, <2>2, OthersAtRest DEF UnderWay
  <2>5. json = <<>> /\ Complete(newData[r]) /\ Contains(newData[r], r)
    BY <2>2 DEF SpacedInv
  <2>6. json' = newData[r]
    BY <1>4, <2>5 DEF WriteJson, Overwritten
  <2>7. Complete(json)'
    BY <2>1, <2>5, <2>6 DEF Complete
  <2> QED
    BY <2>4, <2>7 DEF SpacedInv
<1> QED
  BY <1>1, <1>2, <1>3, <1>4 DEF Operation

\* An update that is given up has left the file alone; one that is cut off stays
\* under way.
LEMMA FailureKeepsSpacedInv ==
  ASSUME LogInv, SpacedInv, NEW r \in Entries, UpdateGivenUp(r) \/ WriteFails(r), spaced, OneAtMost'
  PROVE  SpacedInv'
<1> USE DEF LogInv
<1>1. CASE UpdateGivenUp(r)
  <2>1. /\ \A q \in Entries : jsonOp'[q] = IF q = r THEN "skipped" ELSE jsonOp[q]
        /\ UNCHANGED <<json, newData>> /\ jsonOp[r] \in {"reading", "truncating"}
    BY <1>1 DEF UpdateGivenUp, files, TypeOK
  <2>2. \A c : Complete(c)' <=> Complete(c)
    BY <2>1 DEF Complete
  <2>3. \A q \in Entries : q # r => jsonOp[q] \in {"idle", "done", "skipped"}
    BY <2>1, OthersAtRest DEF SpacedInv, UnderWay
  <2>4. Complete(json)'
    BY <2>1, <2>2, <2>3 DEF SpacedInv
  <2> QED
    BY <2>1, <2>3, <2>4 DEF SpacedInv
<1>2. CASE WriteFails(r)
  <2>1. \A q \in Entries : jsonOp'[q] = IF q = r THEN "lost" ELSE jsonOp[q]
    BY <1>2 DEF WriteFails, TypeOK
  <2>2. jsonOp[r] = "writing"
    BY <1>2 DEF WriteFails
  <2>3. \A q \in Entries : q # r => jsonOp[q] \in {"idle", "done", "skipped"}
    BY <2>2, OthersAtRest DEF SpacedInv, UnderWay
  <2> QED
    BY <2>1, <2>3 DEF SpacedInv
<1> QED
  BY <1>1, <1>2

LEMMA DieKeepsSpacedInv ==
  ASSUME LogInv, SpacedInv, Die, spaced, OneAtMost'
  PROVE  SpacedInv'
<1>1. \A q \in Entries :
        jsonOp'[q] = IF jsonOp[q] \in {"reading", "truncating", "writing"}
                     THEN "lost" ELSE jsonOp[q]
  BY DEF Die
<1>2. UNCHANGED <<json, newData>>
  BY DEF Die
<1>4. \A q \in Entries : jsonOp'[q] \notin {"truncating", "writing"}
  BY <1>1
<1>5. \A q \in Entries : jsonOp'[q] = "done" <=> jsonOp[q] = "done"
  BY <1>1
<1>6. ASSUME \A q \in Entries : jsonOp'[q] \notin {"writing", "lost"}
      PROVE  Complete(json)'
  <2>1. \A q \in Entries : jsonOp[q] \notin {"writing", "lost"}
    BY <1>1, <1>6
  <2> QED
    BY <2>1, <1>2, <1>5 DEF SpacedInv, Complete
<1> QED
  BY <1>4, <1>6 DEF SpacedInv

LEMMA MCNextKeepsSpacedInv ==
  LogInv /\ SpacedInv /\ [MCNext]_<<vars, spaced>> => SpacedInv'
<1> SUFFICES ASSUME LogInv, SpacedInv, [MCNext]_<<vars, spaced>>, spaced'
             PROVE  SpacedInv'
  BY DEF SpacedInv
<1>1. CASE UNCHANGED <<vars, spaced>>
  BY <1>1 DEF vars, files, SpacedInv, OneAtMost, UnderWay, Complete
<1>2. CASE MCNext
  <2>1. spaced /\ OneAtMost'
    BY <1>2 DEF MCNext
  <2>2. CASE Crash
    BY <2>1, <2>2, DieKeepsSpacedInv DEF Crash
  <2>3. ASSUME NEW e \in Entries, Finish(e) \/ Operation(e)
        PROVE  SpacedInv'
    BY <2>1, <2>3, FinishKeepsSpacedInv, OperationKeepsSpacedInv
  <2>4. ASSUME NEW e \in Entries, Failure(e)
        PROVE  SpacedInv'
    BY <2>1, <2>4, DieKeepsSpacedInv, FailureKeepsSpacedInv DEF Failure, AppendFails
  <2> QED
    BY <1>2, <2>2, <2>3, <2>4 DEF MCNext, Next
<1> QED
  BY <1>1, <1>2

\* Reading, extending and writing back loses nothing as long as no update starts
\* while another is under way: the JSON log is then an array with every entry whose
\* update succeeded, whether or not the file was there, and whatever fails
\* (logging_middleware.js:149).
THEOREM LogSpacedUpdatesKeepAll == MCSpec => []SpacedUpdatesKeepAll
<1>1. MCInit => LogInv /\ SpacedInv
  BY InitLogInv, InitSpacedInv DEF MCInit
<1>2. LogInv /\ SpacedInv /\ [MCNext]_<<vars, spaced>> => (LogInv /\ SpacedInv)'
  <2>1. [MCNext]_<<vars, spaced>> => [Next]_vars
    BY DEF MCNext, vars
  <2> QED
    BY <2>1, NextKeepsLogInv, MCNextKeepsSpacedInv
<1>3. SpacedInv => SpacedUpdatesKeepAll
  BY DEF SpacedInv, SpacedUpdatesKeepAll, JsonIsComplete, Quiet, Complete
<1> QED
  BY <1>1, <1>2, <1>3, PTL DEF MCSpec
=============================================================================
