----------------------------- MODULE RequestLog -----------------------------
(***************************************************************************)
(* The two request logs of src/API/logging_middleware.js.  When a response *)
(* finishes, its entry is appended to performance_log.txt, and             *)
(* performance_log.json is read, extended in memory and written back.      *)
(* Node's fs runs these operations in a thread pool: operations of         *)
(* different entries overlap, and writeFile truncates the file some time   *)
(* before it writes it.  Each of them may fail.                            *)
(*                                                                         *)
(* A request to the alias /get_role goes through app._router.handle a      *)
(* second time, and so through both middlewares (server.js:39-40, 503-507):*)
(* its response has two 'finish' listeners of each, hence two entries.     *)
(* An entry is its request and the pass that made it; the JSON file is the *)
(* sequence of its entries, the mark Broken when its bytes are no JSON     *)
(* array, or Absent.                                                       *)
(***************************************************************************)
EXTENDS Naturals, SequencesExt

CONSTANTS
  Requests,     \* the requests whose responses finish, once each
  Aliased,      \* those sent to the alias
  MaxCrashes,   \* bound: how often the server process is killed
  MaxFailures,  \* bound: how many file operations fail
  Absent,       \* the JSON file does not exist
  Broken        \* the JSON file holds something that is no JSON array

Entries == (Requests \X {1}) \cup (Aliased \X {2})

ASSUME AliasedAreRequests == Aliased \subseteq Requests
ASSUME BoundsAreNatural == MaxCrashes \in Nat /\ MaxFailures \in Nat
ASSUME MarksAreNoEntries ==
  /\ Absent \notin Seq(Entries)
  /\ Broken \notin Seq(Entries)
  /\ Absent # Broken

VARIABLES
  text,        \* the entries of performance_log.txt
  json,        \* the content of performance_log.json
  fileExists,  \* the module's cached answer to "does the JSON file exist?"
  txtOp,       \* where the txt append of each entry stands
  jsonOp,      \* where the json update of each entry stands
  newData,     \* what each pending json update will write
  turn,        \* the entry whose listeners are still to run in this turn
  crashes, failures

files == <<text, json, fileExists>>
vars  == <<files, txtOp, jsonOp, newData, turn, crashes, failures>>

Contents == Seq(Entries) \cup {Broken}

Init ==
  /\ text = <<>>
  /\ json \in {Absent, <<>>}
  /\ fileExists = (json # Absent)
  /\ txtOp = [e \in Entries |-> "idle"]
  /\ jsonOp = [e \in Entries |-> "idle"]
  /\ newData = [e \in Entries |-> <<>>]
  /\ turn = {}
  /\ crashes = 0 /\ failures = 0

\* Mutated: the content read is not kept.
WithEntryAlone(content, e) == IF content = Broken THEN Broken ELSE <<e>>

\* Mutated: the entry is added twice.
WithEntryTwice(content, e) ==
  IF content = Broken THEN Broken ELSE content \o <<e, e>>

\* The bytes without the closing bracket, then ",entry]": a broken file stays
\* broken; an empty one is started over.
WithEntry(content, e) == IF content = Broken THEN Broken ELSE Append(content, e)

\* A file operation fails.
Fails == failures < MaxFailures /\ failures' = failures + 1

-----------------------------------------------------------------------------
(* The listeners of a response, in one turn of the event loop *)

\* Mutated: fileExists is set before the file is written.
CreateHastily(e) ==
  /\ fileExists' = TRUE
  /\ \/ /\ json' = <<e>>
        /\ jsonOp' = [jsonOp EXCEPT ![e] = "done"]
        /\ UNCHANGED failures
     \/ /\ Fails
        /\ json' \in {json, <<>>, Broken}
        /\ jsonOp' = [jsonOp EXCEPT ![e] = IF json' = Broken THEN "lost" ELSE "skipped"]

\* writeFileSync makes the file on the spot.  When it fails, before it has opened
\* the file or while it writes it, the next response tries again.
Create(e) ==
  \/ /\ json' = <<e>>
     /\ fileExists' = TRUE
     /\ jsonOp' = [jsonOp EXCEPT ![e] = "done"]
     /\ UNCHANGED failures
  \/ /\ Fails
     /\ json' \in {json, <<>>, Broken}
     /\ jsonOp' = [jsonOp EXCEPT ![e] = IF json' = Broken THEN "lost" ELSE "skipped"]
     /\ UNCHANGED fileExists

StartUpdate(e) ==
  /\ jsonOp' = [jsonOp EXCEPT ![e] = "reading"]
  /\ UNCHANGED <<json, fileExists, failures>>

\* Both 'finish' listeners of one pass: the txt append and the json read are
\* started, unless the json file is to be created.  The listeners of the second
\* pass run in the same turn, right after those of the first.
Finish(e) ==
  /\ txtOp[e] = "idle"
  /\ IF turn = {} THEN e[2] = 1 ELSE e \in turn
  /\ turn' = {<<q, 2>> : q \in {e[1]} \cap Aliased} \ {e}
  /\ txtOp' = [txtOp EXCEPT ![e] = "appending"]
  /\ \/ fileExists /\ StartUpdate(e)
     \/ ~fileExists /\ Create(e)
  /\ UNCHANGED <<text, newData, crashes>>

-----------------------------------------------------------------------------
(* What the thread pool does, and the callbacks, each in a turn of its own *)

\* The process dies and is started again: what was under way is gone, and the
\* module looks for the file afresh.
Die ==
  /\ txtOp' = [e \in Entries |-> IF txtOp[e] = "appending" THEN "lost" ELSE txtOp[e]]
  /\ jsonOp' = [e \in Entries |->
                  IF jsonOp[e] \in {"reading", "truncating", "writing"} THEN "lost" ELSE jsonOp[e]]
  /\ fileExists' = (json # Absent)
  /\ turn' = {}
  /\ UNCHANGED <<text, json, newData>>

\* Mutated: the entry replaces the file.
OverwriteTxt(e) ==
  /\ txtOp[e] = "appending"
  /\ text' = <<e>>
  /\ txtOp' = [txtOp EXCEPT ![e] = "done"]
  /\ UNCHANGED <<json, fileExists, jsonOp, newData, turn, crashes, failures>>

\* fs.appendFile: one write at the end of the file.
AppendTxt(e) ==
  /\ txtOp[e] = "appending"
  /\ text' = Append(text, e)
  /\ txtOp' = [txtOp EXCEPT ![e] = "done"]
  /\ UNCHANGED <<json, fileExists, jsonOp, newData, turn, crashes, failures>>

\* An append that fails throws in its callback, which nothing catches.
AppendFails(e) ==
  /\ txtOp[e] = "appending" /\ turn = {}
  /\ Fails
  /\ Die
  /\ UNCHANGED crashes

\* fs.readFile and its callback, which starts fs.writeFile.
ReadJson(e) ==
  /\ jsonOp[e] = "reading" /\ turn = {}
  /\ json # Absent
  /\ newData' = [newData EXCEPT ![e] = WithEntry(json, e)]
  /\ jsonOp' = [jsonOp EXCEPT ![e] = "truncating"]
  /\ UNCHANGED <<files, txtOp, turn, crashes, failures>>

\* writeFile opens the file, which empties it ...
TruncateJson(e) ==
  /\ jsonOp[e] = "truncating"
  /\ json' = <<>>
  /\ jsonOp' = [jsonOp EXCEPT ![e] = "writing"]
  /\ UNCHANGED <<text, fileExists, txtOp, newData, turn, crashes, failures>>

\* The file cannot be read, or not be opened for writing: the update is given up.
UpdateGivenUp(e) ==
  /\ \/ jsonOp[e] = "reading" /\ turn = {}
     \/ jsonOp[e] = "truncating"
  /\ Fails
  /\ jsonOp' = [jsonOp EXCEPT ![e] = "skipped"]
  /\ UNCHANGED <<files, txtOp, newData, turn, crashes>>

\* ... and writes from the start.  Whatever another writer put there in the
\* meantime shows behind shorter new content; entries differ in length, so of
\* two contents with as many entries either may be the longer, and new content
\* may or may not cover all of a broken one.
Overwritten(old, new) ==
  IF old = <<>> \/ new = Broken THEN {new}
  ELSE IF old = Broken THEN {new, Broken}
  ELSE IF Len(new) > Len(old) THEN {new}
  ELSE IF Len(new) = Len(old) THEN {new, Broken}
  ELSE {Broken}

WriteJson(e) ==
  /\ jsonOp[e] = "writing"
  /\ json' \in Overwritten(json, newData[e])
  /\ jsonOp' = [jsonOp EXCEPT ![e] = "done"]
  /\ UNCHANGED <<text, fileExists, txtOp, newData, turn, crashes, failures>>

\* A write that fails has written nothing, or a part.
WriteFails(e) ==
  /\ jsonOp[e] = "writing"
  /\ Fails
  /\ json' \in {json, Broken}
  /\ jsonOp' = [jsonOp EXCEPT ![e] = "lost"]
  /\ UNCHANGED <<text, fileExists, txtOp, newData, turn, crashes>>

Crash ==
  /\ crashes < MaxCrashes
  /\ crashes' = crashes + 1
  /\ Die
  /\ UNCHANGED failures

Operation(e) == AppendTxt(e) \/ ReadJson(e) \/ TruncateJson(e) \/ WriteJson(e)

Failure(e) == AppendFails(e) \/ UpdateGivenUp(e) \/ WriteFails(e)

Next == Crash \/ \E e \in Entries : Finish(e) \/ Operation(e) \/ Failure(e)

\* A turn runs to its end, and the thread pool completes what it was given.
Fairness ==
  /\ WF_vars(\E e \in turn : Finish(e))
  /\ \A e \in Entries : WF_vars(Operation(e))

Spec == Init /\ [][Next]_vars /\ Fairness

-----------------------------------------------------------------------------
(* Properties *)

\* fileExists, read once when the module is loaded and kept by hand since, never
\* claims a file that is not there, a failed creation included: it would make
\* every later update fail.
TypeOK ==
  /\ text \in Seq(Entries)
  /\ json \in Contents \cup {Absent}
  /\ fileExists \in BOOLEAN
  /\ fileExists => json # Absent
  /\ txtOp \in [Entries -> {"idle", "appending", "done", "lost"}]
  /\ jsonOp \in [Entries -> {"idle", "reading", "truncating", "writing", "done", "skipped", "lost"}]
  /\ newData \in [Entries -> Contents]
  /\ turn \subseteq Entries
  /\ crashes \in Nat /\ failures \in Nat

IsSet(s) == \A i, j \in DOMAIN s : s[i] = s[j] => i = j

\* However updates overlap, fail or are cut off, no log has an entry twice, or one
\* of a response that has not finished, neither on disk nor in an update still to
\* be written: a response is logged once for each time its request went through
\* the middlewares, which is twice for the alias.
NothingInvented ==
  \A log \in {text} \cup {newData[e] : e \in Entries} \cup {json} :
    log \in {Absent, Broken}
      \/ (IsSet(log) /\ \A i \in DOMAIN log : txtOp[log[i]] # "idle")

\* The append-only text log gets an entry from every listener that ran, in
\* whatever order, and keeps it, unless the process dies first.
TextIsComplete ==
  \A e \in Entries :
    txtOp[e] = "appending" ~> ([]Contains(text, e) \/ txtOp[e] = "lost")

\* No update is under way, and none was cut off by a crash or a failing write.
Quiet ==
  \A e \in Entries : txtOp[e] # "appending" /\ jsonOp[e] \in {"idle", "done", "skipped"}

\* logging_middleware.js:99 ("Middleware para ... registrar logs en formato
\* JSON"): once every started update is through, the file is a JSON array and
\* each entry whose update succeeded is in it.
JsonIsComplete ==
  Quiet =>
    /\ json # Broken
    /\ \A e \in Entries : jsonOp[e] = "done" => Contains(json, e)
=============================================================================
