----------------------------- MODULE GraphMaker -----------------------------
(***************************************************************************)
(* What src/API/graphs/graph_maker.py makes of the request log: which      *)
(* entries it keeps, which it draws as one line of a plot and which it     *)
(* averages into one row of the statistics.  An entry is a record with the *)
(* fields of the log that these decisions read; its route is the path with *)
(* its parameter.  Parsing of the text, units, the averages themselves and *)
(* drawing are left out.                                                   *)
(***************************************************************************)
EXTENDS Naturals, FiniteSets

\* Entries with 'transactionSuccess' == 'Yes', and all queries.
Kept(entry) == entry.transactionSuccess \/ entry.method = "GET"

\* Mutated: the parameters of a path are kept.
get_base_route_full(route) == route

\* Variable parts of a path are dropped.
get_base_route(route) == [path |-> route.path, param |-> 0]

parse_data(log) ==
  {[e EXCEPT !.route = get_base_route(@)] : e \in {f \in log : Kept(f)}}

\* Dictionaries of lists: the entries of data with the same key.
Groups(data, Key(_)) == {{e \in data : Key(e) = Key(f)} : f \in data}

\* main draws the plots route by route.
Routes(data) == {e.route : e \in data}

RouteData(data, route) == {e \in data : e.route = route}

\* The lines of a route's plots against request numbers ...
TransactionKey(entry) == <<entry.testType, entry.totalTransactions, entry.route>>

TransactionLines(data, route) == Groups(RouteData(data, route), TransactionKey)

\* ... and against time, whose key has no route.
TimeKey(entry) == <<entry.testType, entry.totalTransactions>>

TimeLines(data, route) == Groups(RouteData(data, route), TimeKey)

\* The rows of statistics_summary.csv.
generate_statistics_table(data) ==
  UNION {Groups(RouteData(data, route), LAMBDA e : e.testType) : route \in Routes(data)}

\* What names the tests it is about, by their type.
Labelled(data) ==
  generate_statistics_table(data)
    \cup UNION {TransactionLines(data, route) \cup TimeLines(data, route) : route \in Routes(data)}

\* One line with the gas of all requests of a route, in the order of the file.
plot_gas_consumption(data, route) == RouteData(data, route)

\* The means of transaction_cost_per_length_stats_post.csv.
plot_transaction_cost_vs_length(data) == {e \in data : e.method = "POST"}

\* The number of entries in each minute.
calculate_transaction_speed(data) == data

\* All that main makes of the log, as sets of entries.
Output(data) ==
  Labelled(data)
    \cup {plot_gas_consumption(data, route) : route \in Routes(data)}
    \cup {plot_transaction_cost_vs_length(data), calculate_transaction_speed(data)}
=============================================================================
