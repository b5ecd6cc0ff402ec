------------------------------ MODULE MCMonitors ------------------------------
(* Monitors for TLC: the files are the templates below with any of their    *)
(* keys left out.  "[title]" has 3 bytes, 4 for "[process]"; values have 0  *)
(* to 5, numbers at most 2.                                                 *)
EXTENDS Monitors

Header(title) ==
    [title |-> title, key |-> <<None, 0>>, len |-> 0, int |-> 0, value |-> "", comment |-> FALSE]
Pair(name, n, len, int, value) ==
    [title |-> None, key |-> <<name, n>>, len |-> len, int |-> int, value |-> value, comment |-> FALSE]
Commented(line) == [line EXCEPT !.comment = TRUE]

\* With LF lines Linux loses the last byte of a value: 90 is read as 9, 10 as 1, and
\* 6 as 0; names are cut.  Keys that are parts of others, a key commented out, and
\* [ndb] without num before [process], whose process_num contains it.
Linux ==
    <<Header("service"), Pair("port", 0, 2, 66, ""),
      Header("monitortype"), Pair("type", 1, 1, 9, ""), Pair("type", 1, 2, 90, ""), Pair("type", 2, 2, 6, ""),
      Header("ndb"), Pair("num", 0, 2, 10, ""), Pair("name", 1, 5, 0, "c"),
      Header("process"), Commented(Pair("process_num", 0, 1, 1, "")), Pair("process_num", 0, 1, 2, ""),
      Pair("process_name", 10, 4, 0, "c"), Pair("process_name", 1, 3, 0, "a"),
      Pair("process_name", 2, 5, 0, "b")>>

\* The shipped file's [mysql] has no dbcount; more databases than there is room
\* for; types that are configured twice.
Windows ==
    <<Header("service"), Pair("port", 0, 0, 0, ""),
      Header("monitortype"), Pair("type", 1, 1, 3, ""), Pair("type", 2, 1, 2, ""), Pair("type", 2, 1, 3, ""),
      Header("mysql"), Pair("connectonstr", 1, 0, 0, ""),
      Header("mssql"), Pair("dbcount", 0, 1, 2, ""), Pair("dbcount", 0, 1, 1, ""),
      Pair("data_source", 1, 2, 0, "c"), Pair("data_base", 1, 5, 0, "d")>>

\* [web] reads its names from [system].
Web ==
    <<Header("monitortype"), Pair("type", 1, 1, 5, ""), Pair("type", 2, 1, 1, ""), Pair("type", 2, 1, 6, ""),
      Header("system"), Pair("counter_num", 0, 1, 1, ""), Pair("counter_name", 1, 4, 0, "c"),
      Header("web"), Pair("counter_num", 0, 1, 2, ""), Pair("counter_name", 1, 2, 0, "d"),
      Header("process"), Pair("process_num", 0, 1, 1, ""), Pair("process_name", 1, 3, 0, "b")>>
Sysinfo == <<Header("monitortype"), Pair("type", 2, 1, 7, "")>>

Keys(f) == {i \in 1 .. Len(f) : f[i].title = None}
Keeping(f, K) ==
    LET kept == SelectSeq([i \in 1 .. Len(f) |-> i], LAMBDA i : i \in K \/ i \notin Keys(f))
    IN  [k \in 1 .. Len(kept) |-> f[kept[k]]]

SomeFiles == UNION {{Keeping(f, K) : K \in SUBSET Keys(f)} : f \in {Linux, Windows, Web, Sysinfo}}
SomeLines == UNION {{f[i] : i \in 1 .. Len(f)} : f \in {Linux, Windows, Web, Sysinfo}}
SomeNameInside ==
    {<<"num", "counter_num">>, <<"num", "process_num">>,
     <<"name", "counter_name">>, <<"name", "process_name">>, <<"name", "user_name">>}
SomeTitleLen ==
    [t \in {"service", "monitortype", "ndb", "process", "mysql", "mssql", "system", "web"} |->
       IF t = "process" THEN 4 ELSE 3]
=============================================================================
