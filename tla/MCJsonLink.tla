----------------------------- MODULE MCJsonLink -----------------------------
(* Bodies with one and with two fields, with an array, and empty; whole;   *)
(* the first with a brace, a quote or the colon lost, each cut inside or   *)
(* outside a string; in frames for this chip; frames for another chip,     *)
(* responses, and a damaged header.                                        *)
(* The record is the real one, with digits in the widths of a load that    *)
(* was just switched on and of one that runs.                              *)
EXTENDS JsonLink, SequencesExt

S(c) == <<"string", <<c>>>>
One == <<"object", << <<<<"I">>, S("5")>> >>>>
Two == <<"object", << <<<<"I">>, S("5")>>, <<<<"V">>, S("6")>> >>>>
Nest == <<"object", << <<<<"V">>, <<"array", <<<<"scalar", "7">>, S("6")>>>>>> >>>>
Empty == <<"object", <<>>>>
MCTrees == {One, Two, Nest, Empty}

Header(chip, id) == <<"<", chip, ",", id, ">">>
Cuts(text, places) == {SubSeq(text, 1, k) : k \in places}
Losses(text, places) == {RemoveAt(text, k) : k \in places}
Damaged == Cuts(Render(One), {3, 7}) \union Losses(Render(One), {1, 2, 5, 8, 9})
             \union Cuts(Render(Two), {12}) \union Cuts(Render(Nest), {8})

MCLines ==
  {Header("local", "101") \o body : body \in {Render(tree) : tree \in MCTrees} \union Damaged}
    \union {Header("other", "101") \o Render(Two), Header("other", "200") \o Render(Two),
            Header("other", "200") \o <<"{">>, Header("local", "101") \o <<"Q", "5">>, Tail(Header("local", "102")) \o Render(One)}
MCBufLen == 24
MCNested == 24

MCScalars == {"7", "#1", "#2", "#3", "#4", "#5", "#6"}
MCTokens == {"{", "}", "[", "]", ",", ":", "Q", "NUL", "7", "#1", "#2", "#3", "#4", "#5", "#6",
 "<", ">", "local", "other", "101", "102", "200", "I", "V", "5", "6", "IDLE", "CC",
             "seq", "uptime", "mode", "fault", "dac", "retry", "temp", "fan_rpm", "fan_stall",
             "ch", "sum", "v", "i", "p"}
MCWidths == [token \in {"#2", "#3", "#4", "#5", "#6", "seq", "uptime", "mode", "fault",
                        "dac", "retry", "temp", "fan_rpm", "fan_stall", "ch", "sum",
                        "IDLE", "CC"} |->
  CASE token \in {"#2", "ch", "CC"} -> 2
    [] token \in {"#3", "seq", "dac", "sum"} -> 3
    [] token \in {"#4", "mode", "temp", "IDLE"} -> 4
    [] token \in {"#5", "fault", "retry"} -> 5
    [] token \in {"#6", "uptime"} -> 6
    [] token = "fan_rpm" -> 7
    [] token = "fan_stall" -> 9]

SwitchedOn == [seq |-> "#1", uptime |-> "#1", mode |-> "IDLE", fault |-> "#1", dac |-> "#1",
               retry |-> "#1", temp |-> "#2", fan_rpm |-> "#1", fan_stall |-> "#1",
               v |-> "#1", i |-> "#1", p |-> "#1"]
Running == [seq |-> "#3", uptime |-> "#6", mode |-> "CC", fault |-> "#4", dac |-> "#5",
            retry |-> "#1", temp |-> "#4", fan_rpm |-> "#4", fan_stall |-> "#1",
            v |-> "#4", i |-> "#4", p |-> "#4"]
MCReadings == {SwitchedOn, Running}
MCPools == {104, 4096}
MCRealPool == {4096}
=============================================================================
