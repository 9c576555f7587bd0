------------------------------ MODULE MCPredictCommands ------------------------------
(***************************************************************************)
(* An instance of PredictCommands with an input for every way to be wrong, and       *)
(* series whose lengths, with their forecast, are on both sides of the shortest that   *)
(* can be analysed and of the first with a wider window.                            *)
(***************************************************************************)
EXTENDS PredictCommands

Numbers(values) == List([i \in DOMAIN values |-> Number(values[i])])

File(fields) == [text |-> "object", fields |-> fields]

Unreadable == {[text |-> t] : t \in {"absent", "undecodable", "not_json", "not_object"}}

FaultyLists ==
  {Null, List(<<>>), List(<<Number(1), NaN>>), List(<<Bool>>), List(<<Number(1), Huge>>),
   List(<<NaN, Huge>>), List(<<Text("1")>>)}

MCSeriesFiles ==
  Unreadable
    \cup {File([series |-> Numbers(v)]) : v \in {<<4>>, <<5, 5, 5>>, <<1, 2, 1, 2, 9, 9, 8>>}}
    \cup {File([series |-> Numbers(<<3>>), metadata |-> m]) : m \in {Null, Object([unit |-> Null]), Bool}}
    \cup {File([metadata |-> Null])}
    \cup {File([series |-> v]) : v \in FaultyLists}

Item(name, values) == Object([name |-> Text(name), values |-> values])
Good(name)         == Item(name, Numbers(<<1, 2>>))

MCBatchFiles ==
  {[text |-> "undecodable"], [text |-> "not_json"], File([metadata |-> Null])}
    \cup {File([series |-> List(v)]) :
            v \in {<<>>, <<Good("a"), Null>>, <<Good("a"), Good("a")>>, <<Good("")>>,
                   <<Good("a"), Object([name |-> Text("b")])>>, <<Object([values |-> Numbers(<<1>>)])>>}
                  \cup {<<Good("a"), Item("b", l)>> : l \in FaultyLists}
                  \cup {<<Good("a"), Good("b"), Good("c")>>, <<Good("a")>>}}

MCTypedSeries == {Numbers(<<1, 2>>)} \cup {List(<<Number(1), v>>) : v \in {NaN, Huge, Text("")}}

MCForecasts == {<<5>>, <<9, 1>>}

\* Workers may fail with any text, also with one that reads like the client's own.
MCWorkerMessages == {{}, {"worker prediction timed out"}, {"daemon prediction timed out"}}
=============================================================================
