----------------------------- MODULE MCRequests -----------------------------
(* Instances of Requests: every route with good and bad placeholders, verbs,  *)
(* types and bodies, and contracts with every combination of good, bad and    *)
(* missing keys.  A week counts 604800 seconds: with a word of 2^22 three     *)
(* weeks are in range, seven wrap around, and 2^22 seconds come to nothing.   *)
(* Half a unit is refused, one and a half become one; 99 is beyond an int.    *)
(* Four of the segments hold a question mark.                                 *)
EXTENDS Requests

Optional(S) == {<< >>} \cup {<<x>> : x \in S}

Number(tenths) == [kind |-> "number", tenths |-> tenths]
Text(number, rest) == [kind |-> "text", number |-> number, rest |-> rest]
Contract(intervals, durations, percentages, directions) ==
    [symbols : {<< >>, <<"BTC">>, <<"BTC", "BTC">>},
     exchange : {"okex", "Binance"}, trade : {"future", "Spot"}, intervals : intervals,
     duration : durations, percentage : percentages, direction : directions]
AllContracts ==
    Contract(Optional({Number(n) : n \in {-10, 0, 5, 10, 15, 30, 70}}
                      \cup {Text(<<3>>, FALSE), Text(<<3>>, TRUE), Text(<<99>>, FALSE),
                            Text(<< >>, TRUE), [kind |-> "other"]}),
             Optional({"seconds", "Hours", "week", "never"}),
             Optional({5}), {<<"Up">>})
    \cup Contract({<< >>}, {<< >>, <<"week">>},
                  Optional({-150, 0, 5, 100}), Optional({"Up", "down", "sideways"}))
Weekly == [symbols |-> <<"BTC", "ETH">>, exchange |-> "binance", trade |-> "swap",
           intervals |-> <<Number(10)>>, duration |-> <<"weeks">>, percentage |-> << >>, direction |-> << >>]
Twice == [Weekly EXCEPT !.symbols = <<"BTC", "BTC">>]
Endless == [Weekly EXCEPT !.intervals = <<Number(10 * Word)>>, !.duration = <<"seconds">>]
Unreadable == [Weekly EXCEPT !.duration = << >>]

PriceBody(user, contracts) ==
    [kind |-> "prices", complete |-> TRUE, user |-> user, contracts |-> contracts]
Bodies ==
    {PriceBody(user, <<Weekly>>) : user \in {<<"ann">>, <<"ann", "bob">>, <<"">>, <<"ann?x">>}}
    \cup {PriceBody(<<"ann">>, contracts) :
             contracts \in {<< >>, <<Weekly, Twice>>, <<Weekly, Unreadable>>}}
    \cup {[PriceBody(<<"ann">>, << >>) EXCEPT !.complete = FALSE]}
    \cup [kind : {"stop"}, complete : BOOLEAN, user : {<<"ann">>}]
    \cup [kind : {"account"}, complete : BOOLEAN, exchange : {"kucoin", "okex", "Binance"},
          trade : {"spot", "margin"}, task : {"", "id1"}]
    \cup [kind : {"text"}, complete : BOOLEAN, content : {"", "hello"}]

Request(target, verb, type, body) ==
    [target |-> target, verb |-> verb, type |-> type, body |-> body]
Cut == [s \in {"ann?x", "?x", "list_price_tasks?x", "add_pricing_tasks?x"} |->
           CASE s = "ann?x" -> "ann"
             [] s = "?x" -> ""
             [] s = "list_price_tasks?x" -> "list_price_tasks"
             [] s = "add_pricing_tasks?x" -> "add_pricing_tasks"]
Names == {route.name : route \in Routes} \cup {"", "unknown"} \cup DOMAIN Cut
Ids == UNION {[1..n -> {"", "Binance", "spot", "7", "ann?x"}] : n \in 0..2}
       \cup [1..3 -> {"", "Binance", "spot", "?x"}]
Verbs == {"get", "post", "put", "options"}
Types == {"json", "text"}

SampleRequests ==
    {Request(<<"add_pricing_tasks">>, "post", "json", PriceBody(<<"ann">>, <<c>>)) :
        c \in AllContracts \cup {Endless}}
    \cup {Request(<<name>> \o ids, verb, "json", [kind |-> "none", complete |-> FALSE]) :
             name \in Names, ids \in Ids, verb \in Verbs}
    \cup {Request(<<name>> \o ids, verb, type, body) :
             name \in Names, ids \in {<< >>, <<"7">>, <<"0">>, <<"7", "?x">>}, verb \in Verbs,
             type \in Types, body \in Bodies}
=============================================================================
