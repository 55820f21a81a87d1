------------------------------ MODULE Requests ------------------------------
(* What a session of http_stream makes of a request by itself: how it is      *)
(* routed, what is refused, and what reaches the task services of a contract  *)
(* that is not.  All of it is a function of the request; what the calls come  *)
(* to is the matter of PriceScheduling, AccountTasks and Messaging.           *)
(* A target is the sequence of its segments after decoding, so that a segment *)
(* may hold a question mark; an optional key of a JSON object is the empty    *)
(* sequence or the sequence of its value; a symbol is its name, however it is *)
(* spelled; percentages are whole numbers.                                    *)
EXTENDS Integers, SequencesExt

CONSTANTS Word,      (* number of values of an unsigned word: 2^64 in the code, *)
                     (* where times are in milliseconds; seconds here           *)
          IntBound,  (* the first number beyond an int: 2^31 in the code        *)
          BeforeQuery, (* the segments considered that hold a question mark,    *)
                       (* each with what is before its first one                *)
          Requests,  (* the requests considered                                 *)
          None       (* no request                                              *)

ASSUME WordAssumption == Word \in Nat \ {0} /\ Word % 2 = 0
ASSUME IntAssumption == IntBound \in Nat
ASSUME NoneAssumption == None \notin Requests

(* What the JSON and URL parsers make of a request, if they make anything:    *)
(* the segments of the target are texts, and a price request that is complete *)
(* has a user and an array of contracts, whose keys have the types read here. *)
(* An interval may be any JSON value: a number, whole or not, counted in      *)
(* tenths here; a text, which has a number at its front or not, and something *)
(* after it or not; or something else.                                        *)
Intervals ==
    [kind : {"number"}, tenths : Int]
    \cup [kind : {"text"}, number : Seq(Int), rest : BOOLEAN]
    \cup [kind : {"other"}]
Contracts ==
    [symbols : Seq(STRING), exchange : STRING, trade : STRING, intervals : Seq(Intervals),
     duration : Seq(STRING), percentage : Seq(Int), direction : Seq(STRING)]
WellTyped(req) ==
    /\ req.target \in Seq(STRING)
    /\ req.body.kind = "prices" /\ req.body.complete =>
          req.body.user \in Seq(STRING) /\ req.body.contracts \in Seq(Contracts)
ASSUME RequestsAssumption == \A req \in Requests : WellTyped(req)

VARIABLES request,  (* m_thisRequest while it is answered, else None            *)
          answer    (* the response, and the call it waits for                  *)

(* A segment, a text or an id with nothing in it.                             *)
Empty == ""

(* The enumerations, in their order; the value after the last is total or     *)
(* invalid.                                                                   *)
Exchanges == <<"binance", "kucoin", "okex">>
TradeTypes == <<"futures", "spot", "swap">>
Directions == <<"up", "down">>
Durations == <<"seconds", "minutes", "hours", "days", "weeks">>

EnumOf(names, str) ==
    IF Contains(names, str) THEN (CHOOSE i \in DOMAIN names : names[i] = str) - 1
                            ELSE Len(names)
NameOf(names, value) == IF value < Len(names) THEN names[value + 1] ELSE "unknown"

(* Spellings that differ by capitals (to_lower_copy) and by number.           *)
Capitals == [Binance |-> "binance", Spot |-> "spot", Up |-> "up", Hours |-> "hours"]
Singulars == [future |-> "futures", second |-> "seconds", minute |-> "minutes",
              hour |-> "hours", day |-> "days", week |-> "weeks"]
Lower(str) == IF str \in DOMAIN Capitals THEN Capitals[str] ELSE str
Plural(str) == IF str \in DOMAIN Singulars THEN Singulars[str] ELSE str

stringToExchange(str) == EnumOf(Exchanges, str)
stringToTradeType(str) == EnumOf(TradeTypes, IF str = "future" THEN "futures" ELSE str)
stringToPriceDirection(str) == EnumOf(Directions, str)
stringToDurationUnit(str) == EnumOf(Durations, Plural(Lower(str)))
-----------------------------------------------------------------------------
(* milliseconds_from_string returns a signed count as an unsigned one; the    *)
(* timer of time_tasks takes it as signed again.                              *)
UnitSeconds == <<1, 60, 3600, 86400, 604800>>
milliseconds_from_string(duration, t) ==
    IF duration < Len(Durations) THEN (t * UnitSeconds[duration + 1]) % Word ELSE 0
TimerDelay(timeMS) == IF 2 * timeMS < Word THEN timeMS ELSE timeMS - Word

Abs(n) == IF n < 0 THEN -n ELSE n
Clamped(n) == IF n > 100 THEN 100 ELSE IF n < -100 THEN -100 ELSE n

(* A scheduled_price_task_t.  timeProp and percentProp are std::optional.     *)
Task(c, timeProp, percentProp) ==
    [tokens |-> c.symbols, exchange |-> stringToExchange(c.exchange),
     trade |-> stringToTradeType(c.trade), timeProp |-> timeProp, percentProp |-> percentProp]

(* The interval as a number_integer_t, if it can be had: get() drops what a   *)
(* float has after the point, and stoi() what a text has after its number; it *)
(* throws without a number, or with one beyond an int, as get() does if the   *)
(* value is no text at all.                                                   *)
Truncated(tenths) == IF tenths < 0 THEN -((-tenths) \div 10) ELSE tenths \div 10
IntervalRead(v) ==
    CASE v.kind = "number" -> {Truncated(v.tenths)}
      [] v.kind = "text" /\ v.number # << >> -> {v.number[1]} \cap (-IntBound..(IntBound - 1))
      [] OTHER -> {}

(* A contract with an interval is a time task, whatever else it says.  The    *)
(* result is empty when the whole request is answered 400.                    *)
TimeTask(c) ==
    LET duration == stringToDurationUnit(c.duration[1])
        times == {milliseconds_from_string(duration, t) : t \in IntervalRead(c.intervals[1])}
    IN  IF c.duration = << >> THEN {}
        ELSE {Task(c, <<[timeMS |-> timeMS, duration |-> duration]>>, << >>) :
                 timeMS \in times \ {0}}

Signed(percentage, direction) ==
    IF direction = EnumOf(Directions, "down") THEN -Abs(percentage) ELSE Abs(percentage)
ProgressTask(c) ==
    LET direction == stringToPriceDirection(Lower(c.direction[1]))
    IN  IF c.direction = << >> \/ direction = Len(Directions) \/ c.percentage[1] = 0 THEN {}
        ELSE {Task(c, << >>, <<[percentage |-> Signed(c.percentage[1], direction),
                                direction |-> direction]>>)}

Parsed(c) == IF c.intervals # << >> THEN TimeTask(c)
             ELSE IF c.percentage # << >> THEN ProgressTask(c)
             ELSE {Task(c, << >>, << >>)}

(* The faulty variant takes contracts that name a token twice.                *)
PassedWithoutUnique(task) ==
    /\ task.tokens # << >>
    /\ task.timeProp # << >> \/ task.percentProp # << >>
    /\ task.exchange # Len(Exchanges) /\ task.trade # Len(TradeTypes)
passed_valid_task_check(task) ==
    /\ task.tokens # << >>
    /\ task.timeProp # << >> \/ task.percentProp # << >>
    /\ task.exchange # Len(Exchanges) /\ task.trade # Len(TradeTypes)
    /\ IsInjective(task.tokens)

(* The tuple that goes over D-Bus, which service it goes to, and what that    *)
(* service reads from it.  The ids and the state travel along unchanged.      *)
Wire(task) ==
    IF task.percentProp # << >>
    THEN [service |-> "progress",
          fields |-> <<Clamped(task.percentProp[1].percentage), task.percentProp[1].direction,
                       task.trade, task.exchange, task.tokens>>]
    ELSE [service |-> "time",
          fields |-> <<task.timeProp[1].timeMS, task.timeProp[1].duration,
                       task.trade, task.exchange, task.tokens>>]

Received(wire) ==
    [service |-> wire.service,
     amount |-> IF wire.service = "time" THEN TimerDelay(wire.fields[1]) ELSE wire.fields[1],
     trade |-> NameOf(TradeTypes, wire.fields[3]),
     exchange |-> NameOf(Exchanges, wire.fields[4]),
     tokens |-> ToSet(wire.fields[5])]

(* A request is answered 400 at its first contract that cannot be read; its   *)
(* contracts are scheduled only if all of them pass.                          *)
Readable(contracts) == \A i \in DOMAIN contracts : Parsed(contracts[i]) # {}
Accepted(contracts) ==
    \A i \in DOMAIN contracts : \A task \in Parsed(contracts[i]) : passed_valid_task_check(task)
-----------------------------------------------------------------------------
(* The routes.  A special route has as many placeholders as params says.      *)
Route(name, params, verb, json, handler) ==
    [name |-> name, params |-> params, verb |-> verb, json |-> json, handler |-> handler]
Routes ==
    {Route("add_account_monitoring", 0, "post", TRUE, "account"),
     Route("add_pricing_tasks", 0, "post", TRUE, "prices"),
     Route("stop_price_tasks", 0, "post", TRUE, "stop"),
     Route("all_price_tasks", 0, "get", FALSE, "all"),
     Route("new_telegram_message", 1, "post", TRUE, "text"),
     Route("new_telegram_registration_code", 2, "put", TRUE, "code"),
     Route("new_telegram_registration_password", 2, "put", TRUE, "password"),
     Route("list_price_tasks", 1, "get", FALSE, "list"),
     Route("latest_price", 3, "get", FALSE, "latest"),
     Route("trading_pairs", 1, "get", FALSE, "pairs")}

(* Trailing slashes are dropped before anything else.                         *)
Trimmed(target) ==
    LET ends == {i \in DOMAIN target : target[i] # Empty}
    IN  SubSeq(target, 1, CHOOSE n \in 0..Len(target) :
                              /\ n \in ends \cup {0}
                              /\ \A i \in ends : i <= n)

ASSUME QueryAssumption ==
    \A text \in {Empty} \cup {route.name : route \in Routes} : text \notin DOMAIN BeforeQuery

(* The path is what is before the first question mark, encoded or not.        *)
Path(target) ==
    LET cuts == {i \in DOMAIN target : target[i] \in DOMAIN BeforeQuery}
        first == Min(cuts)
    IN  IF cuts = {} THEN target
        ELSE [SubSeq(target, 1, first) EXCEPT ![first] = BeforeQuery[@]]

(* get_rules, which looks the path up as it is; and get_special_rules, which  *)
(* drops its trailing slashes: the prefix and a segment for each placeholder. *)
Fits(route, path) ==
    IF route.params = 0 THEN path = <<route.name>>
    ELSE Len(Trimmed(path)) = 1 + route.params /\ Trimmed(path)[1] = route.name

(* An answer: its status, the call to another process it waits for, and the   *)
(* user whose tasks it is about.  A user id is the sequence of the segments   *)
(* it makes in a target; the empty one stands for all users.  A batch that is *)
(* refused is answered 200.                                                   *)
Answer(status) == [status |-> status, call |-> "none", user |-> << >>]
Call(name, user) == [status |-> "ok", call |-> name, user |-> user]
OkIf(good) == IF good THEN Answer("ok") ELSE Answer("bad")
CallIf(good, name, user) == IF good THEN Call(name, user) ELSE Answer("bad")

AddNewPricingTasks(body) ==
    IF ~Readable(body.contracts) THEN Answer("bad")
    ELSE IF ~Accepted(body.contracts) THEN Answer("refused")
    ELSE Call("prices", body.user)

MonitorUserAccount(body) ==
    CallIf(/\ stringToExchange(body.exchange) # Len(Exchanges)
           /\ body.exchange = "kucoin" => stringToTradeType(body.trade) # Len(TradeTypes)
           /\ body.task # Empty, "account", << >>)

(* A body that lacks a key, or has one of the wrong type, is not complete.    *)
Understood(handler, body) == body.kind = handler /\ body.complete

(* ids: the values of the placeholders; Numbers: chat ids std::stoll reads.   *)
Numbers == {"0", "7"}
RunHandler(handler, ids, body) ==
    IF handler \in {"prices", "stop", "account", "text"} /\ ~Understood(handler, body)
    THEN Answer("bad")
    ELSE CASE handler = "prices"  -> AddNewPricingTasks(body)
           [] handler = "stop"    -> Call("stop", body.user)
           [] handler = "account" -> MonitorUserAccount(body)
           [] handler = "text"    -> CallIf(/\ body.content # Empty
                                            /\ ids[1] \in Numbers \ {"0"}, "text", << >>)
           [] handler \in {"code", "password"} -> Call(handler, << >>)
           [] handler = "list"    -> Call("list", ids)
           [] handler = "all"     -> Call("list", << >>)
           [] handler = "latest"  -> OkIf(/\ stringToExchange(Lower(ids[1])) # Len(Exchanges)
                                          /\ stringToTradeType(Lower(ids[2])) # Len(TradeTypes))
           [] handler = "pairs"   -> OkIf(stringToExchange(Lower(ids[1])) # Len(Exchanges))

(* handle_requests and the two route callbacks.  The faulty variant asks for  *)
(* the content type of no request.                                            *)
JsonUnchecked(route, type) == TRUE
TypeFits(route, type) == route.json => type = "json"

handle_requests(req) ==
    LET target == Trimmed(req.target)
        path == Path(target)
        fitting == {route \in Routes : Fits(route, path)}
        route == CHOOSE r \in fitting : TRUE
    IN  IF target = << >> \/ fitting = {} THEN Answer("not found")
        ELSE IF req.verb = "options" THEN Answer("ok")
        ELSE IF req.verb # route.verb THEN Answer("not allowed")
        ELSE IF ~TypeFits(route, req.type) THEN Answer("bad")
        ELSE RunHandler(route.handler, Tail(Trimmed(path)), req.body)

Init == request = None /\ answer = Answer("none")

Receive(r) ==
    /\ request = None
    /\ request' = r
    /\ answer' = handle_requests(r)

(* on_data_written: the response is out, and the session reads on.            *)
ReadOn ==
    /\ request # None
    /\ request' = None
    /\ answer' = Answer("none")

Next == (\E r \in Requests : Receive(r)) \/ ReadOn

Spec == Init /\ [][Next]_<<request, answer>>
-----------------------------------------------------------------------------
(* What a client may expect, stated without the code's conversions.           *)
SecondsIn == [second |-> 1, seconds |-> 1, minute |-> 60, minutes |-> 60, hour |-> 3600,
              hours |-> 3600, Hours |-> 3600, day |-> 86400, days |-> 86400,
              week |-> 604800, weeks |-> 604800]
TradeNamed == [future |-> "futures", futures |-> "futures", spot |-> "spot", swap |-> "swap"]
Direction == [up |-> 1, Up |-> 1, down |-> -1]
Known(names, optional) == optional # << >> /\ optional[1] \in DOMAIN names
NonZero(optional) == optional # << >> /\ optional[1] # 0

(* What an interval says, in tenths, if it is a number from end to end.       *)
Said(v) == CASE v.kind = "number" -> <<v.tenths>>
             [] v.kind = "text" /\ ~v.rest /\ v.number # << >> -> <<10 * v.number[1]>>
             [] OTHER -> << >>
SaidBy(c) == IF c.intervals = << >> THEN << >> ELSE Said(c.intervals[1])

Sound(c) ==
    /\ c.symbols # << >> /\ Cardinality(ToSet(c.symbols)) = Len(c.symbols)
    /\ c.exchange \in {"binance", "kucoin", "okex"}
    /\ c.trade \in DOMAIN TradeNamed
    /\ \/ NonZero(SaidBy(c)) /\ Known(SecondsIn, c.duration)
       \/ c.intervals = << >> /\ NonZero(c.percentage) /\ Known(Direction, c.direction)

(* Three kinds of intervals are accepted and become delays nobody asked for:  *)
(* those that are negative, those too long for a word, and texts that only    *)
(* begin with a number.  They are left out.                                   *)
InRange(c) ==
    c.intervals # << >> /\ Known(SecondsIn, c.duration) =>
        /\ SaidBy(c) # << >>
        /\ SaidBy(c)[1] \in 0..(10 * ((Word - 1) \div (2 * SecondsIn[c.duration[1]])))

(* Three kinds may be refused though they make sense: less than one unit, a   *)
(* text that is beyond an int, and too long for a word even without its sign, *)
(* of which nothing may be left there.                                        *)
Refusable(c) ==
    /\ SaidBy(c) # << >> /\ Known(SecondsIn, c.duration)
    /\ \/ Abs(SaidBy(c)[1]) < 10
       \/ c.intervals[1].kind = "text" /\ Abs(SaidBy(c)[1]) >= 10 * IntBound
       \/ Abs(SaidBy(c)[1]) * SecondsIn[c.duration[1]] >= 10 * Word

(* What a service works with against what its contract said.  A delay is the  *)
(* one asked for, in seconds, if it was a whole number of units, and less     *)
(* than one unit short of it otherwise.  A change is the one asked for, its   *)
(* sign being that of the direction, if it was 100 percent at most; a larger  *)
(* one is watched for as one of 100 percent, without a word to the user.      *)
AsAsked(c, got) ==
    /\ got.service = IF c.intervals = << >> THEN "progress" ELSE "time"
    /\ got.trade = TradeNamed[c.trade]
    /\ got.exchange = c.exchange
    /\ got.tokens = ToSet(c.symbols)
    /\ c.intervals # << >> =>
          LET unit == SecondsIn[c.duration[1]]
              said == SaidBy(c)[1]
          IN  /\ 10 * got.amount <= said * unit /\ said * unit < 10 * (got.amount + unit)
              /\ said % 10 = 0 => 10 * got.amount = said * unit
    /\ c.intervals = << >> =>
          LET sign == Direction[c.direction[1]]
              size == Abs(c.percentage[1])
          IN  /\ size <= 100 => got.amount = sign * size
              /\ size > 100 => got.amount = sign * 100

(* A complete request to schedule is refused only if a contract of it makes   *)
(* no sense or is of a kind that may be refused.  Of one that is scheduled,   *)
(* each contract in range makes sense, and what a service then works with, at *)
(* the end of parsing, conversion, clamping and the D-Bus tuples with their   *)
(* numbered enumerations, is as it was asked for.                             *)
ScheduledAsAsked ==
    request # None =>
        /\ answer.call = "prices" =>
              \A c \in ToSet(request.body.contracts) : InRange(c) =>
                 Sound(c) /\ \A task \in Parsed(c) : AsAsked(c, Received(Wire(task)))
        /\ /\ request.target = <<"add_pricing_tasks">>
           /\ request.verb = "post" /\ request.type = "json"
           /\ Understood("prices", request.body)
           /\ answer.call # "prices"
           => \E c \in ToSet(request.body.contracts) : ~Sound(c) \/ Refusable(c)

Listing(user) == [target |-> <<"list_price_tasks">> \o user, verb |-> "get", type |-> "text",
                  body |-> [kind |-> "none"]]

(* No two routes fit one target.  Only a request with the verb and the        *)
(* content type of its route calls a service to change anything, and then     *)
(* with every key it needs; and a user whose id is one segment can list what  *)
(* he has scheduled (one with a slash in his id, or an empty one, cannot, and *)
(* one with a question mark in it is shown the tasks of somebody else).       *)
RoutedAsMeant ==
    request # None =>
        /\ Cardinality({route \in Routes : Fits(route, Path(Trimmed(request.target)))}) <= 1
        /\ answer.call \notin {"none", "list"} =>
              /\ request.verb \in {"post", "put"}
              /\ request.type = "json"
              /\ request.verb = "post" => request.body.complete
        /\ answer.call = "list" => request.verb = "get"
        /\ /\ answer.call = "prices" /\ Len(answer.user) = 1
           /\ answer.user[1] \notin {Empty} \cup DOMAIN BeforeQuery
           => handle_requests(Listing(answer.user)) = Call("list", answer.user)
-----------------------------------------------------------------------------
(* For the proofs: a request is as its parsers leave it, and its answer is    *)
(* made from it alone, by handle_requests.                                    *)
IInv == request # None => WellTyped(request) /\ answer = handle_requests(request)
=============================================================================
