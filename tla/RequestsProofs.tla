--------------------------- MODULE RequestsProofs ---------------------------
(* Proofs about Requests, for any requests the parsers can make and words of  *)
(* any size: what http_stream schedules is what was asked for, and a request  *)
(* changes something only if it is routed as its client meant.                *)
EXTENDS Requests, FiniteSetTheorems, SequenceTheorems, TLAPS

(* A word holds what fits in it.                                              *)
LEMMA Modulo == ASSUME NEW n \in 0..(Word - 1)
                PROVE  n % Word = n
  BY WordAssumption

(* What leaves nothing of itself in a word is no word long, or nothing.       *)
LEMMA Multiples == ASSUME NEW n \in Int, n # 0, n % Word = 0
                   PROVE  Abs(n) >= Word
<1>1. CASE n > 0
  BY <1>1, Modulo, WordAssumption DEF Abs
<1>2. CASE n < 0
  BY <1>2, WordAssumption DEF Abs
<1> QED
  BY <1>1, <1>2

-----------------------------------------------------------------------------
(* The enumerations.  A name becomes a number, and again the same name.       *)
Enumerates(names) == Len(names) \in Nat /\ DOMAIN names = 1..Len(names)

LEMMA RoundTrip ==
    ASSUME NEW names, Enumerates(names), NEW str
    PROVE  /\ Contains(names, str) =>
                 /\ EnumOf(names, str) \in 0..(Len(names) - 1)
                 /\ names[EnumOf(names, str) + 1] = str
                 /\ NameOf(names, EnumOf(names, str)) = str
           /\ ~Contains(names, str) => EnumOf(names, str) = Len(names)
<1>1. CASE ~Contains(names, str)
  BY <1>1 DEF EnumOf
<1>2. CASE Contains(names, str)
  <2> DEFINE i == CHOOSE i \in DOMAIN names : names[i] = str
  <2>1. \E k \in DOMAIN names : names[k] = str
    BY <1>2 DEF Contains, Enumerates
  <2>2. i \in 1..Len(names) /\ names[i] = str
    BY <2>1 DEF Enumerates
  <2>3. EnumOf(names, str) = i - 1
    BY <1>2 DEF EnumOf
  <2> HIDE DEF i
  <2> QED
    BY <1>2, <2>2, <2>3 DEF NameOf, Enumerates
<1> QED
  BY <1>1, <1>2

LEMMA Names ==
    /\ Len(Exchanges) = 3 /\ Enumerates(Exchanges)
    /\ \A str : Contains(Exchanges, str) <=> str \in {"binance", "kucoin", "okex"}
    /\ Len(TradeTypes) = 3 /\ Enumerates(TradeTypes)
    /\ \A str : Contains(TradeTypes, str) <=> str \in {"futures", "spot", "swap"}
    /\ Len(Directions) = 2 /\ Enumerates(Directions)
    /\ \A str : Contains(Directions, str) <=> str \in {"up", "down"}
    /\ Len(Durations) = 5 /\ Enumerates(Durations)
    /\ \A str : Contains(Durations, str) <=>
                   str \in {"seconds", "minutes", "hours", "days", "weeks"}
<1>1. /\ Len(Exchanges) = 3 /\ Enumerates(Exchanges)
      /\ \A str : Contains(Exchanges, str) <=> str \in {"binance", "kucoin", "okex"}
  <2>1. /\ Len(Exchanges) = 3 /\ DOMAIN Exchanges = 1..3
        /\ Exchanges[1] = "binance" /\ Exchanges[2] = "kucoin" /\ Exchanges[3] = "okex"
    BY DEF Exchanges
  <2>2. \A i : i \in 1..3 <=> i \in {1, 2, 3}
    OBVIOUS
  <2> QED
    BY <2>1, <2>2 DEF Contains, Enumerates
<1>2. /\ Len(TradeTypes) = 3 /\ Enumerates(TradeTypes)
      /\ \A str : Contains(TradeTypes, str) <=> str \in {"futures", "spot", "swap"}
  <2>1. /\ Len(TradeTypes) = 3 /\ DOMAIN TradeTypes = 1..3
        /\ TradeTypes[1] = "futures" /\ TradeTypes[2] = "spot" /\ TradeTypes[3] = "swap"
    BY DEF TradeTypes
  <2>2. \A i : i \in 1..3 <=> i \in {1, 2, 3}
    OBVIOUS
  <2> QED
    BY <2>1, <2>2 DEF Contains, Enumerates
<1>3. /\ Len(Directions) = 2 /\ Enumerates(Directions)
      /\ \A str : Contains(Directions, str) <=> str \in {"up", "down"}
  <2>1. /\ Len(Directions) = 2 /\ DOMAIN Directions = 1..2
        /\ Directions[1] = "up" /\ Directions[2] = "down"
    BY DEF Directions
  <2>2. \A i : i \in 1..2 <=> i \in {1, 2}
    OBVIOUS
  <2> QED
    BY <2>1, <2>2 DEF Contains, Enumerates
<1>4. /\ Len(Durations) = 5 /\ Enumerates(Durations)
      /\ \A str : Contains(Durations, str) <=>
                     str \in {"seconds", "minutes", "hours", "days", "weeks"}
  <2>1. /\ Len(Durations) = 5 /\ DOMAIN Durations = 1..5
        /\ Durations[1] = "seconds" /\ Durations[2] = "minutes" /\ Durations[3] = "hours"
        /\ Durations[4] = "days" /\ Durations[5] = "weeks"
    BY DEF Durations
  <2>2. \A i : i \in 1..5 <=> i \in {1, 2, 3, 4, 5}
    OBVIOUS
  <2> QED
    BY <2>1, <2>2 DEF Contains, Enumerates
<1> QED
  BY <1>1, <1>2, <1>3, <1>4

LEMMA ExchangeRead ==
    ASSUME NEW str
    PROVE  /\ stringToExchange(str) # Len(Exchanges) <=> str \in {"binance", "kucoin", "okex"}
           /\ stringToExchange(str) # Len(Exchanges) =>
                 NameOf(Exchanges, stringToExchange(str)) = str
<1>1. Contains(Exchanges, str) <=> str \in {"binance", "kucoin", "okex"}
  BY Names
<1>2. /\ Contains(Exchanges, str) =>
            /\ EnumOf(Exchanges, str) \in 0..(Len(Exchanges) - 1)
            /\ NameOf(Exchanges, EnumOf(Exchanges, str)) = str
      /\ ~Contains(Exchanges, str) => EnumOf(Exchanges, str) = Len(Exchanges)
  BY Names, RoundTrip
<1> QED
  BY <1>1, <1>2, Names DEF stringToExchange

LEMMA TradeRead ==
    ASSUME NEW str
    PROVE  /\ stringToTradeType(str) # Len(TradeTypes) <=> str \in DOMAIN TradeNamed
           /\ stringToTradeType(str) # Len(TradeTypes) =>
                 NameOf(TradeTypes, stringToTradeType(str)) = TradeNamed[str]
<1> DEFINE name == IF str = "future" THEN "futures" ELSE str
<1>1. Contains(TradeTypes, name) <=> name \in {"futures", "spot", "swap"}
  BY Names
<1>2. name \in {"futures", "spot", "swap"} <=> str \in DOMAIN TradeNamed
  BY DEF TradeNamed
<1>3. str \in DOMAIN TradeNamed => TradeNamed[str] = name
  BY DEF TradeNamed
<1>4. stringToTradeType(str) = EnumOf(TradeTypes, name)
  BY DEF stringToTradeType
<1> HIDE DEF name
<1>5. /\ Contains(TradeTypes, name) =>
            /\ EnumOf(TradeTypes, name) \in 0..(Len(TradeTypes) - 1)
            /\ NameOf(TradeTypes, EnumOf(TradeTypes, name)) = name
      /\ ~Contains(TradeTypes, name) => EnumOf(TradeTypes, name) = Len(TradeTypes)
  BY Names, RoundTrip
<1> QED
  BY <1>1, <1>2, <1>3, <1>4, <1>5, Names

LEMMA DirectionRead ==
    ASSUME NEW str
    PROVE  LET direction == stringToPriceDirection(Lower(str))
           IN  /\ direction # Len(Directions) <=> str \in DOMAIN Direction
               /\ str \in DOMAIN Direction =>
                     Direction[str] = IF direction = EnumOf(Directions, "down") THEN -1 ELSE 1
<1> DEFINE name == Lower(str)
<1>1. name \in {"up", "down"} <=> str \in DOMAIN Direction
  BY DEF Lower, Capitals, Direction
<1>2. str \in DOMAIN Direction => Direction[str] = IF name = "down" THEN -1 ELSE 1
  BY DEF Lower, Capitals, Direction
<1> HIDE DEF name
<1>3. ASSUME NEW n
      PROVE  /\ Contains(Directions, n) <=> n \in {"up", "down"}
             /\ Contains(Directions, n) =>
                   /\ EnumOf(Directions, n) \in 0..(Len(Directions) - 1)
                   /\ Directions[EnumOf(Directions, n) + 1] = n
             /\ ~Contains(Directions, n) => EnumOf(Directions, n) = Len(Directions)
  <2>1. Contains(Directions, n) <=> n \in {"up", "down"}
    BY Names
  <2>2. Len(Directions) = 2 /\ Enumerates(Directions)
    BY Names
  <2>3. /\ Contains(Directions, n) =>
              /\ EnumOf(Directions, n) \in 0..(Len(Directions) - 1)
              /\ Directions[EnumOf(Directions, n) + 1] = n
        /\ ~Contains(Directions, n) => EnumOf(Directions, n) = Len(Directions)
    BY <2>2, RoundTrip
  <2> QED
    BY <2>1, <2>2, <2>3
<1>4. stringToPriceDirection(name) # Len(Directions) <=> name \in {"up", "down"}
  <2>1. Len(Directions) = 2
    BY Names
  <2> QED
    BY <2>1, <1>3 DEF stringToPriceDirection
<1>5. name \in {"up", "down"} =>
         (stringToPriceDirection(name) = EnumOf(Directions, "down") <=> name = "down")
  BY <1>3 DEF stringToPriceDirection
<1> QED
  BY <1>1, <1>2, <1>4, <1>5, Names DEF name

LEMMA DurationRead ==
    ASSUME NEW str
    PROVE  /\ stringToDurationUnit(str) < Len(Durations) <=> str \in DOMAIN SecondsIn
           /\ stringToDurationUnit(str) < Len(Durations) =>
                 UnitSeconds[stringToDurationUnit(str) + 1] = SecondsIn[str]
<1> DEFINE name == Plural(Lower(str))
           i == EnumOf(Durations, name) + 1
<1>1. name \in {"seconds", "minutes", "hours", "days", "weeks"} <=> str \in DOMAIN SecondsIn
  BY DEF Plural, Lower, Capitals, Singulars, SecondsIn
<1>2. /\ str \in DOMAIN SecondsIn /\ name = "seconds" => SecondsIn[str] = 1
      /\ str \in DOMAIN SecondsIn /\ name = "minutes" => SecondsIn[str] = 60
      /\ str \in DOMAIN SecondsIn /\ name = "hours" => SecondsIn[str] = 3600
      /\ str \in DOMAIN SecondsIn /\ name = "days" => SecondsIn[str] = 86400
      /\ str \in DOMAIN SecondsIn /\ name = "weeks" => SecondsIn[str] = 604800
  BY DEF Plural, Lower, Capitals, Singulars, SecondsIn
<1>3. stringToDurationUnit(str) = EnumOf(Durations, name)
  BY DEF stringToDurationUnit
<1> HIDE DEF name
<1>4. /\ Contains(Durations, name) <=> name \in {"seconds", "minutes", "hours", "days", "weeks"}
      /\ Contains(Durations, name) =>
            EnumOf(Durations, name) \in 0..(Len(Durations) - 1) /\ Durations[i] = name
      /\ ~Contains(Durations, name) => EnumOf(Durations, name) = Len(Durations)
  BY Names, RoundTrip
<1>5. Len(Durations) = 5
  BY Names
<1>6. stringToDurationUnit(str) < Len(Durations) <=> str \in DOMAIN SecondsIn
  BY <1>1, <1>3, <1>4, <1>5
<1>7. str \in DOMAIN SecondsIn => i \in 1..5 /\ Durations[i] = name
  BY <1>1, <1>4, <1>5
<1>8. str \in DOMAIN SecondsIn => UnitSeconds[i] = SecondsIn[str]
  BY <1>2, <1>7 DEF Durations, UnitSeconds
<1> QED
  BY <1>3, <1>6, <1>8

-----------------------------------------------------------------------------
(* A list names nothing twice if it names as many things as it is long.       *)
LEMMA NoRepetition ==
    ASSUME NEW S, NEW seq \in Seq(S)
    PROVE  IsInjective(seq) <=> Cardinality(ToSet(seq)) = Len(seq)
<1> DEFINE D == 1..Len(seq)
           T == ToSet(seq)
<1>1. Len(seq) \in Nat /\ DOMAIN seq = D
  OBVIOUS
<1>2. seq \in Surjection(D, T)
  BY <1>1 DEF Surjection, ToSet
<1>3. IsFiniteSet(D) /\ Cardinality(D) = Len(seq)
  BY <1>1, FS_Interval
<1>4. Cardinality(T) = Cardinality(D) <=> seq \in Injection(D, T)
  BY <1>2, <1>3, FS_Surjection
<1>5. seq \in Injection(D, T) <=> IsInjective(seq)
  BY <1>1, <1>2 DEF Injection, Surjection
<1> QED
  BY <1>3, <1>4, <1>5

(* What is left of a contract that was read.                                  *)
LEMMA ReadsAll ==
    ASSUME NEW c, NEW task \in Parsed(c)
    PROVE  /\ task.tokens = c.symbols
           /\ task.exchange = stringToExchange(c.exchange)
           /\ task.trade = stringToTradeType(c.trade)
           /\ task.timeProp # << >> <=> c.intervals # << >>
           /\ task.percentProp # << >> <=> c.intervals = << >> /\ c.percentage # << >>
<1>1. CASE c.intervals # << >>
  <2>1. PICK timeProp : task = Task(c, <<timeProp>>, << >>)
    BY <1>1 DEF Parsed, TimeTask
  <2> QED
    BY <1>1, <2>1 DEF Task
<1>2. CASE c.intervals = << >> /\ c.percentage # << >>
  <2>1. PICK percentProp : task = Task(c, << >>, <<percentProp>>)
    BY <1>2 DEF Parsed, ProgressTask
  <2> QED
    BY <1>2, <2>1 DEF Task
<1>3. CASE c.intervals = << >> /\ c.percentage = << >>
  BY <1>3 DEF Parsed, Task
<1> QED
  BY <1>1, <1>2, <1>3

(* The service works on what the contract names, if it passes the checks.     *)
LEMMA PassesOn ==
    ASSUME NEW c, NEW task \in Parsed(c), c.intervals # << >> \/ c.percentage # << >>
    PROVE  /\ passed_valid_task_check(task) <=>
                 /\ c.symbols # << >> /\ IsInjective(c.symbols)
                 /\ c.exchange \in {"binance", "kucoin", "okex"}
                 /\ c.trade \in DOMAIN TradeNamed
           /\ passed_valid_task_check(task) =>
                 /\ Received(Wire(task)).trade = TradeNamed[c.trade]
                 /\ Received(Wire(task)).exchange = c.exchange
                 /\ Received(Wire(task)).tokens = ToSet(c.symbols)
<1>1. passed_valid_task_check(task) <=>
         /\ c.symbols # << >> /\ IsInjective(c.symbols)
         /\ c.exchange \in {"binance", "kucoin", "okex"}
         /\ c.trade \in DOMAIN TradeNamed
  BY ReadsAll, ExchangeRead, TradeRead DEF passed_valid_task_check
<1>2. /\ Wire(task).fields[3] = stringToTradeType(c.trade)
      /\ Wire(task).fields[4] = stringToExchange(c.exchange)
      /\ Wire(task).fields[5] = c.symbols
      /\ Wire(task).service \in {"time", "progress"}
  BY ReadsAll DEF Wire
<1> QED
  BY <1>1, <1>2, ExchangeRead, TradeRead DEF Received

(* Tenths without what is after the point.                                    *)
LEMMA Truncation ==
    ASSUME NEW n \in Int
    PROVE  /\ Truncated(n) \in Int /\ Truncated(10 * n) = n
           /\ n >= 0 => /\ Truncated(n) >= 0
                        /\ 10 * Truncated(n) <= n /\ n < 10 * Truncated(n) + 10
                        /\ n % 10 = 0 => 10 * Truncated(n) = n
           /\ 10 * Abs(Truncated(n)) <= Abs(n)
           /\ Truncated(n) = 0 => Abs(n) < 10
  BY DEF Truncated, Abs

(* What is read of an interval that is a number.                              *)
LEMMA ReadAsSaid ==
    ASSUME NEW v \in Intervals, Said(v) # << >>
    PROVE  /\ Said(v)[1] \in Int
           /\ IntervalRead(v) \subseteq {Truncated(Said(v)[1])}
           /\ \/ IntervalRead(v) = {Truncated(Said(v)[1])}
              \/ v.kind = "text" /\ Abs(Said(v)[1]) >= 10 * IntBound
<1>1. CASE v.kind = "number"
  <2>1. v.tenths \in Int
    BY <1>1 DEF Intervals
  <2> QED
    BY <1>1, <2>1 DEF Said, IntervalRead
<1>2. CASE v.kind = "text"
  <2> DEFINE n == v.number[1]
  <2>1. ~v.rest /\ v.number # << >> /\ v.number \in Seq(Int)
    BY <1>2 DEF Said, Intervals
  <2>2. n \in Int
    BY <2>1
  <2>3. Said(v) = <<10 * n>> /\ IntervalRead(v) = {n} \cap (-IntBound..(IntBound - 1))
    BY <1>2, <2>1 DEF Said, IntervalRead
  <2> HIDE DEF n
  <2>4. n \in -IntBound..(IntBound - 1) \/ Abs(10 * n) >= 10 * IntBound
    BY <2>2, IntAssumption DEF Abs
  <2>5. Truncated(10 * n) = n
    BY <2>2, Truncation
  <2>6. Said(v)[1] = 10 * n /\ 10 * n \in Int
    BY <2>2, <2>3
  <2> QED
    BY <1>2, <2>3, <2>4, <2>5, <2>6
<1>3. CASE v.kind = "other"
  BY <1>3 DEF Said
<1> QED
  BY <1>1, <1>2, <1>3 DEF Intervals

LEMMA Units ==
    ASSUME NEW c, Known(SecondsIn, c.duration)
    PROVE  SecondsIn[c.duration[1]] \in {1, 60, 3600, 86400, 604800}
  BY DEF Known, SecondsIn

(* A contract with an interval.                                               *)
LEMMA TimeRead ==
    ASSUME NEW c \in Contracts, c.intervals # << >>
    PROVE  LET secs == SecondsIn[c.duration[1]]
           IN  /\ \A task \in Parsed(c) : \E t \in IntervalRead(c.intervals[1]) :
                     /\ Known(SecondsIn, c.duration)
                     /\ (t * secs) % Word # 0
                     /\ Wire(task).service = "time"
                     /\ Wire(task).fields[1] = (t * secs) % Word
               /\ Parsed(c) = {} /\ Known(SecondsIn, c.duration) =>
                     \A t \in IntervalRead(c.intervals[1]) : (t * secs) % Word = 0
<1> DEFINE v == c.intervals[1]
           duration == stringToDurationUnit(c.duration[1])
           secs == SecondsIn[c.duration[1]]
           times == {milliseconds_from_string(duration, t) : t \in IntervalRead(v)}
<1>1. Known(SecondsIn, c.duration) <=> c.duration # << >> /\ duration < Len(Durations)
  BY DurationRead DEF Known
<1>2. \A t : milliseconds_from_string(duration, t) =
                IF duration < Len(Durations) THEN (t * secs) % Word ELSE 0
  BY DurationRead DEF milliseconds_from_string
<1>3. Parsed(c) = IF c.duration = << >> THEN {}
                  ELSE {Task(c, <<[timeMS |-> timeMS, duration |-> duration]>>, << >>) :
                           timeMS \in times \ {0}}
  BY DEF Parsed, TimeTask
<1>4. \A timeMS : LET task == Task(c, <<[timeMS |-> timeMS, duration |-> duration]>>, << >>)
                  IN  Wire(task).service = "time" /\ Wire(task).fields[1] = timeMS
  BY DEF Task, Wire
<1> HIDE DEF v, duration, secs
<1>5. ASSUME NEW task \in Parsed(c)
      PROVE  \E t \in IntervalRead(v) :
                /\ Known(SecondsIn, c.duration)
                /\ (t * secs) % Word # 0
                /\ Wire(task).service = "time"
                /\ Wire(task).fields[1] = (t * secs) % Word
  <2>1. PICK timeMS \in times \ {0} :
           task = Task(c, <<[timeMS |-> timeMS, duration |-> duration]>>, << >>)
    BY <1>3
  <2>2. PICK t \in IntervalRead(v) : timeMS = milliseconds_from_string(duration, t)
    BY <2>1
  <2>3. duration < Len(Durations) /\ c.duration # << >> /\ timeMS = (t * secs) % Word
    BY <1>2, <1>3, <2>1, <2>2
  <2> QED
    BY <1>1, <1>4, <2>1, <2>2, <2>3
<1>6. ASSUME Parsed(c) = {}, Known(SecondsIn, c.duration), NEW t \in IntervalRead(v)
      PROVE  (t * secs) % Word = 0
  <2>1. times \ {0} = {}
    BY <1>1, <1>3, <1>6
  <2> QED
    BY <1>1, <1>2, <1>6, <2>1
<1> QED
  BY <1>5, <1>6 DEF v, secs

(* A number of units that a word holds, and one that leaves nothing in it.    *)
LEMMA DelayKept ==
    ASSUME NEW unit \in {1, 60, 3600, 86400, 604800}, NEW t \in Int,
           t >= 0, t <= (Word - 1) \div (2 * unit)
    PROVE  TimerDelay((t * unit) % Word) = t * unit
<1>1. t * unit \in 0..(Word - 1) /\ 2 * (t * unit) < Word
  BY WordAssumption
<1> DEFINE delay == t * unit
<1> HIDE DEF delay
<1>2. TimerDelay(delay % Word) = delay
  BY <1>1, Modulo DEF TimerDelay, delay
<1> QED
  BY <1>2 DEF delay

LEMMA NothingLeft ==
    ASSUME NEW unit \in {1, 60, 3600, 86400, 604800}, NEW t \in Int
    PROVE  /\ t = 0 => (t * unit) % Word = 0
           /\ (t * unit) % Word = 0 => t = 0 \/ Abs(t) * unit >= Word
<1>1. ASSUME t = 0
      PROVE  (t * unit) % Word = 0
  BY <1>1, WordAssumption
<1>2. ASSUME (t * unit) % Word = 0, t # 0
      PROVE  Abs(t) * unit >= Word
  <2> DEFINE x == t * unit
  <2>1. x \in Int /\ x # 0 /\ Abs(t) * unit = Abs(x)
    BY <1>2 DEF Abs
  <2> HIDE DEF x
  <2>2. x % Word = 0
    BY <1>2 DEF x
  <2>3. Abs(x) >= Word
    BY <2>1, <2>2, Multiples
  <2> QED
    BY <2>1, <2>3
<1> QED
  BY <1>1, <1>2

(* A contract with a percentage.                                              *)
LEMMA ProgressRead ==
    ASSUME NEW c \in Contracts, c.intervals = << >>, c.percentage # << >>
    PROVE  /\ Parsed(c) # {} <=> NonZero(c.percentage) /\ Known(Direction, c.direction)
           /\ \A task \in Parsed(c) :
                 /\ Wire(task).service = "progress"
                 /\ Wire(task).fields[1] = Direction[c.direction[1]] *
                       (IF Abs(c.percentage[1]) <= 100 THEN Abs(c.percentage[1]) ELSE 100)
<1> DEFINE p == c.percentage[1]
           direction == stringToPriceDirection(Lower(c.direction[1]))
           sign == Direction[c.direction[1]]
<1>1. p \in Int
  BY DEF Contracts
<1>2. Known(Direction, c.direction) <=> c.direction # << >> /\ direction # Len(Directions)
  BY DirectionRead DEF Known
<1>3. Known(Direction, c.direction) =>
         sign = IF direction = EnumOf(Directions, "down") THEN -1 ELSE 1
  BY DirectionRead DEF Known
<1>4. Parsed(c) = {} <=> c.direction = << >> \/ direction = Len(Directions) \/ p = 0
  BY DEF Parsed, ProgressTask
<1>5. \A task \in Parsed(c) :
         /\ Wire(task).service = "progress"
         /\ Wire(task).fields[1] = Clamped(Signed(p, direction))
  <2> TAKE task \in Parsed(c)
  <2>1. task = Task(c, << >>, <<[percentage |-> Signed(p, direction), direction |-> direction]>>)
    BY DEF Parsed, ProgressTask
  <2> DEFINE prop == [percentage |-> Signed(p, direction), direction |-> direction]
  <2>2. prop.percentage = Signed(p, direction)
    OBVIOUS
  <2> HIDE DEF prop
  <2>3. task.percentProp = <<prop>>
    BY <2>1 DEF Task, prop
  <2> QED
    BY <2>2, <2>3 DEF Wire
<1>6. NonZero(c.percentage) <=> p # 0
  BY DEF NonZero
<1> HIDE DEF p, direction, sign
<1>7. Known(Direction, c.direction) =>
         Clamped(Signed(p, direction)) = sign * (IF Abs(p) <= 100 THEN Abs(p) ELSE 100)
  BY <1>1, <1>3 DEF Clamped, Signed, Abs
<1> QED
  BY <1>2, <1>4, <1>5, <1>6, <1>7 DEF p, sign

(* A contract that makes sense is named once in every list, known in every    *)
(* name and has a kind.                                                       *)
LEMMA SoundNames ==
    ASSUME NEW c \in Contracts
    PROVE  Sound(c) <=>
              /\ c.symbols # << >> /\ IsInjective(c.symbols)
              /\ c.exchange \in {"binance", "kucoin", "okex"}
              /\ c.trade \in DOMAIN TradeNamed
              /\ \/ NonZero(SaidBy(c)) /\ Known(SecondsIn, c.duration)
                 \/ c.intervals = << >> /\ NonZero(c.percentage) /\ Known(Direction, c.direction)
<1>1. c.symbols \in Seq(STRING)
  BY DEF Contracts
<1> QED
  BY <1>1, NoRepetition DEF Sound

(* An interval that is accepted.                                              *)
LEMMA AcceptedTime ==
    ASSUME NEW c \in Contracts, c.intervals # << >>, InRange(c), NEW task \in Parsed(c)
    PROVE  LET unit == SecondsIn[c.duration[1]]
               said == SaidBy(c)[1]
               amount == TimerDelay(Wire(task).fields[1])
           IN  /\ NonZero(SaidBy(c)) /\ Known(SecondsIn, c.duration)
               /\ Wire(task).service = "time"
               /\ 10 * amount <= said * unit /\ said * unit < 10 * (amount + unit)
               /\ said % 10 = 0 => 10 * amount = said * unit
<1> DEFINE v == c.intervals[1]
           unit == SecondsIn[c.duration[1]]
           said == SaidBy(c)[1]
           max == (Word - 1) \div (2 * unit)
<1>1. PICK t \in IntervalRead(v) : /\ Known(SecondsIn, c.duration)
                                   /\ (t * unit) % Word # 0
                                   /\ Wire(task).service = "time"
                                   /\ Wire(task).fields[1] = (t * unit) % Word
  BY TimeRead
<1>2. SaidBy(c) = Said(v) /\ SaidBy(c) # << >> /\ said \in 0..(10 * max)
  BY <1>1 DEF InRange, SaidBy
<1>3. v \in Intervals
  BY DEF Contracts
<1>4. said \in Int /\ t = Truncated(said)
  BY <1>2, <1>3, ReadAsSaid
<1>5. unit \in {1, 60, 3600, 86400, 604800}
  BY <1>1, Units
<1>6. max \in Nat
  BY <1>5, WordAssumption
<1> HIDE DEF unit, said, max, v
<1>7. /\ t \in Int /\ t >= 0 /\ 10 * t <= said /\ said < 10 * t + 10
      /\ said % 10 = 0 => 10 * t = said
  BY <1>2, <1>4, <1>6, Truncation
<1>8. t <= max
  BY <1>2, <1>6, <1>7
<1>9. TimerDelay(Wire(task).fields[1]) = t * unit
  <2>1. t \in Int /\ t >= 0 /\ t <= (Word - 1) \div (2 * unit)
    BY <1>7, <1>8 DEF max
  <2>2. TimerDelay((t * unit) % Word) = t * unit
    BY <1>5, <2>1, DelayKept
  <2> QED
    BY <1>1, <2>2
<1>10. t # 0
  BY <1>1, <1>5, <1>7, NothingLeft
<1>11. said # 0
  BY <1>7, <1>10
<1>12. NonZero(SaidBy(c))
  BY <1>2, <1>11 DEF NonZero, said
<1>13. /\ 10 * (t * unit) <= said * unit /\ said * unit < 10 * (t * unit + unit)
       /\ said % 10 = 0 => 10 * (t * unit) = said * unit
  BY <1>4, <1>5, <1>7
<1> QED
  BY <1>1, <1>9, <1>12, <1>13 DEF unit, said

(* What is accepted makes sense, and comes out as it was asked for.           *)
LEMMA AcceptedAsAsked ==
    ASSUME NEW c \in Contracts, InRange(c), NEW task \in Parsed(c), passed_valid_task_check(task)
    PROVE  Sound(c) /\ AsAsked(c, Received(Wire(task)))
<1> DEFINE got == Received(Wire(task))
<1>1. c.intervals # << >> \/ c.percentage # << >>
  BY ReadsAll DEF passed_valid_task_check
<1>2. got.trade = TradeNamed[c.trade] /\ got.exchange = c.exchange /\ got.tokens = ToSet(c.symbols)
  BY <1>1, PassesOn
<1>3. /\ got.service = Wire(task).service
      /\ got.amount = IF Wire(task).service = "time" THEN TimerDelay(Wire(task).fields[1])
                      ELSE Wire(task).fields[1]
  BY DEF Received
<1> HIDE DEF got
<1>4. CASE c.intervals # << >>
  <2>1. Sound(c)
    BY <1>1, <1>4, PassesOn, AcceptedTime, SoundNames
  <2>2. AsAsked(c, got)
    BY <1>2, <1>3, <1>4, AcceptedTime DEF AsAsked
  <2> QED
    BY <2>1, <2>2 DEF got
<1>5. CASE c.intervals = << >>
  <2>1. Parsed(c) # {} /\ c.percentage # << >>
    BY <1>1, <1>5
  <2>2. Sound(c)
    BY <1>1, <1>5, <2>1, PassesOn, ProgressRead, SoundNames
  <2>3. AsAsked(c, got)
    <3> DEFINE sign == Direction[c.direction[1]]
               size == Abs(c.percentage[1])
    <3>1. got.service = "progress" /\ got.amount = sign * (IF size <= 100 THEN size ELSE 100)
      BY <1>3, <1>5, <2>1, ProgressRead
    <3>2. size \in Nat
      BY <2>1 DEF Contracts, Abs
    <3> HIDE DEF sign, size
    <3>3. /\ size <= 100 => got.amount = sign * size
          /\ size > 100 => got.amount = sign * 100
      BY <3>1, <3>2
    <3> QED
      BY <1>2, <1>5, <3>1, <3>3 DEF AsAsked, sign, size
  <2> QED
    BY <2>2, <2>3 DEF got
<1> QED
  BY <1>4, <1>5

(* An interval that is refused.                                               *)
LEMMA RefusedTime ==
    ASSUME NEW c \in Contracts, c.intervals # << >>, Parsed(c) = {},
           NonZero(SaidBy(c)), Known(SecondsIn, c.duration)
    PROVE  Refusable(c)
<1> DEFINE v == c.intervals[1]
           unit == SecondsIn[c.duration[1]]
           said == SaidBy(c)[1]
           t == Truncated(said)
<1>1. SaidBy(c) = Said(v) /\ SaidBy(c) # << >> /\ v \in Intervals
  BY DEF NonZero, SaidBy, Contracts
<1>2. /\ said \in Int
      /\ IntervalRead(v) # {t} => v.kind = "text" /\ Abs(said) >= 10 * IntBound
  BY <1>1, ReadAsSaid
<1>3. unit \in {1, 60, 3600, 86400, 604800}
  BY Units
<1>4. IntervalRead(v) = {t} => (t * unit) % Word = 0
  BY TimeRead
<1> HIDE DEF unit, said, v
<1>5. /\ t \in Int /\ 10 * Abs(t) <= Abs(said)
      /\ t = 0 => Abs(said) < 10
  BY <1>2, Truncation
<1>6. (t * unit) % Word = 0 => t = 0 \/ Abs(t) * unit >= Word
  BY <1>3, <1>5, NothingLeft
<1> HIDE DEF t
<1>7. Abs(t) * unit >= Word => Abs(said) * unit >= 10 * Word
  <2>1. Abs(t) \in Nat /\ Abs(said) \in Nat
    BY <1>2, <1>5 DEF Abs
  <2> HIDE DEF Abs
  <2> QED
    BY <1>3, <1>5, <2>1, WordAssumption
<1> QED
  BY <1>1, <1>2, <1>4, <1>5, <1>6, <1>7 DEF Refusable, unit, said, v

(* What is refused makes no sense, or is of a kind that is refused.           *)
LEMMA RefusedForCause ==
    ASSUME NEW c \in Contracts,
           Parsed(c) = {} \/ \E task \in Parsed(c) : ~passed_valid_task_check(task)
    PROVE  ~Sound(c) \/ Refusable(c)
<1>1. ASSUME c.intervals # << >> \/ c.percentage # << >>,
             NEW task \in Parsed(c), ~passed_valid_task_check(task)
      PROVE  ~Sound(c)
  BY <1>1, PassesOn, SoundNames
<1>2. CASE c.intervals = << >> /\ c.percentage = << >>
  BY <1>2, SoundNames DEF NonZero, SaidBy
<1>3. CASE c.intervals # << >>
  BY <1>1, <1>3, RefusedTime, SoundNames
<1>4. CASE c.intervals = << >> /\ c.percentage # << >>
  BY <1>1, <1>4, ProgressRead, SoundNames DEF NonZero, SaidBy
<1> QED
  BY <1>2, <1>3, <1>4

-----------------------------------------------------------------------------
(* The routes.                                                                *)
LEMMA RouteShape ==
    ASSUME NEW route \in Routes
    PROVE  /\ route.handler \in {"account", "prices", "stop", "all", "text", "code",
                                 "password", "list", "latest", "pairs"}
           /\ route.handler \in {"account", "prices", "stop", "text"} => route.verb = "post"
           /\ route.handler \in {"code", "password"} => route.verb = "put"
           /\ route.handler \in {"list", "all", "latest", "pairs"} => route.verb = "get"
           /\ route.verb = "get" => route.json = FALSE
           /\ route.verb # "get" => route.json = TRUE
<1>1. /\ route.verb = "get" => route.json = FALSE
      /\ route.verb # "get" => route.json = TRUE
  BY DEF Routes, Route
<1>2. /\ route.handler \in {"account", "prices", "stop", "all", "text", "code",
                            "password", "list", "latest", "pairs"}
      /\ route.handler \in {"account", "prices", "stop", "text"} => route.verb = "post"
      /\ route.handler \in {"code", "password"} => route.verb = "put"
      /\ route.handler \in {"list", "all", "latest", "pairs"} => route.verb = "get"
  BY DEF Routes, Route
<1> QED
  BY <1>1, <1>2

LEMMA NamesDiffer ==
    ASSUME NEW route \in Routes, NEW other \in Routes, route.name = other.name
    PROVE  route = other
<1>1. route.verb = other.verb /\ route.handler = other.handler
  BY DEF Routes, Route
<1>2. route.params = other.params
  BY DEF Routes, Route
<1>3. route.json = other.json
  BY <1>1, RouteShape
<1>4. \A r \in Routes : r = Route(r.name, r.params, r.verb, r.json, r.handler)
  BY DEF Routes, Route
<1> QED
  BY <1>1, <1>2, <1>3, <1>4

LEMMA AtMostOne ==
    ASSUME NEW S, \A x, y \in S : x = y
    PROVE  IsFiniteSet(S) /\ Cardinality(S) <= 1
<1>1. CASE S = {}
  BY <1>1, FS_EmptySet
<1>2. CASE S # {}
  <2>1. PICK x \in S : S = {x}
    BY <1>2
  <2>2. IsFiniteSet({x}) /\ Cardinality({x}) = 1
    BY FS_Singleton
  <2> QED
    BY <2>1, <2>2
<1> QED
  BY <1>1, <1>2

(* A target that does not end with a slash is taken as it is.                 *)
LEMMA NotTrimmed ==
    ASSUME NEW S, NEW target \in Seq(S), target # << >>, target[Len(target)] # Empty
    PROVE  Trimmed(target) = target
<1> DEFINE ends == {i \in DOMAIN target : target[i] # Empty}
           len == Len(target)
           Longest(n) == n \in ends \cup {0} /\ \A i \in ends : i <= n
           longest == CHOOSE n \in 0..len : Longest(n)
<1>1. len \in Nat \ {0} /\ DOMAIN target = 1..len
  BY LenProperties, EmptySeq
<1>2. ends \subseteq 1..len /\ len \in ends
  BY <1>1
<1>3. Trimmed(target) = SubSeq(target, 1, longest)
  BY DEF Trimmed
<1> HIDE DEF ends, len
<1>4. len \in 0..len /\ Longest(len)
  BY <1>1, <1>2
<1>5. ASSUME NEW n \in 0..len, Longest(n)
      PROVE  n = len
  BY <1>1, <1>2, <1>5
<1>6. longest = len
  BY <1>4, <1>5
<1> QED
  BY <1>3, <1>6, SubSeqFull DEF len

LEMMA ShortTargets ==
    ASSUME NEW name, NEW id
    PROVE  /\ name # Empty => Trimmed(<<name>>) = <<name>>
           /\ id # Empty => Trimmed(<<name, id>>) = <<name, id>>
<1> DEFINE names == {name, id}
           one == <<name>>
           two == <<name, id>>
<1>1. /\ one \in Seq(names) /\ one # << >> /\ one[Len(one)] = name
      /\ two \in Seq(names) /\ two # << >> /\ two[Len(two)] = id
  OBVIOUS
<1> HIDE DEF names, one, two
<1>2. /\ name # Empty => Trimmed(one) = one
      /\ id # Empty => Trimmed(two) = two
  BY <1>1, NotTrimmed
<1> QED
  BY <1>2 DEF one, two

LEMMA NamesAreText ==
    ASSUME NEW route \in Routes
    PROVE  /\ route.name # Empty /\ route.name \notin DOMAIN BeforeQuery
           /\ route.params \in {0, 1, 2, 3}
<1>1. route.params \in {0, 1, 2, 3}
  BY DEF Routes, Route
<1>2. route.name # Empty
  <2> DEFINE names == {"add_account_monitoring", "add_pricing_tasks", "stop_price_tasks",
                       "all_price_tasks", "new_telegram_message",
                       "new_telegram_registration_code", "new_telegram_registration_password",
                       "list_price_tasks", "latest_price", "trading_pairs"}
  <2>1. route.name \in names
    BY DEF Routes, Route
  <2>2. "" \notin names
    BY Zenon
  <2> QED
    BY <2>1, <2>2 DEF Empty
<1> QED
  BY <1>1, <1>2, QueryAssumption

(* One path fits one route only.                                              *)
LEMMA FitsOne ==
    ASSUME NEW path, NEW route \in Routes, NEW other \in Routes,
           Fits(route, path), Fits(other, path)
    PROVE  route = other
<1>1. ASSUME NEW plain \in Routes, NEW special \in Routes, plain.params = 0,
             special.params # 0, Fits(plain, path), Fits(special, path)
      PROVE  FALSE
  <2>1. path = <<plain.name>>
    BY <1>1 DEF Fits
  <2>2. Trimmed(path) = <<plain.name>>
    BY <2>1, NamesAreText, ShortTargets
  <2>3. Len(Trimmed(path)) = 1
    BY <2>2
  <2>4. Len(Trimmed(path)) = 1 + special.params /\ special.params \in {1, 2, 3}
    BY <1>1, NamesAreText DEF Fits
  <2> QED
    BY <2>3, <2>4
<1>2. CASE route.params = 0 /\ other.params = 0
  <2>1. <<route.name>> = <<other.name>>
    BY <1>2 DEF Fits
  <2>2. route.name = other.name
    BY <2>1
  <2> QED
    BY <2>2, NamesDiffer
<1>3. CASE route.params # 0 /\ other.params # 0
  BY <1>3, NamesDiffer DEF Fits
<1> QED
  BY <1>1, <1>2, <1>3

LEMMA OneFits == ASSUME NEW path
                 PROVE  Cardinality({route \in Routes : Fits(route, path)}) <= 1
  BY FitsOne, AtMostOne

(* A target without question marks is its path.                               *)
LEMMA NotCut ==
    ASSUME NEW target, \A i \in DOMAIN target : target[i] \notin DOMAIN BeforeQuery
    PROVE  Path(target) = target
  BY DEF Path

-----------------------------------------------------------------------------
(* What a handler calls, and what it has seen before it does.                 *)
LEMMA PricesCalled ==
    ASSUME NEW ids, NEW body, Understood("prices", body)
    PROVE  RunHandler("prices", ids, body) =
              IF Readable(body.contracts) /\ Accepted(body.contracts) THEN Call("prices", body.user)
              ELSE IF Readable(body.contracts) THEN Answer("refused") ELSE Answer("bad")
  BY DEF RunHandler, AddNewPricingTasks

LEMMA HandlerCalls ==
    ASSUME NEW handler \in {"account", "prices", "stop", "all", "text", "code",
                            "password", "list", "latest", "pairs"},
           NEW ids, NEW body
    PROVE  LET call == RunHandler(handler, ids, body).call
           IN  /\ \/ call = "none"
                  \/ call = "list" /\ handler \in {"list", "all"}
                  \/ call = handler /\ handler \in {"account", "prices", "stop", "text",
                                                   "code", "password"}
               /\ call # "none" /\ handler \in {"account", "prices", "stop", "text"} =>
                     Understood(handler, body)
<1>1. \A status : Answer(status).call = "none"
  BY DEF Answer
<1>2. \A name, user : Call(name, user).call = name
  BY DEF Call
<1>3. \A good : OkIf(good).call = "none"
  BY <1>1 DEF OkIf
<1>4. CASE handler \in {"prices", "stop", "account", "text"} /\ ~Understood(handler, body)
  BY <1>1, <1>4 DEF RunHandler
<1>5. CASE handler = "prices" /\ Understood(handler, body)
  BY <1>1, <1>2, <1>5, PricesCalled
<1>6. CASE handler \in {"stop", "account", "text"} /\ Understood(handler, body)
  <2>1. CASE handler = "stop"
    BY <1>2, <1>6, <2>1 DEF RunHandler
  <2>2. CASE handler = "account"
    BY <1>1, <1>2, <1>6, <2>2 DEF RunHandler, MonitorUserAccount, CallIf
  <2>3. CASE handler = "text"
    BY <1>1, <1>2, <1>6, <2>3 DEF RunHandler, CallIf
  <2> QED
    BY <1>6, <2>1, <2>2, <2>3
<1>7. CASE handler \in {"code", "password", "list", "all"}
  BY <1>2, <1>7 DEF RunHandler
<1>8. CASE handler \in {"latest", "pairs"}
  BY <1>3, <1>8 DEF RunHandler
<1> QED
  BY <1>4, <1>5, <1>6, <1>7, <1>8

(* A call is made by the handler of the one route that fits.                  *)
LEMMA Routed ==
    ASSUME NEW req, NEW route \in Routes, Fits(route, Path(Trimmed(req.target))),
           Trimmed(req.target) # << >>, route.verb = req.verb, TypeFits(route, req.type)
    PROVE  handle_requests(req) =
              RunHandler(route.handler, Tail(Trimmed(Path(Trimmed(req.target)))), req.body)
<1> DEFINE target == Trimmed(req.target)
           path == Path(target)
           fitting == {r \in Routes : Fits(r, path)}
<1>1. \A r \in fitting : r = route
  BY FitsOne
<1>2. (CHOOSE r \in fitting : TRUE) = route /\ fitting # {}
  BY <1>1
<1>3. req.verb # "options"
  BY RouteShape
<1>4. handle_requests(req) =
         IF target = << >> \/ fitting = {} THEN Answer("not found")
         ELSE IF req.verb = "options" THEN Answer("ok")
         ELSE IF req.verb # (CHOOSE r \in fitting : TRUE).verb THEN Answer("not allowed")
         ELSE IF ~TypeFits(CHOOSE r \in fitting : TRUE, req.type) THEN Answer("bad")
         ELSE RunHandler((CHOOSE r \in fitting : TRUE).handler, Tail(Trimmed(path)), req.body)
  BY DEF handle_requests
<1> HIDE DEF target, path, fitting
<1>5. target # << >>
  BY DEF target
<1>6. handle_requests(req) = RunHandler(route.handler, Tail(Trimmed(path)), req.body)
  BY <1>2, <1>3, <1>4, <1>5
<1> QED
  BY <1>6 DEF path, target

LEMMA CalledByRoute ==
    ASSUME NEW req, handle_requests(req).call # "none"
    PROVE  \E route \in Routes : \E ids :
              /\ route.verb = req.verb
              /\ TypeFits(route, req.type)
              /\ handle_requests(req) = RunHandler(route.handler, ids, req.body)
<1> DEFINE target == Trimmed(req.target)
           path == Path(target)
           fitting == {r \in Routes : Fits(r, path)}
           route == CHOOSE r \in fitting : TRUE
           ids == Tail(Trimmed(path))
           run == RunHandler(route.handler, ids, req.body)
<1>1. handle_requests(req) =
         IF target = << >> \/ fitting = {} THEN Answer("not found")
         ELSE IF req.verb = "options" THEN Answer("ok")
         ELSE IF req.verb # route.verb THEN Answer("not allowed")
         ELSE IF ~TypeFits(route, req.type) THEN Answer("bad")
         ELSE run
  BY DEF handle_requests
<1>2. \A status : Answer(status).call = "none"
  BY DEF Answer
<1>3. fitting # {} => route \in Routes
  OBVIOUS
<1> HIDE DEF target, path, fitting, route, ids, run
<1>4. fitting # {} /\ req.verb = route.verb /\ TypeFits(route, req.type)
  BY <1>1, <1>2
<1>5. handle_requests(req) = run
  BY <1>1, <1>2
<1> QED
  BY <1>3, <1>4, <1>5 DEF run

(* And it was asked for with the verb and the type of that route.             *)
LEMMA CalledAsMeant ==
    ASSUME NEW req, handle_requests(req).call # "none"
    PROVE  \E handler, ids :
              LET call == handle_requests(req).call
              IN  /\ handle_requests(req) = RunHandler(handler, ids, req.body)
                  /\ call \in {"list", handler}
                  /\ call = "list" => req.verb = "get"
                  /\ call # "list" => req.verb \in {"post", "put"} /\ req.type = "json"
                  /\ call # "list" /\ req.verb = "post" => Understood(handler, req.body)
<1>1. PICK route \in Routes :
         /\ route.verb = req.verb
         /\ TypeFits(route, req.type)
         /\ \E ids : handle_requests(req) = RunHandler(route.handler, ids, req.body)
  BY CalledByRoute
<1> DEFINE handler == route.handler
           call == handle_requests(req).call
<1>2. handler \in {"account", "prices", "stop", "all", "text", "code",
                   "password", "list", "latest", "pairs"}
  BY RouteShape
<1>3. /\ \/ call = "list" /\ handler \in {"list", "all"}
         \/ call = handler /\ handler \in {"account", "prices", "stop", "text",
                                          "code", "password"}
      /\ handler \in {"account", "prices", "stop", "text"} => Understood(handler, req.body)
  BY <1>1, <1>2, HandlerCalls
<1>4. req.verb # "get" => req.type = "json"
  BY <1>1, RouteShape DEF TypeFits
<1>5. /\ handler \in {"account", "prices", "stop", "text"} => req.verb = "post"
      /\ handler \in {"code", "password"} => req.verb = "put"
      /\ handler \in {"list", "all"} => req.verb = "get"
  BY <1>1, RouteShape
<1> HIDE DEF handler, call
<1>6. /\ call \in {"list", handler}
      /\ call = "list" => req.verb = "get"
      /\ call # "list" => req.verb \in {"post", "put"} /\ req.type = "json"
      /\ call # "list" /\ req.verb = "post" => Understood(handler, req.body)
  BY <1>3, <1>4, <1>5
<1> QED
  BY <1>1, <1>6 DEF handler, call

(* Short sequences.                                                           *)
LEMMA Pair == ASSUME NEW a, NEW b
              PROVE  <<a>> \o <<b>> = <<a, b>>
<1> DEFINE left == <<a>>
           right == <<b>>
           both == <<a, b>>
<1>1. /\ left \in Seq({a, b}) /\ Len(left) = 1 /\ left[1] = a
      /\ right \in Seq({a, b}) /\ Len(right) = 1 /\ right[1] = b
      /\ both \in Seq({a, b}) /\ Len(both) = 2 /\ both[1] = a /\ both[2] = b
  OBVIOUS
<1> HIDE DEF left, right, both
<1>2. /\ left \o right \in Seq({a, b})
      /\ Len(left \o right) = 2
      /\ (left \o right)[1] = a /\ (left \o right)[2] = b
  BY <1>1, ConcatProperties
<1>3. left \o right = both
  BY <1>1, <1>2, SeqEqual
<1> QED
  BY <1>3 DEF left, right, both

LEMMA One == ASSUME NEW S, NEW seq \in Seq(S), Len(seq) = 1
             PROVE  seq[1] \in S /\ seq = <<seq[1]>>
<1>1. seq \in [1..1 -> S]
  BY LenProperties
<1>2. seq[1] \in S
  BY <1>1
<1>3. <<seq[1]>> \in Seq(S) /\ Len(<<seq[1]>>) = 1 /\ <<seq[1]>>[1] = seq[1]
  BY <1>2
<1> DEFINE one == <<seq[1]>>
<1> HIDE DEF one
<1>4. seq = one
  BY <1>3, SeqEqual DEF one
<1> QED
  BY <1>2, <1>4 DEF one

-----------------------------------------------------------------------------
(* A session answers what it was asked, whatever the request.                 *)
THEOREM Invariance == Spec => []IInv
<1>1. Init => IInv
  BY DEF Init, IInv
<1>2. IInv /\ [Next]_<<request, answer>> => IInv'
  <2> SUFFICES ASSUME IInv, [Next]_<<request, answer>>
               PROVE  IInv'
    OBVIOUS
  <2>1. ASSUME NEW req \in Requests, Receive(req)
        PROVE  IInv'
    BY <2>1, RequestsAssumption DEF Receive, IInv
  <2>2. CASE ReadOn
    BY <2>2 DEF ReadOn, IInv
  <2>3. CASE UNCHANGED <<request, answer>>
    BY <2>3 DEF IInv
  <2> QED
    BY <2>1, <2>2, <2>3 DEF Next
<1> QED
  BY <1>1, <1>2, PTL DEF Spec

(* A complete price request is refused only for a contract that makes no      *)
(* sense or may be refused; of one that is scheduled, what the task services  *)
(* read from D-Bus of a contract in range is what was asked for: whatever the *)
(* contracts, and however many values a word has.                             *)
THEOREM ContractsAreKept == Spec => []ScheduledAsAsked
<1>1. IInv => ScheduledAsAsked
  <2> SUFFICES ASSUME IInv, request # None
               PROVE  ScheduledAsAsked
    BY DEF ScheduledAsAsked
  <2> DEFINE body == request.body
             target == Trimmed(request.target)
  <2>1. WellTyped(request) /\ answer = handle_requests(request)
    BY DEF IInv
  <2>2. ASSUME Understood("prices", body)
        PROVE  \A c \in ToSet(body.contracts) : c \in Contracts
    BY <2>1, <2>2 DEF WellTyped, Understood, ToSet
  <2>3. ASSUME answer.call = "prices", NEW c \in ToSet(body.contracts), InRange(c)
        PROVE  Sound(c) /\ \A task \in Parsed(c) : AsAsked(c, Received(Wire(task)))
    <3>1. PICK handler, ids : /\ answer = RunHandler(handler, ids, body)
                              /\ handler = "prices"
                              /\ Understood(handler, body) \/ request.verb # "post"
      BY <2>1, <2>3, CalledAsMeant
    <3>2. Understood("prices", body)
      BY <2>3, <3>1, HandlerCalls
    <3>3. Readable(body.contracts) /\ Accepted(body.contracts)
      BY <2>3, <3>1, <3>2, PricesCalled DEF Answer
    <3>4. Parsed(c) # {} /\ \A task \in Parsed(c) : passed_valid_task_check(task)
      BY <3>3 DEF Readable, Accepted, ToSet
    <3> QED
      BY <2>2, <2>3, <3>2, <3>4, AcceptedAsAsked
  <2>4. ASSUME request.target = <<"add_pricing_tasks">>, request.verb = "post",
               request.type = "json", Understood("prices", body), answer.call # "prices"
        PROVE  \E c \in ToSet(body.contracts) : ~Sound(c) \/ Refusable(c)
    <3> DEFINE route == Route("add_pricing_tasks", 0, "post", TRUE, "prices")
    <3>1. target = <<"add_pricing_tasks">>
      <4>1. "add_pricing_tasks" # Empty
        BY Zenon DEF Empty
      <4> QED
        BY <2>4, <4>1, ShortTargets
    <3>2. route \in Routes /\ TypeFits(route, request.type)
      BY <2>4 DEF Routes, Route, TypeFits
    <3>3. /\ route.verb = "post" /\ route.handler = "prices"
          /\ route.params = 0 /\ route.name = "add_pricing_tasks"
      BY DEF Route
    <3> HIDE DEF target, body, route
    <3>4. Path(target) = target
      BY <3>1, <3>2, <3>3, NamesAreText, NotCut
    <3>5. Fits(route, Path(target)) /\ target # << >>
      BY <3>1, <3>3, <3>4 DEF Fits
    <3>6. PICK ids : answer = RunHandler("prices", ids, body)
      BY <2>1, <2>4, <3>2, <3>3, <3>5, Routed DEF target, body
    <3>7. ~Readable(body.contracts) \/ ~Accepted(body.contracts)
      BY <2>4, <3>6, PricesCalled DEF Call
    <3> QED
      BY <2>2, <2>4, <3>7, RefusedForCause DEF Readable, Accepted, ToSet
  <2> QED
    BY <2>3, <2>4 DEF ScheduledAsAsked
<1> QED
  BY Invariance, <1>1, PTL

(* At most one route fits; what changes something was asked for with the verb *)
(* and the type of its route, by a body that is complete; and a user who can  *)
(* schedule can list what he scheduled.                                       *)
THEOREM RequestsAreRouted == Spec => []RoutedAsMeant
<1>1. IInv => RoutedAsMeant
  <2> SUFFICES ASSUME IInv, request # None
               PROVE  RoutedAsMeant
    BY DEF RoutedAsMeant
  <2> DEFINE body == request.body
             path == Path(Trimmed(request.target))
             user == answer.user
  <2>1. WellTyped(request) /\ answer = handle_requests(request)
    BY DEF IInv
  <2>2. ASSUME answer.call \notin {"none", "list"}
        PROVE  /\ request.verb \in {"post", "put"}
               /\ request.type = "json"
               /\ request.verb = "post" => request.body.complete
    BY <2>1, <2>2, CalledAsMeant DEF Understood
  <2>3. answer.call = "list" => request.verb = "get"
    BY <2>1, CalledAsMeant
  <2>4. ASSUME answer.call = "prices", Len(user) = 1,
               user[1] \notin {Empty} \cup DOMAIN BeforeQuery
        PROVE  handle_requests(Listing(user)) = Call("list", user)
    <3>1. PICK handler, ids : answer = RunHandler(handler, ids, body) /\ handler = "prices"
      BY <2>1, <2>4, CalledAsMeant
    <3>2. Understood("prices", body)
      BY <2>4, <3>1, HandlerCalls
    <3>3. user = body.user /\ user \in Seq(STRING)
      BY <2>1, <2>4, <3>1, <3>2, PricesCalled DEF Answer, Call, WellTyped, Understood
    <3> DEFINE id == user[1]
               listing == <<"list_price_tasks", id>>
               list == Route("list_price_tasks", 1, "get", FALSE, "list")
    <3>4. user = <<id>> /\ id # Empty /\ id \notin DOMAIN BeforeQuery
      BY <2>4, <3>3, One
    <3> HIDE DEF id
    <3>5. Listing(user).target = <<"list_price_tasks">> \o user /\ Listing(user).verb = "get"
      BY DEF Listing
    <3>6. <<"list_price_tasks">> \o <<id>> = listing
      BY Pair
    <3>7. listing # << >>
      OBVIOUS
    <3>8. Trimmed(listing) = listing
      BY <3>4, ShortTargets
    <3>9. list \in Routes /\ list.verb = "get" /\ list.handler = "list" /\ list.json = FALSE
      BY DEF Routes, Route
    <3>10. Path(listing) = listing /\ Fits(list, listing)
      <4>1. list.name = "list_price_tasks" /\ list.params = 1
        BY DEF Route
      <4>2. \A i \in DOMAIN listing : listing[i] = list.name \/ listing[i] = id
        <5>1. DOMAIN listing = {1, 2} /\ listing[1] = "list_price_tasks" /\ listing[2] = id
          OBVIOUS
        <5> HIDE DEF list, listing
        <5> QED
          BY <4>1, <5>1
      <4>3. Path(listing) = listing
        <5> HIDE DEF list, listing
        <5> QED
          BY <3>4, <3>9, <4>2, NamesAreText, NotCut
      <4>4. Fits(list, listing)
        <5>1. Len(listing) = 2 /\ listing[1] = "list_price_tasks"
          OBVIOUS
        <5> HIDE DEF list, listing
        <5> QED
          BY <3>8, <4>1, <5>1 DEF Fits
      <4> QED
        BY <4>3, <4>4
    <3>11. Tail(listing) = <<id>>
      OBVIOUS
    <3> HIDE DEF list, listing
    <3>12. handle_requests(Listing(user)) = RunHandler("list", user, Listing(user).body)
      <4>1. TypeFits(list, Listing(user).type) /\ listing # << >>
        BY <3>7, <3>9 DEF TypeFits
      <4>2. Trimmed(Listing(user).target) = listing
        BY <3>4, <3>5, <3>6, <3>8
      <4> QED
        BY <3>4, <3>5, <3>8, <3>9, <3>10, <3>11, <4>1, <4>2, Routed
    <3> QED
      BY <3>12 DEF RunHandler
  <2>5. Cardinality({route \in Routes : Fits(route, path)}) <= 1
    BY OneFits
  <2> QED
    BY <2>2, <2>3, <2>4, <2>5 DEF RoutedAsMeant
<1> QED
  BY Invariance, <1>1, PTL
=============================================================================
