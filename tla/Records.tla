------------------------------ MODULE Records -------------------------------
(***************************************************************************)
(* The way of one frame from a venue into a record and out of it again:    *)
(* the feeds file it (Frames) and the replayer decodes it (Decode), two    *)
(* programs that each have their own idea of what a frame looks like.      *)
(* Likewise the way of a closed market: the sweeper reads its event from   *)
(* Gamma, and who replays the recorded event reads it again (Resolution).  *)
(*                                                                         *)
(* A frame starts as the venue's documentation has it and is damaged, or   *)
(* sent in another version of the protocol, field by field.                *)
(***************************************************************************)
EXTENDS Decode, Resolution

CONSTANTS
  Configs,      \* lists of streams Binance can be configured with
  Damages,      \* values that a field can have instead of its own
  MaxDefects,   \* bound: fields of a frame that are not as documented
  Words,        \* bound: topics and data of an AnswerUpdated log
  Events        \* bound: events of Gamma

ASSUME RecordsAssumption ==
  /\ \A ss \in Configs : ss \in Seq([of : STRING, at : STRING])
  /\ \A ev \in Events : ev \in Event

VARIABLES
  venue,     \* which of the feeds it is, or "gamma" for the sweeper
  streams,   \* cfg.streams of the Binance feed
  known,     \* whether Polymarket's registry knows the market of an item
  stage,     \* "idle", "received", "stored", "lost", "decoded"
  sent,      \* what the venue meant to send
  frame,     \* the text frame that was received
  defects,   \* how many of its fields were changed
  words,     \* the words of its log
  event,     \* the event of Gamma
  outcome,   \* what became of the frame in process_text
  decoded,   \* what the replayer makes of it
  answer,    \* the numbers of an AnswerUpdated log
  verdict    \* what the sweeper, twice, and the replayer read out of the event

vars == << venue, streams, known, stage, sent, frame, defects, words, event,
           outcome, decoded, answer, verdict >>

-----------------------------------------------------------------------------
(* What the venues send.                                                   *)

Whole(top, items) == [json |-> TRUE, top |-> top, items |-> items, cut |-> FALSE]

TradeItem(of) == [is |-> "trade", trade_id |-> "text", product_id |-> of, side |-> "BUY",
                  price |-> "decimal", size |-> "decimal", time |-> "text"]
BatchItem  == [is |-> "event", type |-> "text", trades |-> "list"]
ChangeItem == [is |-> "change", asset_id |-> "text", price |-> "decimal",
               size |-> "decimal", side |-> "SELL", best_bid |-> "decimal",
               best_ask |-> "decimal", hash |-> "text"]
LogItem(of) == [is |-> "log", address |-> of, topics |-> "list", data |-> "text",
                blockNumber |-> "text"]

(* The messages of the venues, for the product `of`; "depth_snapshot" is   *)
(* the body of an answer to fetch_and_persist.                             *)
Message(kind, of) ==
  CASE kind = "trade" -> Whole(
         [e |-> "trade", E |-> "int", s |-> of, t |-> "int", p |-> "decimal",
          q |-> "decimal", T |-> "int", m |-> "bool"], << >>)
    [] kind = "depthUpdate" -> Whole(
         [e |-> "depthUpdate", E |-> "int", s |-> of, U |-> "int", u |-> "int",
          b |-> "list", a |-> "list"], << >>)
    [] kind = "bookTicker" -> Whole(
         [u |-> "int", s |-> of, b |-> "decimal", B |-> "decimal",
          a |-> "decimal", A |-> "decimal"], << >>)
    [] kind = "kline" -> Whole(
         [e |-> "kline", E |-> "int", s |-> of, k |-> "object"], << >>)
    [] kind = "depth20" -> Whole(
         [lastUpdateId |-> "int", bids |-> "list", asks |-> "list"], << >>)
    [] kind = "depth_snapshot" -> Whole(
         [lastUpdateId |-> "int", bids |-> "list", asks |-> "list"], << >>)
    [] kind = "ack" -> Whole(
         [result |-> "null", id |-> "int"], << >>)
    [] kind = "market_trades" -> Whole(
         [channel |-> "market_trades", timestamp |-> "text", sequence_num |-> "int",
          events |-> "list"], << TradeItem(of), BatchItem >>)
    [] kind = "subscriptions" -> Whole(
         [channel |-> "subscriptions", timestamp |-> "text", sequence_num |-> "int",
          events |-> "list"], << [is |-> "event", subscriptions |-> "object"] >>)
    [] kind = "log" -> Whole(
         [jsonrpc |-> "decimal", method |-> "eth_subscription", params |-> "object",
          params_result |-> "object"], << LogItem(of) >>)
    [] kind = "eth_subscribe" -> Whole(
         [jsonrpc |-> "decimal", id |-> "int", result |-> "text"], << >>)
    [] kind = "book" -> Whole(
         [event_type |-> "book", asset_id |-> "text", market |-> "text",
          timestamp |-> "digits", hash |-> "text", bids |-> "list", asks |-> "list"], << >>)
    [] kind = "price_change" -> Whole(
         [event_type |-> "price_change", market |-> "text", timestamp |-> "digits",
          price_changes |-> "list"], << ChangeItem >>)
    [] kind = "last_trade_price" -> Whole(
         [event_type |-> "last_trade_price", asset_id |-> "text", market |-> "text",
          timestamp |-> "digits", price |-> "decimal", size |-> "decimal",
          side |-> "BUY", fee_rate_bps |-> "digits"], << >>)
    [] kind = "tick_size_change" -> Whole(
         [event_type |-> "tick_size_change", asset_id |-> "text", market |-> "text",
          timestamp |-> "digits", old_tick_size |-> "decimal",
          new_tick_size |-> "decimal"], << >>)

MessageKinds ==
  [ binance    |-> {"trade", "depthUpdate", "bookTicker", "kline", "depth20",
                    "depth_snapshot", "ack"},
    coinbase   |-> {"market_trades", "subscriptions"},
    chainlink  |-> {"log", "eth_subscribe"},
    polymarket |-> {"book", "price_change", "last_trade_price", "tick_size_change"},
    gamma      |-> {} ]
Products == IF venue \in {"binance", "coinbase"} THEN {"A", "B"} ELSE {"A"}

(* One field of an object is missing, or has another value.                *)
Without(o, x) == [y \in DOMAIN o \ {x} |-> o[y]]
Changed(o) ==
  UNION { {Without(o, x)} \union {[o EXCEPT ![x] = v] : v \in Damages \ {o[x]}} :
            x \in DOMAIN o \ {"is", "trades"} }

Damaged(fr) ==
  {[fr EXCEPT !.top = o] : o \in Changed(fr.top)}
  \union UNION {{[fr EXCEPT !.items[i] = o] : o \in Changed(fr.items[i])} :
                  i \in DOMAIN fr.items}

NoFrame   == Whole(None, << >>)
NoWords   == << << >>, << >>, << >> >>
NoSent    == [kind |-> "none", of |-> "A"]
NoEvent   == [id |-> FALSE, named |-> FALSE, tokens |-> 0, labels |-> << >>,
              prices |-> << >>, marketEnd |-> NoDate, eventEnd |-> NoDate]
NoVerdict == [mapped |-> Refused, swept |-> Refused, replayed |-> Refused]

Init ==
  /\ venue \in DOMAIN MessageKinds
  /\ streams \in IF venue = "binance" THEN Configs ELSE {<< >>}
  /\ known \in IF venue = "polymarket" THEN BOOLEAN ELSE {FALSE}
  /\ stage = "idle"
  /\ sent = NoSent
  /\ frame = NoFrame
  /\ defects = 0
  /\ words = NoWords
  /\ event = NoEvent
  /\ outcome = Dropped
  /\ decoded = "nothing"
  /\ answer = NoNumber
  /\ verdict = NoVerdict

Receive(kind, of) ==
  /\ stage = "idle"
  /\ stage' = "received"
  /\ sent' = [kind |-> kind, of |-> of]
  /\ \E cut \in BOOLEAN : frame' = [Message(kind, of) EXCEPT !.cut = cut]
  /\ words' \in IF kind = "log" THEN Words ELSE {NoWords}
  /\ UNCHANGED << venue, streams, known, defects, event, outcome, decoded, answer, verdict >>

(* A field is not as documented, or nothing is left of the JSON.           *)
Damage ==
  /\ stage = "received"
  /\ words = NoWords \/ words = CHOOSE w \in Words : TRUE
  /\ frame.json /\ defects < MaxDefects
  /\ frame' \in Damaged(frame) \union {[frame EXCEPT !.json = FALSE]}
  /\ defects' = defects + 1
  /\ UNCHANGED << venue, streams, known, stage, sent, words, event, outcome, decoded,
                  answer, verdict >>

Processed ==
  CASE venue = "binance"    -> BinanceFrame(frame, streams)
    [] venue = "coinbase"   -> CoinbaseFrame(frame)
    [] venue = "chainlink"  -> ChainlinkFrame(frame)
    [] venue = "polymarket" -> PolymarketFrame(frame, known)

(* process_text                                                            *)
Process ==
  /\ stage = "received" /\ sent.kind # "depth_snapshot"
  /\ outcome' = Processed
  /\ stage' = IF outcome'.to = "file" THEN "stored" ELSE "lost"
  /\ UNCHANGED << venue, streams, known, sent, frame, defects, words, event, decoded,
                  answer, verdict >>

(* fetch_and_persist: a body with a good status is filed as it came.       *)
StoreSnapshot ==
  /\ stage = "received" /\ sent.kind = "depth_snapshot"
  /\ stage' = "stored"
  /\ outcome' = Filed(At(sent.of, "depth_snapshot"), FALSE)
  /\ UNCHANGED << venue, streams, known, sent, frame, defects, words, event, decoded,
                  answer, verdict >>

(* The sweeper records an event that has an outcome and a decisive winner. *)
Sweep(ev) ==
  /\ stage = "idle" /\ venue = "gamma"
  /\ Recorded(ev) /\ BuildRecord(ev).ok
  /\ stage' = "stored"
  /\ sent' = [kind |-> "resolution", of |-> "A"]
  /\ event' = ev
  /\ verdict' = [mapped |-> MapEventMarket(ev), swept |-> BuildRecord(ev),
                  replayed |-> Refused]
  /\ UNCHANGED << venue, streams, known, frame, defects, words, outcome, decoded, answer >>

(* The log still has what decode_answer_updated reads its words from.      *)
LogHasWords ==
  Is(frame.items[1], "topics", "list") /\ Is(frame.items[1], "data", "text")

(* decode, and decode_resolution for an event of the sweeper's.            *)
Replay ==
  /\ stage = "stored"
  /\ stage' = "decoded"
  /\ IF sent.kind = "resolution"
     THEN /\ decoded' = "PolymarketResolution"
          /\ verdict' = [verdict EXCEPT !.replayed = DecodeResolution(event)]
          /\ UNCHANGED answer
     ELSE /\ decoded' = Decode(venue, outcome.stream, frame)
          /\ answer' = IF decoded' = "ChainlinkLog" /\ sent.kind = "log" /\ LogHasWords
                       THEN AnswerUpdated(words[1], words[2], words[3]) ELSE NoNumber
          /\ UNCHANGED verdict
  /\ UNCHANGED << venue, streams, known, sent, frame, defects, words, event, outcome >>

Next ==
  \/ \E kind \in MessageKinds[venue], of \in Products : Receive(kind, of)
  \/ Damage
  \/ Process
  \/ StoreSnapshot
  \/ \E ev \in Events : Sweep(ev)
  \/ Replay

Spec == Init /\ [][Next]_vars

-----------------------------------------------------------------------------
(* Properties                                                              *)

TypeOfKind ==
  [ trade            |-> "BinanceTrade",
    depthUpdate      |-> "BinanceDepthDiff",
    bookTicker       |-> "BinanceBookTicker",
    depth_snapshot   |-> "BinanceDepthSnapshot",
    market_trades    |-> "CoinbaseMarketTrades",
    log              |-> "ChainlinkLog",
    book             |-> "PolymarketBook",
    price_change     |-> "PolymarketPriceChange",
    last_trade_price |-> "PolymarketLastTradePrice",
    tick_size_change |-> "PolymarketTickSizeChange" ]

(* What the streams of one kind of message hold.                           *)
KindOfStream ==
  [ trade          |-> "trade",
    depth          |-> "depthUpdate",
    depth20        |-> "depthUpdate",
    bookTicker     |-> "bookTicker",
    depth_snapshot |-> "depth_snapshot",
    market_trades  |-> "market_trades",
    logs           |-> "log" ]

(* The streams of markets, which a replay is about; "A" is the slug of     *)
(* Polymarket's market.                                                    *)
MarketStream(s) ==
  \/ venue = "binance" /\ s.at \in {"trade", "depth", "depth20", "depth_snapshot", "bookTicker"}
  \/ venue = "coinbase" /\ s.at = "market_trades"
  \/ venue = "chainlink" /\ s.at = "logs"
  \/ venue = "polymarket" /\ s.of = "A"

(* What the recorder does not look at before it files a record: the type   *)
(* of an item of Polymarket and the id of a snapshot.                      *)
Strange ==
  CASE venue = "polymarket" ->
         \A kind \in MessageKinds.polymarket : ~Is(frame.top, "event_type", kind)
    [] venue = "binance" /\ outcome.stream.at = "depth_snapshot" ->
         ~Has(frame.top, "lastUpdateId")
    [] OTHER -> FALSE

(* What a record is by its stream, or by its own word at Polymarket, whose *)
(* streams have all types.                                                 *)
KindNamed ==
  IF venue = "polymarket" THEN frame.top["event_type"] ELSE KindOfStream[outcome.stream.at]

(* Routing and decoding agree: what the recorder files under the stream of *)
(* a market is an event of the type its stream or its `event_type` names,  *)
(* or is reported as an error.  Two kinds of record are passed over as     *)
(* Unknown: an item of Polymarket that names no type of event and the body *)
(* of a snapshot without lastUpdateId, both filed without a look at that.  *)
(* A trade or a diff that is read has its venue time beside it.            *)
RoutedIsTyped ==
  stage = "decoded" /\ MarketStream(outcome.stream) =>
    /\ decoded \in {Error, IF Strange THEN Unknown ELSE TypeOfKind[KindNamed]}
    /\ decoded \in {"BinanceTrade", "BinanceDepthDiff"} => outcome.timed

(* Streams of the configuration that could take a Binance frame.           *)
Candidates(kind) ==
  {i \in DOMAIN streams :
     streams[i].at \in IF kind = "depthUpdate" THEN {"depth", "depth20"} ELSE {kind}}

Subscribed ==
  /\ sent.kind \in DOMAIN TypeOfKind
  /\ venue = "binance" /\ sent.kind # "depth_snapshot" =>
       \E i \in Candidates(sent.kind) : streams[i].of = sent.of
  /\ venue = "polymarket" => known

(* A frame that is as documented and was subscribed to is never lost, also *)
(* when it is long: it does not stop the feed, it is filed and it decodes  *)
(* as what it is, under its own product unless two streams of one kind are *)
(* configured.                                                             *)
WholeFramesSurvive ==
  Subscribed /\ defects = 0 =>
    /\ stage # "lost"
    /\ stage = "decoded" =>
         /\ decoded = TypeOfKind[sent.kind]
         /\ Cardinality(Candidates(sent.kind)) <= 1 =>
              outcome.stream.of = IF venue = "polymarket" THEN "A" ELSE sent.of

(* The number a word stands for, in two's complement.                      *)
Signed(w) == Unsigned(w) - IF Negative(w) THEN Radix ^ WordLen ELSE 0
Half == Radix ^ LowLen \div 2

(* An oracle's answer is read as the number it is, or not at all: an       *)
(* answer, round or time outside of its width is not cut to another one.   *)
AnswerExact ==
  stage = "decoded" /\ decoded = "ChainlinkLog" /\ sent.kind = "log" =>
    LET exact == /\ LogHasWords
                 /\ \A i \in 1 .. 2 : IsWord(words[i])
                 /\ Len(words[3]) >= WordLen /\ IsWord(SubSeq(words[3], 1, WordLen))
                 /\ Signed(words[1]) \in -Half .. Half - 1
                 /\ Unsigned(words[2]) < Radix ^ (2 * LowLen)
                 /\ Unsigned(SubSeq(words[3], 1, WordLen)) < Radix ^ LowLen
    IN  answer = IF exact THEN << Signed(words[1]), Unsigned(words[2]),
                                  Unsigned(SubSeq(words[3], 1, WordLen)) >>
                 ELSE NoNumber

(* A closed market is read three times: is there an outcome, who is the    *)
(* winner in the record, and who is it when the record is replayed.  The   *)
(* replay never names another winner than the record, and all three name   *)
(* the same one when the prices are a plain 1 and 0, as Gamma has them     *)
(* after settlement.  Record and replay agree on when the market ended,    *)
(* and that is the second that the calendar says, in each month, over leap *)
(* years and the end of a century.                                         *)
ResolutionsAgree ==
  stage = "decoded" /\ sent.kind = "resolution" =>
    /\ verdict.replayed.label \in {"", verdict.swept.label}
    /\ event.prices \in {<<"1", "0">>, <<"0", "1">>} =>
         /\ verdict.replayed.label = verdict.swept.label
         /\ verdict.mapped.label = verdict.swept.label
    /\ verdict.replayed.end = verdict.swept.end
    /\ RealDate(EndDate(event)) => verdict.replayed.end = Counted(EndDate(event))
=============================================================================
