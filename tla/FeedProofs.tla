----------------------------- MODULE FeedProofs -----------------------------
(***************************************************************************)
(* What the feeds file can be read again.  For any list of streams, any    *)
(* damage to any number of fields and any events of Gamma: what is filed   *)
(* under a stream of a market decodes as that stream's type or is an       *)
(* error, a frame as documented is filed and decodes as what it is, and    *)
(* the sweeper and the replayer read the same end of a market, on the day  *)
(* that the calendar says (Records).  And for any number of markets, any   *)
(* page of Gamma's and any frames, the Polymarket feed files what it asked *)
(* for under its own market (PolymarketFeed).                              *)
(***************************************************************************)
EXTENDS Records, PolymarketFeed, FiniteSetTheorems, WellFoundedInduction, TLAPS

-----------------------------------------------------------------------------
(* The first of a list                                                     *)

(* A set of numbers that is not empty has a least one.                     *)
LEMMA SmallestOf ==
  ASSUME NEW S \in SUBSET Nat, S # {}
  PROVE  \E x \in S : \A y \in S : x <= y
<1>1. PICK x \in S : \A y \in S : ~(<<y, x>> \in OpToRel(<, Nat))
  BY WFMin, NatLessThanWellFounded, Zenon
<1>2. \A y \in S : ~(y < x)
  BY <1>1 DEF OpToRel
<1>3. QED
  BY <1>2

(* The least member of a set is in it.                                     *)
LEMMA MinIsIn ==
  ASSUME NEW S \in SUBSET Nat, S # {}
  PROVE  Min(S) \in S
  BY SmallestOf DEF Min

(* Positions in a list.                                                    *)
LEMMA Positions ==
  ASSUME NEW n \in Nat
  PROVE  1 .. n \subseteq Nat /\ 0 \notin 1 .. n
  OBVIOUS

(* pick_stream finds a stream that takes the type, if any does.            *)
LEMMA FirstTaker ==
  ASSUME NEW cfg, Len(cfg) \in Nat, NEW type,
         \/ PickStream(cfg, type).at # ""
         \/ \E j \in 1 .. Len(cfg) : Takes(cfg[j], type)
  PROVE  \E i \in 1 .. Len(cfg) :
           PickStream(cfg, type) = cfg[i] /\ Takes(cfg[i], type)
<1> DEFINE I == {i \in 1 .. Len(cfg) : Takes(cfg[i], type)}
           k == IF I # {} THEN Min(I) ELSE 0
<1>1. PickStream(cfg, type) = IF k = 0 THEN At("_unrouted_" \o type, "") ELSE cfg[k]
  BY DEF PickStream, SelectInSeq
<1>2. \A u : At(u, "").at = ""
  BY DEF At
<1>3. I # {}
  <2>1. CASE \E j \in 1 .. Len(cfg) : Takes(cfg[j], type)
    BY <2>1, Zenon
  <2>2. CASE PickStream(cfg, type).at # ""
    BY <1>1, <1>2, <2>2, Zenon
  <2>3. QED
    BY <2>1, <2>2, Zenon
<1>4. I \subseteq 1 .. Len(cfg)
  BY Zenon
<1>5. 1 .. Len(cfg) \subseteq Nat /\ 0 \notin 1 .. Len(cfg)
  BY Positions
<1>6. I \in SUBSET Nat
  BY <1>4, <1>5, Zenon
<1>7. Min(I) \in I
  BY <1>3, <1>6, MinIsIn, Zenon
<1>8. k \in I
  BY <1>3, <1>7, Zenon
<1>9. QED
  BY <1>1, <1>5, <1>8, Zenon

(* A set of at most one member has no two.                                 *)
LEMMA OneOfOne ==
  ASSUME NEW S, IsFiniteSet(S), Cardinality(S) <= 1, NEW i \in S, NEW j \in S
  PROVE  i = j
<1> SUFFICES ASSUME i # j PROVE FALSE
  OBVIOUS
<1>1. {i, j} \subseteq S
  OBVIOUS
<1>2. Cardinality({i, j}) <= Cardinality(S) /\ Cardinality({i, j}) \in Nat /\ Cardinality(S) \in Nat
  BY <1>1, FS_Subset, FS_CardinalityType
<1>3. {i} \union {j} = {i, j} /\ IsFiniteSet({i}) /\ Cardinality({i}) = 1
  BY FS_Singleton
<1>4. Cardinality({i} \union {j}) = Cardinality({i}) + 1
  BY <1>3, FS_AddElement
<1>5. QED
  BY <1>2, <1>3, <1>4

-----------------------------------------------------------------------------
(* What is filed under a stream of a market                                *)

(* A snapshot of the order book is filed without a look at it.             *)
Snapshot ==
  /\ venue = "binance"
  /\ sent.kind = "depth_snapshot"
  /\ outcome = Filed(At(sent.of, "depth_snapshot"), FALSE)

(* A frame has an event type by its field `e` or by its shape.             *)
LEMMA TypedByField ==
  ASSUME NEW fr, EventTypeOf(fr) # ""
  PROVE  /\ fr.json
         /\ EventTypeOf(fr) = "bookTicker" => Has(fr.top, "u")
         /\ EventTypeOf(fr) # "bookTicker" => Is(fr.top, "e", EventTypeOf(fr))
  BY DEF EventTypeOf, IsText, Is, Has, IsBookTickerShape, Text, Word, EventType, Decimal

(* A stream takes one type, as its name says.                              *)
LEMMA TakesOneType ==
  ASSUME NEW s, NEW type, Takes(s, type)
  PROVE  \/ type \in {"trade", "kline", "aggTrade", "bookTicker"} /\ s.at = type
         \/ type = "depthUpdate" /\ s.at \in {"depth", "depth20"}
  BY DEF Takes

(* What claims to be of a structure is of it or an error.                  *)
LEMMA ClaimedIsTyped ==
  ASSUME NEW fr, NEW name, NEW st, NEW claims, claims
  PROVE  /\ TypedOrUnknown(fr, name, st, claims) \in {name, Error}
         /\ TypedOrUnknown(fr, name, st, claims) = name /\ name # Error => Parses(fr.top, st)
  BY DEF TypedOrUnknown, Error

(* A trade or a diff has its venue time.                                   *)
LEMMA HasTime ==
  ASSUME NEW o, Parses(o, BinanceTrade) \/ Parses(o, BinanceDepthDiff)
  PROVE  Is(o, "E", "int")
  BY DEF Parses, BinanceTrade, BinanceDepthDiff, Struct, Num, Str, Decimal, Elem, Is, Has, None

(* What the Binance feed files under a stream of a market claims to be of  *)
(* that stream's type.                                                     *)
LEMMA BinanceTyped ==
  ASSUME venue = "binance", Len(streams) \in Nat, outcome = BinanceFrame(frame, streams),
         outcome.stream.at \in {"trade", "depth", "depth20", "depth_snapshot", "bookTicker"},
         decoded = Decode(venue, outcome.stream, frame)
  PROVE  /\ outcome.stream.at # "depth_snapshot"
         /\ decoded \in {TypeOfKind[KindOfStream[outcome.stream.at]], Error}
         /\ decoded \in {"BinanceTrade", "BinanceDepthDiff"} => outcome.timed
<1> DEFINE type == EventTypeOf(frame)
           at == outcome.stream.at
<1>1. /\ outcome = Filed(PickStream(streams, type), type # "bookTicker" /\ Is(frame.top, "E", "int"))
      /\ type # ""
  BY DEF BinanceFrame, Logged, Filed, Dropped, Panic, Unrouted, At
<1>2. /\ outcome.stream = PickStream(streams, type)
      /\ outcome.timed <=> (type # "bookTicker" /\ Is(frame.top, "E", "int"))
  <2>1. \A st, b : Filed(st, b).stream = st /\ Filed(st, b).timed = b
    BY DEF Filed
  <2>2. QED
    BY <1>1, <2>1, Zenon
<1>3. Takes(outcome.stream, type)
  BY <1>2, FirstTaker
<1>4. /\ frame.json
      /\ type = "bookTicker" => Has(frame.top, "u")
      /\ type # "bookTicker" => Is(frame.top, "e", type)
  BY <1>1, TypedByField
<1>5. decoded = DecodeBinance(outcome.stream, frame)
  BY DEF Decode
<1>6. CASE at = "trade"
  <2>1. type = "trade"
    BY <1>3, <1>6, TakesOneType
  <2>2. decoded = TypedOrUnknown(frame, "BinanceTrade", BinanceTrade, Is(frame.top, "e", "trade"))
    BY <1>5, <1>6 DEF DecodeBinance
  <2>3. /\ decoded \in {"BinanceTrade", Error}
        /\ decoded = "BinanceTrade" => Parses(frame.top, BinanceTrade)
    BY <2>1, <2>2, <1>4, ClaimedIsTyped DEF Error
  <2>4. TypeOfKind[KindOfStream[at]] = "BinanceTrade"
    BY <1>6 DEF TypeOfKind, KindOfStream
  <2>5. QED
    BY <1>2, <1>6, <2>1, <2>3, <2>4, HasTime DEF Error
<1>7. CASE at \in {"depth", "depth20"}
  <2>1. type = "depthUpdate"
    BY <1>3, <1>7, TakesOneType
  <2>2. decoded = TypedOrUnknown(frame, "BinanceDepthDiff", BinanceDepthDiff, Is(frame.top, "e", "depthUpdate"))
    BY <1>5, <1>7 DEF DecodeBinance
  <2>3. /\ decoded \in {"BinanceDepthDiff", Error}
        /\ decoded = "BinanceDepthDiff" => Parses(frame.top, BinanceDepthDiff)
    BY <2>1, <2>2, <1>4, ClaimedIsTyped DEF Error
  <2>4. TypeOfKind[KindOfStream[at]] = "BinanceDepthDiff"
    BY <1>7 DEF TypeOfKind, KindOfStream
  <2>5. QED
    BY <1>2, <1>7, <2>1, <2>3, <2>4, HasTime DEF Error
<1>8. CASE at = "bookTicker"
  <2>1. type = "bookTicker"
    BY <1>3, <1>8, TakesOneType
  <2>2. decoded = TypedOrUnknown(frame, "BinanceBookTicker", BinanceBookTicker, Has(frame.top, "u"))
    BY <1>5, <1>8 DEF DecodeBinance
  <2>3. decoded \in {"BinanceBookTicker", Error}
    BY <2>1, <2>2, <1>4, ClaimedIsTyped DEF Error
  <2>4. TypeOfKind[KindOfStream[at]] = "BinanceBookTicker"
    BY <1>8 DEF TypeOfKind, KindOfStream
  <2>5. QED
    BY <1>8, <2>3, <2>4 DEF Error
<1>9. CASE at = "depth_snapshot"
  BY <1>3, <1>9, TakesOneType
<1>10. QED
  BY <1>6, <1>7, <1>8, <1>9

(* What the Coinbase feed files as trades is trades, or an error.          *)
LEMMA CoinbaseTyped ==
  ASSUME venue = "coinbase", outcome = CoinbaseFrame(frame),
         outcome.stream.at = "market_trades",
         decoded = Decode(venue, outcome.stream, frame)
  PROVE  decoded \in {"CoinbaseMarketTrades", Error}
<1>1. decoded = DecodeCoinbase(outcome.stream, frame)
  BY DEF Decode
<1>2. QED
  BY <1>1, Zenon DEF DecodeCoinbase

(* What the Chainlink feed files as logs has a log, or is an error.        *)
LEMMA ChainlinkTyped ==
  ASSUME venue = "chainlink", outcome = ChainlinkFrame(frame),
         outcome.stream.at = "logs",
         decoded = Decode(venue, outcome.stream, frame)
  PROVE  decoded \in {"ChainlinkLog", Error}
<1>1. decoded = DecodeChainlink(frame)
  BY DEF Decode
<1>2. Is(frame.top, "method", "eth_subscription") /\ HasLog(frame)
  BY DEF ChainlinkFrame, Logged, Filed, Dropped, Panic, Unrouted, At
<1>3. QED
  BY <1>1, <1>2, Zenon DEF DecodeChainlink

(* A snapshot is read as one, as an error, or passed over if its id is not *)
(* there.                                                                  *)
LEMMA SnapshotTyped ==
  ASSUME Snapshot, decoded = Decode(venue, outcome.stream, frame)
  PROVE  /\ outcome.stream.at = "depth_snapshot"
         /\ decoded = TypedOrUnknown(frame, "BinanceDepthSnapshot", BinanceDepthSnapshot,
                                     Has(frame.top, "lastUpdateId"))
         /\ decoded \in {Error, IF Has(frame.top, "lastUpdateId") THEN "BinanceDepthSnapshot"
                                 ELSE Unknown}
<1>1. outcome.stream.at = "depth_snapshot"
  BY DEF Snapshot, Filed, At
<1>2. decoded = DecodeBinance(outcome.stream, frame)
  BY DEF Snapshot, Decode
<1>3. decoded = TypedOrUnknown(frame, "BinanceDepthSnapshot", BinanceDepthSnapshot,
                               Has(frame.top, "lastUpdateId"))
  BY <1>1, <1>2 DEF DecodeBinance
<1>4. ~Has(frame.top, "lastUpdateId") => ~Parses(frame.top, BinanceDepthSnapshot)
  BY DEF Parses, BinanceDepthSnapshot, Struct
<1>5. QED
  BY <1>1, <1>3, <1>4 DEF TypedOrUnknown

(* An item of Polymarket is of the type it names, or an error, or passed   *)
(* over if it names none.                                                  *)
LEMMA PolymarketTyped ==
  ASSUME venue = "polymarket", decoded = Decode(venue, outcome.stream, frame)
  PROVE  decoded \in {Error, IF Strange THEN Unknown ELSE TypeOfKind[KindNamed]}
<1> DEFINE type == IF IsText(frame.top, "event_type") THEN frame.top["event_type"] ELSE ""
           kinds == {"book", "price_change", "last_trade_price", "tick_size_change"}
<1>1. decoded = DecodePolymarket(frame)
  BY DEF Decode
<1>2. MessageKinds.polymarket = kinds
  BY DEF MessageKinds
<1>3. Strange <=> type \notin kinds
  <2>1. \A kind \in kinds : Is(frame.top, "event_type", kind) <=> type = kind
    BY DEF Is, IsText, Has, Text, Word, EventType
  <2>2. Strange <=> \A kind \in kinds : ~Is(frame.top, "event_type", kind)
    BY <1>2, Zenon DEF Strange
  <2>3. QED
    BY <2>1, <2>2
<1>4. type \in kinds => KindNamed = type
  BY Zenon DEF KindNamed, IsText
<1>5. CASE type \notin kinds
  <2>1. decoded \in {Error, Unknown}
    BY <1>1, <1>5 DEF DecodePolymarket
  <2>2. QED
    BY <1>3, <1>5, <2>1
<1>6. CASE type \in kinds
  <2> HIDE DEF type
  <2>1. \A name, st : TypedOrError(frame, name, st) \in {Error, name}
    BY DEF TypedOrError
  <2>2. CASE type = "book"
    <3>1. IsText(frame.top, "event_type") /\ frame.top["event_type"] = "book"
      BY <2>2 DEF type
    <3>2. decoded = Error \/ decoded = TypedOrError(frame, "PolymarketBook", PolymarketBook)
      BY <1>1, <3>1 DEF DecodePolymarket
    <3>3. TypeOfKind[type] = "PolymarketBook"
      BY <2>2 DEF TypeOfKind
    <3>4. QED
      BY <1>3, <1>4, <1>6, <2>1, <2>2, <3>2, <3>3
  <2>3. CASE type = "price_change"
    <3>1. IsText(frame.top, "event_type") /\ frame.top["event_type"] = "price_change"
      BY <2>3 DEF type
    <3>2. decoded = Error \/ decoded = TypedOrError(frame, "PolymarketPriceChange", PolymarketPriceChange)
      BY <1>1, <3>1 DEF DecodePolymarket
    <3>3. TypeOfKind[type] = "PolymarketPriceChange"
      BY <2>3 DEF TypeOfKind
    <3>4. QED
      BY <1>3, <1>4, <1>6, <2>1, <2>3, <3>2, <3>3
  <2>4. CASE type = "last_trade_price"
    <3>1. IsText(frame.top, "event_type") /\ frame.top["event_type"] = "last_trade_price"
      BY <2>4 DEF type
    <3>2. decoded = Error \/ decoded = TypedOrError(frame, "PolymarketLastTradePrice", PolymarketLastTradePrice)
      BY <1>1, <3>1 DEF DecodePolymarket
    <3>3. TypeOfKind[type] = "PolymarketLastTradePrice"
      BY <2>4 DEF TypeOfKind
    <3>4. QED
      BY <1>3, <1>4, <1>6, <2>1, <2>4, <3>2, <3>3
  <2>5. CASE type = "tick_size_change"
    <3>1. IsText(frame.top, "event_type") /\ frame.top["event_type"] = "tick_size_change"
      BY <2>5 DEF type
    <3>2. decoded = Error \/ decoded = TypedOrError(frame, "PolymarketTickSizeChange", PolymarketTickSizeChange)
      BY <1>1, <3>1 DEF DecodePolymarket
    <3>3. TypeOfKind[type] = "PolymarketTickSizeChange"
      BY <2>5 DEF TypeOfKind
    <3>4. QED
      BY <1>3, <1>4, <1>6, <2>1, <2>5, <3>2, <3>3
  <2>6. QED
    BY <1>6, <2>2, <2>3, <2>4, <2>5
<1>7. QED
  BY <1>5, <1>6

-----------------------------------------------------------------------------
(* Frames as documented                                                    *)

(* The frame is what the venue meant to send.                              *)
Intact ==
  /\ frame.json
  /\ frame.top = Message(sent.kind, sent.of).top
  /\ frame.items = Message(sent.kind, sent.of).items

(* What WholeFramesSurvive promises of a frame that is processed now.      *)
Survives ==
  /\ Processed.to = "file"
  /\ Decode(venue, Processed.stream, frame) = TypeOfKind[sent.kind]
  /\ Cardinality(Candidates(sent.kind)) <= 1 =>
       Processed.stream.of = IF venue = "polymarket" THEN "A" ELSE sent.of

(* The streams that could take a frame are those that do.                  *)
LEMMA MayTake ==
  ASSUME NEW s, NEW kind \in {"trade", "depthUpdate", "bookTicker"}
  PROVE  Takes(s, kind) <=> s.at \in IF kind = "depthUpdate" THEN {"depth", "depth20"} ELSE {kind}
  BY DEF Takes

(* A trade as documented is known by its type and is whole.                *)
LEMMA TradeIntact ==
  ASSUME Intact, sent.of \in {"A", "B"}, sent.kind = "trade"
  PROVE  /\ ~IsSubscribeAck(frame)
         /\ EventTypeOf(frame) = "trade"
         /\ Parses(frame.top, BinanceTrade)
<1>1. frame.top = [e |-> "trade", E |-> "int", s |-> sent.of, t |-> "int", p |-> "decimal",
          q |-> "decimal", T |-> "int", m |-> "bool"]
  BY DEF Intact, Message, Whole
<1>2. EventTypeOf(frame) = "trade" /\ ~IsSubscribeAck(frame)
  BY <1>1 DEF Intact, EventTypeOf, IsSubscribeAck, IsText, Has, Text, Word, EventType
<1>3. Parses(frame.top, BinanceTrade)
  BY <1>1 DEF Intact, Parses, BinanceTrade, Struct, None, Has, Num, Str, Text, Word, Decimal
<1>4. QED
  BY <1>2, <1>3

(* So is a diff of the order book.                                         *)
LEMMA DiffIntact ==
  ASSUME Intact, sent.of \in {"A", "B"}, sent.kind = "depthUpdate"
  PROVE  /\ ~IsSubscribeAck(frame)
         /\ EventTypeOf(frame) = "depthUpdate"
         /\ Parses(frame.top, BinanceDepthDiff)
<1>1. frame.top = [e |-> "depthUpdate", E |-> "int", s |-> sent.of, U |-> "int", u |-> "int",
          b |-> "list", a |-> "list"]
  BY DEF Intact, Message, Whole
<1>2. EventTypeOf(frame) = "depthUpdate" /\ ~IsSubscribeAck(frame)
  BY <1>1 DEF Intact, EventTypeOf, IsSubscribeAck, IsText, Has, Text, Word, EventType
<1>3. Parses(frame.top, BinanceDepthDiff)
  BY <1>1 DEF Intact, Parses, BinanceDepthDiff, Struct, None, Has, Num, Str, Text, Word, Decimal, Elem
<1>4. QED
  BY <1>2, <1>3

(* A book ticker, which has no type, is known by its shape.                *)
LEMMA TickerIntact ==
  ASSUME Intact, sent.of \in {"A", "B"}, sent.kind = "bookTicker"
  PROVE  /\ ~IsSubscribeAck(frame)
         /\ EventTypeOf(frame) = "bookTicker"
         /\ Parses(frame.top, BinanceBookTicker)
<1>1. frame.top = [u |-> "int", s |-> sent.of, b |-> "decimal", B |-> "decimal",
          a |-> "decimal", A |-> "decimal"]
  BY DEF Intact, Message, Whole
<1>2. EventTypeOf(frame) = "bookTicker" /\ ~IsSubscribeAck(frame)
  BY <1>1 DEF Intact, EventTypeOf, IsSubscribeAck, IsText, Has, Text, Word, EventType, IsBookTickerShape, Decimal
<1>3. Parses(frame.top, BinanceBookTicker)
  BY <1>1 DEF Intact, Parses, BinanceBookTicker, Struct, None, Has, Num, Str, Text, Word, Decimal
<1>4. QED
  BY <1>2, <1>3

(* The body of a snapshot is known by its id.                              *)
LEMMA SnapshotIntact ==
  ASSUME Intact, sent.kind = "depth_snapshot"
  PROVE  frame.json /\ Parses(frame.top, BinanceDepthSnapshot)
<1>1. frame.top = [lastUpdateId |-> "int", bids |-> "list", asks |-> "list"]
  BY DEF Intact, Message, Whole
<1>2. QED
  BY <1>1 DEF Intact, Parses, BinanceDepthSnapshot, Struct, None, Has, Num, Elem

(* A Binance frame is filed under a stream that was asked for it.          *)
LEMMA BinanceSurvives ==
  ASSUME venue = "binance", sent.kind \in {"trade", "depthUpdate", "bookTicker"},
         streams \in Seq([of : STRING, at : STRING]), sent.of \in {"A", "B"}, Intact, Subscribed
  PROVE  Survives
<1> DEFINE C == Candidates(sent.kind)
           s == PickStream(streams, sent.kind)
<1>1. /\ ~IsSubscribeAck(frame)
      /\ EventTypeOf(frame) = sent.kind
  BY TradeIntact, DiffIntact, TickerIntact
<1>2. EventTypeOf(frame) # "" /\ Processed = BinanceFrame(frame, streams)
  BY <1>1 DEF Processed
<1>3. Processed.to = "file" /\ Processed.stream = s
  BY <1>1, <1>2 DEF BinanceFrame, Filed
<1>4. Len(streams) \in Nat /\ DOMAIN streams = 1 .. Len(streams)
  OBVIOUS
<1>5. PICK j \in C : streams[j].of = sent.of
  BY DEF Subscribed
<1>6. \A i \in 1 .. Len(streams) : i \in C <=> Takes(streams[i], sent.kind)
  BY <1>4, MayTake DEF Candidates
<1>7. j \in 1 .. Len(streams) /\ Takes(streams[j], sent.kind)
  BY <1>4, <1>6 DEF Candidates
<1>8. PICK i \in 1 .. Len(streams) : s = streams[i] /\ Takes(streams[i], sent.kind)
  BY <1>4, <1>7, FirstTaker
<1>9. i \in C
  BY <1>6, <1>8
<1>10. Cardinality(C) <= 1 => s.of = sent.of
  <2>1. C \subseteq 1 .. Len(streams)
    BY <1>4 DEF Candidates
  <2>2. IsFiniteSet(C)
    <3>1. \A n \in Nat : IsFiniteSet(1 .. n)
      BY FS_Interval
    <3>2. QED
      BY <1>4, <2>1, <3>1, FS_Subset, Zenon
  <2>3. QED
    BY <1>5, <1>8, <1>9, <2>2, OneOfOne
<1>11. DecodeBinance(s, frame) = TypeOfKind[sent.kind]
  <2>1. CASE sent.kind = "trade"
    <3>1. s.at = "trade"
      BY <1>8, <2>1, MayTake
    <3>2. DecodeBinance(s, frame) =
            TypedOrUnknown(frame, "BinanceTrade", BinanceTrade, Is(frame.top, "e", "trade"))
      BY <3>1 DEF DecodeBinance
    <3>3. QED
      BY <2>1, <3>2, TradeIntact DEF TypedOrUnknown, Intact, TypeOfKind
  <2>2. CASE sent.kind = "depthUpdate"
    <3>1. s.at \in {"depth", "depth20"}
      BY <1>8, <2>2, MayTake
    <3>2. DecodeBinance(s, frame) =
            TypedOrUnknown(frame, "BinanceDepthDiff", BinanceDepthDiff,
                           Is(frame.top, "e", "depthUpdate"))
      BY <3>1 DEF DecodeBinance
    <3>3. QED
      BY <2>2, <3>2, DiffIntact DEF TypedOrUnknown, Intact, TypeOfKind
  <2>3. CASE sent.kind = "bookTicker"
    <3>1. s.at = "bookTicker"
      BY <1>8, <2>3, MayTake
    <3>2. DecodeBinance(s, frame) =
            TypedOrUnknown(frame, "BinanceBookTicker", BinanceBookTicker, Has(frame.top, "u"))
      BY <3>1 DEF DecodeBinance
    <3>3. QED
      BY <2>3, <3>2, TickerIntact DEF TypedOrUnknown, Intact, TypeOfKind
  <2>4. QED
    BY <2>1, <2>2, <2>3
<1>12. Decode(venue, s, frame) = DecodeBinance(s, frame)
  BY DEF Decode
<1>13. QED
  BY <1>3, <1>10, <1>11, <1>12 DEF Survives

(* Trades are filed under the product of the first one.                    *)
LEMMA CoinbaseSurvives ==
  ASSUME venue = "coinbase", sent.kind = "market_trades", sent.of \in {"A", "B"}, Intact
  PROVE  Survives
<1>1. /\ frame.json
      /\ frame.top = [channel |-> "market_trades", timestamp |-> "text",
                      sequence_num |-> "int", events |-> "list"]
      /\ frame.items = << TradeItem(sent.of), BatchItem >>
  BY DEF Intact, Message, Whole
<1>2. IsText(frame.items[1], "product_id") /\ frame.items[1]["product_id"] = sent.of
  BY <1>1 DEF Intact, IsText, Has, TradeItem, Text, Word
<1>3. FirstProduct(frame) = 1
  <2> DEFINE I == {i \in 1 .. Len(frame.items) : IsText(frame.items[i], "product_id")}
  <2>1. FirstProduct(frame) = IF I # {} THEN Min(I) ELSE 0
    BY <1>1 DEF FirstProduct, SelectInSeq, Is, Has
  <2>2. Len(frame.items) = 2
    BY <1>1
  <2>3. 1 \in I /\ \A i \in I : 1 <= i /\ i \in Nat
    BY <1>2, <2>2
  <2>4. Min(I) = 1
    BY <2>3 DEF Min
  <2>5. QED
    BY <2>1, <2>3, <2>4
<1>4. IsText(frame.top, "channel") /\ frame.top["channel"] = "market_trades"
  BY <1>1 DEF IsText, Has, Text, Word
<1>5. Processed = Filed(At(sent.of, "market_trades"), FALSE)
  <2>1. Processed = CoinbaseFrame(frame)
    BY DEF Processed
  <2>2. QED
    BY <1>1, <1>2, <1>3, <1>4, <2>1 DEF CoinbaseFrame
<1>6. /\ Processed.to = "file" /\ Processed.stream.of = sent.of
      /\ Processed.stream.at = "market_trades"
  BY <1>5 DEF Filed, At
<1>7. Parses(frame.top, CoinbaseWireFrame)
  BY <1>1 DEF Parses, CoinbaseWireFrame, Struct, None, Has, Num, Str, Text, Elem
<1>8. \A i \in DOMAIN frame.items :
        Parses(frame.items[i], IF Is(frame.items[i], "is", "trade") THEN CoinbaseTrade
                               ELSE CoinbaseTradeBatch)
  <2>1. Is(TradeItem(sent.of), "is", "trade") /\ ~Is(BatchItem, "is", "trade")
    BY DEF Is, Has, TradeItem, BatchItem
  <2>2. Parses(TradeItem(sent.of), CoinbaseTrade)
    BY DEF Intact, Parses, CoinbaseTrade, Struct, None, Has, Str, Text, Word, Decimal, TradeItem
  <2>3. Parses(BatchItem, CoinbaseTradeBatch)
    BY DEF Parses, CoinbaseTradeBatch, Struct, None, Has, Str, Text, Elem, BatchItem
  <2>4. \A i \in DOMAIN frame.items : frame.items[i] \in {TradeItem(sent.of), BatchItem}
    BY <1>1
  <2>5. QED
    BY <2>1, <2>2, <2>3, <2>4, Zenon
<1>9. DecodeCoinbase(Processed.stream, frame) = "CoinbaseMarketTrades"
  BY <1>1, <1>6, <1>7, <1>8, Zenon DEF DecodeCoinbase
<1>10. QED
  BY <1>6, <1>9 DEF Survives, Decode, TypeOfKind

(* A log is filed under its address.                                       *)
LEMMA ChainlinkSurvives ==
  ASSUME venue = "chainlink", sent.kind = "log", sent.of \in {"A", "B"}, Intact
  PROVE  Survives
<1>1. /\ frame.json
      /\ frame.top = [jsonrpc |-> "decimal", method |-> "eth_subscription",
                      params |-> "object", params_result |-> "object"]
      /\ frame.items = << LogItem(sent.of) >>
  BY DEF Intact, Message, Whole
<1>2. /\ ~IsSubscriptionAck(frame.top)
      /\ Is(frame.top, "method", "eth_subscription")
      /\ HasLog(frame)
  BY <1>1 DEF IsSubscriptionAck, HasLog, Is, Has
<1>3. IsText(frame.items[1], "address") /\ frame.items[1]["address"] = sent.of
  BY <1>1 DEF Intact, LogItem, IsText, Has, Text, Word
<1>4. Processed = Filed(At(sent.of, "logs"), FALSE)
  BY <1>1, <1>2, <1>3 DEF Processed, ChainlinkFrame
<1>5. Processed.to = "file" /\ Processed.stream.of = sent.of
  BY <1>4 DEF Filed, At
<1>6. Parses(frame.top, ChainlinkWireFrame) /\ Parses(frame.top, ChainlinkWireParams)
  BY <1>1 DEF Parses, ChainlinkWireFrame, ChainlinkWireParams, Struct, None, Has, Str, Text, Word, EventType
<1>7. Parses(frame.items[1], ChainlinkWireLog)
  BY <1>1 DEF Intact, LogItem, Parses, ChainlinkWireLog, Struct, None, Has, Str, Text, Word, EventType, Elem
<1>8. DecodeChainlink(frame) = "ChainlinkLog"
  BY <1>1, <1>2, <1>6, <1>7, Zenon DEF DecodeChainlink
<1>9. QED
  BY <1>5, <1>8 DEF Survives, Decode, TypeOfKind

(* An item of a known market is filed under that market.                   *)
LEMMA PolymarketSurvives ==
  ASSUME venue = "polymarket", known, Intact,
         sent.kind \in {"book", "price_change", "last_trade_price", "tick_size_change"}
  PROVE  Survives
<1>1. /\ Has(frame.top, "market") /\ frame.top["market"] = "text"
      /\ Has(frame.top, "event_type") /\ frame.top["event_type"] = sent.kind
  <2>1. CASE sent.kind = "book"
    BY <2>1 DEF Intact, Message, Whole, Has
  <2>2. CASE sent.kind = "price_change"
    BY <2>2 DEF Intact, Message, Whole, Has
  <2>3. CASE sent.kind = "last_trade_price"
    BY <2>3 DEF Intact, Message, Whole, Has
  <2>4. CASE sent.kind = "tick_size_change"
    BY <2>4 DEF Intact, Message, Whole, Has
  <2>5. QED
    BY <2>1, <2>2, <2>3, <2>4
<1>2. Processed = Filed(At("A", ""), FALSE)
  <2>1. frame.json /\ IsText(frame.top, "market")
    BY <1>1 DEF Intact, IsText, Text
  <2>2. QED
    BY <2>1 DEF Processed, PolymarketFrame
<1>3. Processed.to = "file" /\ Processed.stream.of = "A"
  BY <1>2 DEF Filed, At
<1>4. IsText(frame.top, "event_type") /\ frame.top["event_type"] = sent.kind
  BY <1>1 DEF IsText, Text, Word, EventType
<1>5. DecodePolymarket(frame) = TypeOfKind[sent.kind]
  <2>1. CASE sent.kind = "book"
    <3>1. frame.top = [event_type |-> "book", asset_id |-> "text", market |-> "text",
            timestamp |-> "digits", hash |-> "text", bids |-> "list", asks |-> "list"]
      BY <2>1 DEF Intact, Message, Whole
    <3>2. Parses(frame.top, PolymarketBook)
      BY <3>1 DEF Parses, PolymarketBook, Struct, None, Has, Str, Text, Decimal, Elem
    <3>3. QED
      BY <1>4, <2>1, <3>2 DEF DecodePolymarket, TypedOrError, Intact, TypeOfKind
  <2>2. CASE sent.kind = "price_change"
    <3>1. /\ frame.top = [event_type |-> "price_change", market |-> "text",
               timestamp |-> "digits", price_changes |-> "list"]
          /\ frame.items = << ChangeItem >>
      BY <2>2 DEF Intact, Message, Whole
    <3>2. Parses(frame.top, PolymarketPriceChange)
      BY <3>1 DEF Parses, PolymarketPriceChange, Struct, None, Has, Str, Text, Decimal, Elem
    <3>3. Parses(ChangeItem, PolymarketPriceChangeItem)
      BY DEF ChangeItem, Parses, PolymarketPriceChangeItem, Struct, None, Has, Str, Text, Decimal
    <3>4. \A i \in DOMAIN frame.items : Parses(frame.items[i], PolymarketPriceChangeItem)
      BY <3>1, <3>3
    <3>5. QED
      BY <1>4, <2>2, <3>2, <3>4 DEF DecodePolymarket, TypedOrError, Intact, TypeOfKind
  <2>3. CASE sent.kind = "last_trade_price"
    <3>1. frame.top = [event_type |-> "last_trade_price", asset_id |-> "text",
            market |-> "text", timestamp |-> "digits", price |-> "decimal",
            size |-> "decimal", side |-> "BUY", fee_rate_bps |-> "digits"]
      BY <2>3 DEF Intact, Message, Whole
    <3>2. {"text", "digits"} \subseteq Str /\ "digits" \in Value
      BY DEF Str, Text, Decimal, Value
    <3>3. Parses(frame.top, PolymarketLastTradePrice)
      BY <3>1, <3>2 DEF Parses, PolymarketLastTradePrice, Struct, None, Has, Decimal
    <3>4. QED
      BY <1>4, <2>3, <3>3 DEF DecodePolymarket, TypedOrError, Intact, TypeOfKind
  <2>4. CASE sent.kind = "tick_size_change"
    <3>1. frame.top = [event_type |-> "tick_size_change", asset_id |-> "text",
            market |-> "text", timestamp |-> "digits", old_tick_size |-> "decimal",
            new_tick_size |-> "decimal"]
      BY <2>4 DEF Intact, Message, Whole
    <3>2. Parses(frame.top, PolymarketTickSizeChange)
      BY <3>1 DEF Parses, PolymarketTickSizeChange, Struct, None, Has, Str, Text, Decimal
    <3>3. QED
      BY <1>4, <2>4, <3>2 DEF DecodePolymarket, TypedOrError, Intact, TypeOfKind
  <2>5. QED
    BY <2>1, <2>2, <2>3, <2>4
<1>6. QED
  BY <1>3, <1>5 DEF Survives, Decode

(* A frame as documented that was subscribed to is filed and read as what  *)
(* it is.                                                                  *)
LEMMA IntactSurvives ==
  ASSUME venue \in DOMAIN MessageKinds, sent.kind \in MessageKinds[venue],
         sent.kind # "depth_snapshot",
         streams \in Seq([of : STRING, at : STRING]), sent.of \in {"A", "B"}, Intact, Subscribed
  PROVE  Survives
<1>1. sent.kind \in DOMAIN TypeOfKind
  BY DEF Subscribed
<1>2. CASE venue = "binance"
  <2>1. sent.kind \in {"trade", "depthUpdate", "bookTicker"}
    BY <1>1, <1>2 DEF MessageKinds, TypeOfKind
  <2>2. QED
    BY <1>2, <2>1, BinanceSurvives
<1>3. CASE venue = "coinbase"
  <2>1. sent.kind = "market_trades"
    BY <1>1, <1>3 DEF MessageKinds, TypeOfKind
  <2>2. QED
    BY <1>3, <2>1, CoinbaseSurvives
<1>4. CASE venue = "chainlink"
  <2>1. sent.kind = "log"
    BY <1>1, <1>4 DEF MessageKinds, TypeOfKind
  <2>2. QED
    BY <1>4, <2>1, ChainlinkSurvives
<1>5. CASE venue = "polymarket"
  <2>1. /\ sent.kind \in {"book", "price_change", "last_trade_price", "tick_size_change"}
        /\ known
    BY <1>5 DEF MessageKinds, Subscribed
  <2>2. QED
    BY <1>5, <2>1, PolymarketSurvives
<1>6. venue # "gamma"
  BY DEF MessageKinds
<1>7. QED
  BY <1>2, <1>3, <1>4, <1>5, <1>6 DEF MessageKinds

-----------------------------------------------------------------------------
(* The calendar                                                            *)

(* Leap years before the year y, counted from the year 0, and those from   *)
(* one year up to another.                                                 *)
Leaps(y) == (y - 1) \div 4 - (y - 1) \div 100 + (y - 1) \div 400
LeapsFrom(a, b) == {k \in a .. b - 1 : Leap(k)}

(* A leap year adds one.                                                   *)
LEMMA LeapsStep ==
  ASSUME NEW y \in Int
  PROVE  Leaps(y + 1) = Leaps(y) + (IF Leap(y) THEN 1 ELSE 0) /\ Leaps(y) \in Int
  BY DEF Leaps, Leap

(* One more year.                                                          *)
LEMMA OneMoreYear ==
  ASSUME NEW a \in Int, NEW b \in Int, a <= b, IsFiniteSet(LeapsFrom(a, b))
  PROVE  /\ IsFiniteSet(LeapsFrom(a, b + 1))
         /\ Cardinality(LeapsFrom(a, b + 1)) =
              Cardinality(LeapsFrom(a, b)) + (IF Leap(b) THEN 1 ELSE 0)
<1>1. b \notin LeapsFrom(a, b)
  BY DEF LeapsFrom
<1>2. CASE Leap(b)
  <2>1. LeapsFrom(a, b + 1) = LeapsFrom(a, b) \union {b}
    BY <1>2 DEF LeapsFrom
  <2>2. QED
    BY <1>1, <1>2, <2>1, FS_AddElement
<1>3. CASE ~Leap(b)
  <2>1. LeapsFrom(a, b + 1) = LeapsFrom(a, b)
    BY <1>3 DEF LeapsFrom
  <2>2. Cardinality(LeapsFrom(a, b)) \in Nat
    BY FS_CardinalityType
  <2>3. QED
    BY <1>3, <2>1, <2>2
<1>4. QED
  BY <1>2, <1>3

(* Leap years over n years, by the least n for which the count is wrong.   *)
LEMMA LeapsCounted ==
  ASSUME NEW a \in Int, NEW n \in Nat
  PROVE  /\ IsFiniteSet(LeapsFrom(a, a + n))
         /\ Cardinality(LeapsFrom(a, a + n)) = Leaps(a + n) - Leaps(a)
<1> DEFINE Good(k) == /\ IsFiniteSet(LeapsFrom(a, a + k))
                      /\ Cardinality(LeapsFrom(a, a + k)) = Leaps(a + k) - Leaps(a)
           Bad == {k \in Nat : ~Good(k)}
<1>1. Good(0)
  <2>1. LeapsFrom(a, a + 0) = {}
    BY DEF LeapsFrom
  <2>2. Leaps(a + 0) = Leaps(a) /\ Leaps(a) \in Int
    BY LeapsStep
  <2>3. QED
    BY <2>1, <2>2, FS_EmptySet
<1>2. ASSUME NEW k \in Nat, Good(k) PROVE Good(k + 1)
  <2>1. a + k \in Int /\ a <= a + k /\ a + (k + 1) = (a + k) + 1
    OBVIOUS
  <2>2. /\ IsFiniteSet(LeapsFrom(a, a + (k + 1)))
        /\ Cardinality(LeapsFrom(a, a + (k + 1))) =
             Cardinality(LeapsFrom(a, a + k)) + (IF Leap(a + k) THEN 1 ELSE 0)
    BY <1>2, <2>1, OneMoreYear
  <2>3. Leaps(a + (k + 1)) = Leaps(a + k) + (IF Leap(a + k) THEN 1 ELSE 0)
    BY <2>1, LeapsStep
  <2>4. Leaps(a + k) \in Int /\ Leaps(a) \in Int
    BY <2>1, LeapsStep
  <2>5. QED
    BY <1>2, <2>2, <2>3, <2>4
<1>3. Bad = {}
  <2> SUFFICES ASSUME Bad # {} PROVE FALSE
    OBVIOUS
  <2>1. PICK k \in Bad : \A j \in Bad : k <= j
    <3> HIDE DEF Good
    <3>1. Bad \in SUBSET Nat
      OBVIOUS
    <3>2. QED
      BY <3>1, SmallestOf, Zenon
  <2> HIDE DEF Good
  <2>2. k \in Nat /\ ~Good(k)
    OBVIOUS
  <2>3. k # 0
    BY <1>1, <2>2
  <2>4. k - 1 \in Nat /\ Good(k - 1)
    BY <2>1, <2>2, <2>3
  <2>5. Good((k - 1) + 1)
    BY <1>2, <2>4
  <2>6. (k - 1) + 1 = k
    BY <2>2
  <2>7. QED
    BY <2>2, <2>5, <2>6
<1>4. QED
  BY <1>3

(* Nothing to count.                                                       *)
LEMMA NoneCounted == Cardinality({}) = 0
  BY FS_EmptySet

(* Leap years between two years.                                           *)
LEMMA LeapsBetween ==
  ASSUME NEW a \in Int, NEW b \in Int, a <= b
  PROVE  Cardinality(LeapsFrom(a, b)) = Leaps(b) - Leaps(a)
<1>1. b - a \in Nat /\ a + (b - a) = b
  OBVIOUS
<1>2. \A n \in Nat : Cardinality(LeapsFrom(a, a + n)) = Leaps(a + n) - Leaps(a)
  BY LeapsCounted
<1>3. QED
  BY <1>1, <1>2

(* There are finitely many.                                                *)
LEMMA LeapsAreFinite ==
  ASSUME NEW a \in Int, NEW b \in Int
  PROVE  Cardinality({k \in a .. b : Leap(k)}) \in Nat
<1>1. IsFiniteSet(a .. b)
  BY FS_Interval
<1>2. {k \in a .. b : Leap(k)} \subseteq a .. b
  OBVIOUS
<1>3. QED
  BY <1>1, <1>2, FS_Subset, FS_CardinalityType

(* The days counted in the calendar, without counting.                     *)
LEMMA DaysCounted ==
  ASSUME NEW y \in Nat, NEW m \in 1 .. 12, NEW d \in Nat
  PROVE  DaysSince1970(y, m, d) =
           365 * (y - 1970) + Leaps(y) - 477
             + DaysBefore[m] + (IF m > 2 /\ Leap(y) THEN 1 ELSE 0) + d - 1
<1>1. Leaps(1970) = 477 /\ Leaps(y) \in Int
  BY LeapsStep DEF Leaps
<1>2. Cardinality(LeapsFrom(1970, y)) - Cardinality(LeapsFrom(y, 1970)) = Leaps(y) - 477
  <2>1. CASE y >= 1970
    <3>1. Cardinality(LeapsFrom(1970, y)) = Leaps(y) - Leaps(1970)
      BY <2>1, LeapsBetween
    <3>2. LeapsFrom(y, 1970) = {}
      BY <2>1 DEF LeapsFrom
    <3>3. Cardinality(LeapsFrom(y, 1970)) = 0
      BY <3>2, NoneCounted, SMT
    <3>4. QED
      BY <1>1, <3>1, <3>3, SMT
  <2>2. CASE y < 1970
    <3>1. Cardinality(LeapsFrom(y, 1970)) = Leaps(1970) - Leaps(y)
      BY <2>2, LeapsBetween
    <3>2. LeapsFrom(1970, y) = {}
      BY <2>2 DEF LeapsFrom
    <3>3. Cardinality(LeapsFrom(1970, y)) = 0
      BY <3>2, NoneCounted, SMT
    <3>4. QED
      BY <1>1, <3>1, <3>3, SMT
  <2>3. QED
    BY <2>1, <2>2
<1>3. LeapsFrom(1970, y) = {k \in 1970 .. y - 1 : Leap(k)} /\ LeapsFrom(y, 1970) = {k \in y .. 1969 : Leap(k)}
  BY DEF LeapsFrom
<1>4. DaysBefore[m] \in Int
  BY DEF DaysBefore
<1> DEFINE A == Cardinality({k \in 1970 .. y - 1 : Leap(k)})
           B == Cardinality({k \in y .. 1969 : Leap(k)})
<1>5. A - B = Leaps(y) - 477
  BY <1>2, <1>3
<1>6. A \in Nat /\ B \in Nat
  BY LeapsAreFinite
<1>7. DaysSince1970(y, m, d) =
        365 * (y - 1970) + A - B + DaysBefore[m] + (IF m > 2 /\ Leap(y) THEN 1 ELSE 0) + d - 1
  BY DEF DaysSince1970
<1> HIDE DEF A, B
<1>8. QED
  BY <1>1, <1>4, <1>5, <1>6, <1>7

(* The days_from_civil of both parsers counts the days of the calendar.    *)
LEMMA CivilIsCounted ==
  ASSUME NEW y \in Nat, NEW m \in 1 .. 12, NEW d \in Nat
  PROVE  DaysFromCivil(y, m, d) = DaysSince1970(y, m, d)
<1> DEFINE y1  == IF m <= 2 THEN y - 1 ELSE y
           era == y1 \div 400
           yoe == y1 - era * 400
           mp  == IF m > 2 THEN m - 3 ELSE m + 9
           moy == (153 * mp + 2) \div 5
<1>1. y1 \in Int
  OBVIOUS
<1>2. /\ era \in Int /\ yoe \in Int
      /\ yoe \div 4 = y1 \div 4 - 100 * era
      /\ yoe \div 100 = y1 \div 100 - 4 * era
  BY <1>1
<1>3. DaysFromCivil(y, m, d) =
        365 * y1 + y1 \div 4 - y1 \div 100 + y1 \div 400 + moy + d - 1 - 719468
  BY <1>1, <1>2, SMT DEF DaysFromCivil
<1>4. moy + 59 = DaysBefore[m] + (IF m <= 2 THEN 365 ELSE 0)
  BY DEF DaysBefore
<1>5. y1 \div 4 - y1 \div 100 + y1 \div 400 =
        Leaps(y) + (IF m > 2 /\ Leap(y) THEN 1 ELSE 0)
  BY LeapsStep DEF Leaps
<1>6. DaysSince1970(y, m, d) =
        365 * (y - 1970) + Leaps(y) - 477
          + DaysBefore[m] + (IF m > 2 /\ Leap(y) THEN 1 ELSE 0) + d - 1
  BY DaysCounted
<1>7. Leaps(y) \in Int /\ DaysBefore[m] \in Int
  BY LeapsStep DEF DaysBefore
<1> DEFINE leaps == y1 \div 4 - y1 \div 100 + y1 \div 400
<1>8. /\ leaps = Leaps(y) + (IF m > 2 /\ Leap(y) THEN 1 ELSE 0)
      /\ DaysFromCivil(y, m, d) = 365 * y1 + leaps + moy + d - 1 - 719468
  BY <1>1, <1>3, <1>5, SMT
<1>9. moy \in Int /\ leaps \in Int /\ y1 = y - (IF m <= 2 THEN 1 ELSE 0)
  BY <1>1
<1> HIDE DEF y1, era, yoe, mp, moy, leaps
<1>10. CASE m <= 2
  BY <1>4, <1>6, <1>7, <1>8, <1>9, <1>10, SMT
<1>11. CASE m > 2
  BY <1>4, <1>6, <1>7, <1>8, <1>9, <1>11, SMT
<1>12. QED
  BY <1>10, <1>11, SMT

-----------------------------------------------------------------------------
(* A closed market                                                         *)

(* What has an outcome has two prices, one of them a 1 beside its label.   *)
LEMMA RecordedIs ==
  ASSUME NEW ev \in Event, Recorded(ev)
  PROVE  /\ ev.labels \in YesFirst \union NoFirst
         /\ GammaEpoch(EndDate(ev)) # NoTime
         /\ MapEventMarket(ev).end = GammaEpoch(EndDate(ev))
         /\ Len(ev.prices) = 2
         /\ \/ Trimmed(ev.prices[1]) = "1" /\ MapEventMarket(ev).label = ev.labels[1]
            \/ Trimmed(ev.prices[2]) = "1" /\ MapEventMarket(ev).label = ev.labels[2]
<1> DEFINE yes == YesIndex(ev)
           no  == 3 - yes
           good == /\ ev.id /\ ev.named /\ ev.tokens = 2
                   /\ ev.labels \in YesFirst \union NoFirst
                   /\ GammaEpoch(EndDate(ev)) # NoTime
           found == IF Len(ev.prices) # 2 THEN ""
                    ELSE IF Trimmed(ev.prices[yes]) = "1" THEN ev.labels[yes]
                    ELSE IF Trimmed(ev.prices[no]) = "1" THEN ev.labels[no]
                    ELSE ""
<1>1. MapEventMarket(ev) =
        IF good THEN [ok |-> TRUE, end |-> GammaEpoch(EndDate(ev)), label |-> found]
        ELSE Refused
  BY Zenon DEF MapEventMarket
<1>2. yes \in {1, 2}
  BY Zenon DEF YesIndex
<1>3. (yes = 1 /\ no = 2) \/ (yes = 2 /\ no = 1)
  BY <1>2
<1>4. found # "" =>
           /\ Len(ev.prices) = 2
           /\ \/ Trimmed(ev.prices[1]) = "1" /\ found = ev.labels[1]
              \/ Trimmed(ev.prices[2]) = "1" /\ found = ev.labels[2]
  <2>1. CASE yes = 1 /\ no = 2
    BY <2>1
  <2>2. CASE yes = 2 /\ no = 1
    BY <2>2
  <2>3. QED
    BY <1>3, <2>1, <2>2
<1>5. good => /\ ev.labels \in YesFirst \union NoFirst
              /\ GammaEpoch(EndDate(ev)) # NoTime
  OBVIOUS
<1> HIDE DEF good, found, yes, no
<1>6. good
  <2>1. ~good => MapEventMarket(ev) = Refused
    BY <1>1, Zenon
  <2>2. ~Refused.ok
    BY DEF Refused
  <2>3. QED
    BY <2>1, <2>2, Zenon DEF Recorded
<1>7. MapEventMarket(ev) = [ok |-> TRUE, end |-> GammaEpoch(EndDate(ev)), label |-> found]
  BY <1>1, <1>6, Zenon
<1>8. /\ MapEventMarket(ev).end = GammaEpoch(EndDate(ev))
      /\ MapEventMarket(ev).label = found
  BY <1>7
<1>9. found # ""
  BY <1>8 DEF Recorded
<1>10. QED
  BY <1>4, <1>5, <1>6, <1>8, <1>9

(* The prices that the replayer wants, spelled out.                        *)
LEMMA DecodedIs ==
  ASSUME NEW ev \in Event
  PROVE  DecodeResolution(ev).label =
           IF Len(ev.labels) = 2 /\ Len(ev.prices) = 2
           THEN IF DecimalOf(ev.prices[1]) = 100 /\ DecimalOf(ev.prices[2]) = 0 THEN ev.labels[1]
                ELSE IF DecimalOf(ev.prices[1]) = 0 /\ DecimalOf(ev.prices[2]) = 100 THEN ev.labels[2]
                ELSE ""
           ELSE ""
<1> DEFINE paired == Len(ev.labels) = 2 /\ Len(ev.prices) = 2
           prices == [i \in DOMAIN ev.prices |-> DecimalOf(ev.prices[i])]
<1>1. DecodeResolution(ev).label =
        IF paired /\ prices = <<100, 0>> THEN ev.labels[1]
        ELSE IF paired /\ prices = <<0, 100>> THEN ev.labels[2]
        ELSE ""
  BY DEF DecodeResolution
<1>2. ASSUME paired, NEW a, NEW b
      PROVE  prices = <<a, b>> <=> DecimalOf(ev.prices[1]) = a /\ DecimalOf(ev.prices[2]) = b
  <2>1. DOMAIN ev.prices = 1 .. 2
    BY <1>2 DEF Event
  <2>2. DOMAIN prices = 1 .. 2 /\ prices[1] = DecimalOf(ev.prices[1]) /\ prices[2] = DecimalOf(ev.prices[2])
    BY <2>1
  <2>3. DOMAIN <<a, b>> = 1 .. 2 /\ <<a, b>>[1] = a /\ <<a, b>>[2] = b
    OBVIOUS
  <2>4. ASSUME prices[1] = a, prices[2] = b PROVE prices = <<a, b>>
    <3>1. <<a, b>> = [i \in 1 .. 2 |-> <<a, b>>[i]]
      OBVIOUS
    <3>2. prices = [i \in 1 .. 2 |-> prices[i]]
      BY <2>1
    <3>3. \A i \in 1 .. 2 : prices[i] = <<a, b>>[i]
      BY <2>3, <2>4
    <3>4. QED
      BY <3>1, <3>2, <3>3
  <2>5. QED
    BY <2>2, <2>3, <2>4
<1>3. CASE paired
  <2>1. prices = <<100, 0>> <=> DecimalOf(ev.prices[1]) = 100 /\ DecimalOf(ev.prices[2]) = 0
    BY <1>2, <1>3
  <2>2. prices = <<0, 100>> <=> DecimalOf(ev.prices[1]) = 0 /\ DecimalOf(ev.prices[2]) = 100
    BY <1>2, <1>3
  <2> HIDE DEF prices
  <2>3. QED
    BY <1>1, <1>3, <2>1, <2>2
<1>4. CASE ~paired
  BY <1>1, <1>4, Zenon
<1>5. QED
  BY <1>3, <1>4, Zenon

(* How a price is spelled and what it is worth.                            *)
LEMMA PriceSpelled ==
  ASSUME NEW p \in Spelling
  PROVE  /\ DecimalOf(p) = 100 => p \in {"1", "1.0"}
         /\ DecimalOf(p) = 0 <=> p = "0"
         /\ p = "1" => DecimalOf(p) = 100
         /\ Trimmed(p) = "1" <=> p \in {"1", " 1"}
<1>1. DecimalOf(p) = CASE p \in {"1", "1.0"} -> 100 [] p = "0.62" -> 62 [] p = "0" -> 0
                      [] OTHER -> -1
  BY Zenon DEF DecimalOf
<1>2. p \in {"1", "1.0"} => DecimalOf(p) = 100
  BY <1>1, Zenon
<1>3. p = "0.62" => DecimalOf(p) = 62
  BY <1>1, Zenon
<1>4. p = "0" => DecimalOf(p) = 0
  BY <1>1, Zenon
<1>5. p \in {" 1", "n/a"} => DecimalOf(p) = -1
  BY <1>1, Zenon
<1>6. Trimmed(p) = "1" <=> p \in {"1", " 1"}
  BY Zenon DEF Trimmed
<1>7. 100 # 62 /\ 100 # 0 /\ 100 # -1 /\ 0 # 62 /\ 0 # -1
  OBVIOUS
<1>8. QED
  BY <1>2, <1>3, <1>4, <1>5, <1>6, <1>7, Zenon DEF Spelling

(* A record has two labels and names the one beside a price of 1.          *)
LEMMA BuiltIs ==
  ASSUME NEW ev \in Event, BuildRecord(ev).ok
  PROVE  /\ BuildRecord(ev).end = MapEventMarket(ev).end
         /\ Len(ev.labels) = 2 /\ Len(ev.prices) = 2
         /\ \/ ev.prices[1] = "1" /\ BuildRecord(ev).label = ev.labels[1]
            \/ ev.prices[2] = "1" /\ BuildRecord(ev).label = ev.labels[2]
<1> DEFINE good == /\ ev.id /\ ev.tokens = 2 /\ Len(ev.labels) = 2 /\ Len(ev.prices) = 2
                   /\ \E i \in 1 .. 2 : ev.prices[i] = "1"
           winner == ev.labels[IF ev.prices[1] = "1" THEN 1 ELSE 2]
<1>1. BuildRecord(ev) =
        IF good THEN [ok |-> TRUE, end |-> MapEventMarket(ev).end, label |-> winner]
        ELSE Refused
  BY Zenon DEF BuildRecord
<1>2. good => /\ Len(ev.labels) = 2 /\ Len(ev.prices) = 2
              /\ \/ ev.prices[1] = "1" /\ winner = ev.labels[1]
                 \/ ev.prices[2] = "1" /\ winner = ev.labels[2]
  OBVIOUS
<1> HIDE DEF good, winner
<1>3. good
  <2>1. ~good => BuildRecord(ev) = Refused
    BY <1>1, Zenon
  <2>2. ~Refused.ok
    BY DEF Refused
  <2>3. QED
    BY <2>1, <2>2, Zenon
<1>4. BuildRecord(ev) = [ok |-> TRUE, end |-> MapEventMarket(ev).end, label |-> winner]
  BY <1>1, <1>3, Zenon
<1>5. BuildRecord(ev).end = MapEventMarket(ev).end /\ BuildRecord(ev).label = winner
  BY <1>4
<1>6. QED
  BY <1>2, <1>3, <1>5

(* The record and its replay name the same winner, or the replay none.     *)
LEMMA ReplayAgrees ==
  ASSUME NEW ev \in Event, BuildRecord(ev).ok
  PROVE  /\ DecodeResolution(ev).label \in {"", BuildRecord(ev).label}
         /\ ev.prices \in {<<"1", "0">>, <<"0", "1">>} =>
              DecodeResolution(ev).label = BuildRecord(ev).label
<1>1. Len(ev.prices) = 2 /\ ev.prices[1] \in Spelling /\ ev.prices[2] \in Spelling
  BY BuiltIs DEF Event
<1>2. Len(ev.labels) = 2
  BY BuiltIs
<1>3. \/ ev.prices[1] = "1" /\ BuildRecord(ev).label = ev.labels[1]
      \/ ev.prices[2] = "1" /\ BuildRecord(ev).label = ev.labels[2]
  BY BuiltIs
<1>4. \/ /\ ev.prices[1] \in {"1", "1.0"} /\ ev.prices[2] = "0"
         /\ DecodeResolution(ev).label = ev.labels[1]
      \/ /\ ev.prices[2] \in {"1", "1.0"} /\ ev.prices[1] = "0"
         /\ DecodeResolution(ev).label = ev.labels[2]
      \/ DecodeResolution(ev).label = ""
  <2>1. DecodeResolution(ev).label =
          IF DecimalOf(ev.prices[1]) = 100 /\ DecimalOf(ev.prices[2]) = 0 THEN ev.labels[1]
          ELSE IF DecimalOf(ev.prices[1]) = 0 /\ DecimalOf(ev.prices[2]) = 100 THEN ev.labels[2]
          ELSE ""
    BY <1>1, <1>2, DecodedIs
  <2>2. /\ DecimalOf(ev.prices[1]) = 100 => ev.prices[1] \in {"1", "1.0"}
        /\ DecimalOf(ev.prices[1]) = 0 => ev.prices[1] = "0"
    BY <1>1, PriceSpelled, Zenon
  <2>3. /\ DecimalOf(ev.prices[2]) = 100 => ev.prices[2] \in {"1", "1.0"}
        /\ DecimalOf(ev.prices[2]) = 0 => ev.prices[2] = "0"
    BY <1>1, PriceSpelled, Zenon
  <2>4. QED
    BY <2>1, <2>2, <2>3, Zenon
<1>5. /\ ev.prices[1] = "1" /\ ev.prices[2] = "0" => DecodeResolution(ev).label = ev.labels[1]
      /\ ev.prices[1] = "0" /\ ev.prices[2] = "1" => DecodeResolution(ev).label = ev.labels[2]
  BY <1>1, <1>2, DecodedIs, PriceSpelled
<1>6. ev.prices \in {<<"1", "0">>, <<"0", "1">>} =>
        \/ ev.prices[1] = "1" /\ ev.prices[2] = "0"
        \/ ev.prices[1] = "0" /\ ev.prices[2] = "1"
  OBVIOUS
<1>7. QED
  BY <1>3, <1>4, <1>5, <1>6

(* With prices of 1 and 0 the registry has the winner of the record.       *)
LEMMA OutcomeAgrees ==
  ASSUME NEW ev \in Event, Recorded(ev), BuildRecord(ev).ok,
         ev.prices \in {<<"1", "0">>, <<"0", "1">>}
  PROVE  MapEventMarket(ev).label = BuildRecord(ev).label
<1>1. \/ ev.prices[1] = "1" /\ ev.prices[2] = "0"
      \/ ev.prices[1] = "0" /\ ev.prices[2] = "1"
  OBVIOUS
<1>2. "0" \in Spelling /\ Trimmed("0") # "1"
  BY Zenon DEF Trimmed, Spelling
<1>3. \/ Trimmed(ev.prices[1]) = "1" /\ MapEventMarket(ev).label = ev.labels[1]
      \/ Trimmed(ev.prices[2]) = "1" /\ MapEventMarket(ev).label = ev.labels[2]
  BY RecordedIs
<1>4. \/ ev.prices[1] = "1" /\ BuildRecord(ev).label = ev.labels[1]
      \/ ev.prices[2] = "1" /\ BuildRecord(ev).label = ev.labels[2]
  BY BuiltIs
<1>5. QED
  BY <1>1, <1>2, <1>3, <1>4

(* They name the same end, and the calendar's.                             *)
LEMMA EndsAgree ==
  ASSUME NEW ev \in Event, Recorded(ev), BuildRecord(ev).ok
  PROVE  /\ DecodeResolution(ev).end = BuildRecord(ev).end
         /\ DecodeResolution(ev).end = Counted(EndDate(ev))
<1> DEFINE t == EndDate(ev)
<1>1. t \in Date
  BY DEF EndDate, Event
<1>2. /\ t.zone \in {"Z", "+00:00", "-00:00"}
      /\ t.secs /\ InMonth(t)
      /\ GammaEpoch(t) = <<DaysFromCivil(t.y, t.mo, t.d), SecondOfDay(t)>>
  BY RecordedIs DEF GammaEpoch
<1>3. t # NoDate
  <2>1. NoDate.zone = ""
    BY DEF NoDate
  <2>2. QED
    BY <1>2, <2>1
<1>4. DecodeResolution(ev).end = DecodedEpoch(t)
  BY <1>3 DEF DecodeResolution
<1>5. DecodedEpoch(t) = <<DaysFromCivil(t.y, t.mo, t.d), SecondOfDay(t)>>
  BY <1>2 DEF DecodedEpoch
<1>6. SecondOfDay(t) = t.h * 3600 + t.mi * 60 + t.s
  BY <1>1, <1>2 DEF SecondOfDay
<1>7. t.y \in Nat /\ t.mo \in 1 .. 12 /\ t.d \in Nat
  <2> HIDE DEF t
  <2>1. t.y \in 0 .. LastYear /\ LastYear \in Nat
    BY <1>1 DEF Date, LastYear
  <2>2. t.y \in Nat
    BY <2>1
  <2>3. t.d \in Nat
    BY <1>1 DEF Date
  <2>4. t.mo \in 1 .. 12
    BY <1>2 DEF InMonth
  <2>5. QED
    BY <2>2, <2>3, <2>4
<1>8. DaysFromCivil(t.y, t.mo, t.d) = DaysSince1970(t.y, t.mo, t.d)
  BY <1>7, CivilIsCounted
<1>9. QED
  BY <1>2, <1>4, <1>5, <1>6, <1>8, RecordedIs, BuiltIs, SMT DEF Counted

-----------------------------------------------------------------------------
(* The invariant of Records                                                *)

(* A frame is what was sent until one of its fields is damaged.            *)
AsSent ==
  stage # "idle" /\ venue # "gamma" =>
    /\ sent.of \in {"A", "B"}
    /\ sent.kind \in MessageKinds[venue]
    /\ defects = 0 => Intact

(* A record is a snapshot as it came or what process_text made of a frame, *)
(* and is read as it was filed.                                            *)
AsFiled ==
  /\ stage \in {"stored", "decoded"} /\ venue # "gamma" =>
       IF sent.kind = "depth_snapshot" THEN Snapshot ELSE outcome = Processed
  /\ stage = "lost" => sent.kind # "depth_snapshot" /\ Processed.to # "file"
  /\ stage = "decoded" /\ venue # "gamma" =>
       decoded = Decode(venue, outcome.stream, frame)

(* The registry, the sweeper and the replayer read the same event.         *)
AsSwept ==
  venue = "gamma" /\ stage # "idle" =>
    /\ stage \in {"stored", "decoded"}
    /\ event \in Events /\ Recorded(event) /\ BuildRecord(event).ok
    /\ verdict = [mapped   |-> MapEventMarket(event),
                   swept    |-> BuildRecord(event),
                   replayed |-> IF stage = "decoded" THEN DecodeResolution(event) ELSE Refused]

Ranges ==
  /\ venue \in DOMAIN MessageKinds
  /\ streams \in Seq([of : STRING, at : STRING])
  /\ defects \in Nat
  /\ stage \in {"idle", "received", "stored", "lost", "decoded"}
  /\ stage = "idle" => sent = NoSent
  /\ sent.kind = "resolution" => venue = "gamma"
  /\ venue = "gamma" /\ stage # "idle" => sent.kind = "resolution"

RecordsInv == Ranges /\ AsSent /\ AsFiled /\ AsSwept

(* No venue sends the end of a market as a frame, Gamma sends no frames,   *)
(* and only Binance is asked for snapshots.                                *)
LEMMA KindsOfFrames ==
  ASSUME NEW v \in DOMAIN MessageKinds, NEW kind \in MessageKinds[v]
  PROVE  /\ kind # "resolution" /\ v # "gamma"
         /\ kind = "depth_snapshot" => v = "binance"
  BY DEF MessageKinds

(* Nothing is sent at first.                                               *)
LEMMA RecordsInit == Init => RecordsInv
<1> SUFFICES ASSUME Init PROVE RecordsInv
  OBVIOUS
<1>1. streams \in Seq([of : STRING, at : STRING])
  <2>1. << >> \in Seq([of : STRING, at : STRING])
    OBVIOUS
  <2>2. QED
    BY <2>1, RecordsAssumption, Zenon DEF Init
<1>2. Ranges
  BY <1>1 DEF Init, Ranges, NoSent
<1>3. QED
  BY <1>2 DEF Init, RecordsInv, AsSent, AsFiled, AsSwept

(* What is processed depends on what does not change.                      *)
LEMMA ProcessedStays ==
  ASSUME UNCHANGED << venue, frame, streams, known >>
  PROVE  Processed' = Processed
  BY DEF Processed

(* The venues' messages are objects with fields and items.                 *)
LEMMA MessagesAreWhole ==
  ASSUME NEW v \in DOMAIN MessageKinds, NEW kind \in MessageKinds[v], NEW of
  PROVE  \E top, list : Message(kind, of) = Whole(top, list)
<1>1. CASE kind = "trade"
  BY <1>1 DEF Message
<1>2. CASE kind = "depthUpdate"
  BY <1>2 DEF Message
<1>3. CASE kind = "bookTicker"
  BY <1>3 DEF Message
<1>4. CASE kind = "kline"
  BY <1>4 DEF Message
<1>5. CASE kind = "depth20"
  BY <1>5 DEF Message
<1>6. CASE kind = "ack"
  BY <1>6 DEF Message
<1>7. CASE kind = "market_trades"
  BY <1>7 DEF Message
<1>8. CASE kind = "subscriptions"
  BY <1>8 DEF Message
<1>9. CASE kind = "log"
  BY <1>9 DEF Message
<1>10. CASE kind = "eth_subscribe"
  BY <1>10 DEF Message
<1>11. CASE kind = "book"
  BY <1>11 DEF Message
<1>12. CASE kind = "price_change"
  BY <1>12 DEF Message
<1>13. CASE kind = "last_trade_price"
  BY <1>13 DEF Message
<1>14. CASE kind = "tick_size_change"
  BY <1>14 DEF Message
<1>15. CASE kind = "depth_snapshot"
  BY <1>15 DEF Message
<1>16. QED
  BY <1>1, <1>2, <1>3, <1>4, <1>5, <1>6, <1>7, <1>8, <1>9, <1>10, <1>11, <1>12, <1>13, <1>14,
     <1>15 DEF MessageKinds

(* No step of a venue, the recorder or the replayer breaks the invariant.  *)
LEMMA RecordsStep == RecordsInv /\ [Next]_vars => RecordsInv'
<1> SUFFICES ASSUME Ranges, AsSent, AsFiled, AsSwept, [Next]_vars
             PROVE  RecordsInv'
  BY DEF RecordsInv
<1>1. ASSUME NEW kind \in MessageKinds[venue], NEW of \in Products, Receive(kind, of)
      PROVE  RecordsInv'
  <2>1. kind # "resolution" /\ venue # "gamma"
    BY KindsOfFrames DEF Ranges
  <2>2. /\ stage' = "received" /\ venue' = venue /\ defects' = defects
        /\ sent' = [kind |-> kind, of |-> of]
        /\ UNCHANGED streams
    BY <1>1 DEF Receive
  <2>3. sent'.kind = kind /\ sent'.of = of /\ of \in {"A", "B"}
    BY <2>2 DEF Products
  <2>4. Ranges'
    BY <2>1, <2>2, <2>3 DEF Ranges
  <2>5. PICK cut \in BOOLEAN : frame' = [Message(kind, of) EXCEPT !.cut = cut]
    BY <1>1 DEF Receive
  <2>6. Intact'
    <3>1. PICK top, list : Message(kind, of) = Whole(top, list)
      BY MessagesAreWhole DEF Ranges
    <3>2. QED
      BY <2>3, <2>5, <3>1 DEF Intact, Whole
  <2>7. AsSent'
    BY <2>1, <2>2, <2>3, <2>6 DEF AsSent
  <2>8. AsFiled' /\ AsSwept'
    BY <2>1, <2>2 DEF AsFiled, AsSwept
  <2>9. QED
    BY <2>4, <2>7, <2>8 DEF RecordsInv
<1>2. CASE Damage
  <2>1. /\ stage = "received" /\ UNCHANGED << venue, streams, stage, sent >>
        /\ defects' = defects + 1
    BY <1>2 DEF Damage
  <2>2. Ranges' /\ defects' # 0
    BY <2>1 DEF Ranges
  <2>3. AsSent'
    BY <2>1, <2>2 DEF AsSent
  <2>4. AsFiled' /\ AsSwept'
    BY <2>1 DEF AsFiled, AsSwept
  <2>5. QED
    BY <2>2, <2>3, <2>4 DEF RecordsInv
<1>3. CASE Process
  <2>1. /\ stage = "received" /\ stage' \in {"stored", "lost"}
        /\ sent.kind # "depth_snapshot"
        /\ stage' = "lost" => Processed.to # "file"
        /\ outcome' = Processed
        /\ UNCHANGED << venue, streams, known, sent, frame, defects >>
    BY <1>3 DEF Process
  <2>2. Processed' = Processed
    BY <2>1, ProcessedStays
  <2>3. venue # "gamma" /\ sent.kind \in MessageKinds[venue]
    BY <2>1 DEF AsSwept, AsSent
  <2>4. Ranges'
    BY <2>1, <2>3 DEF Ranges
  <2>5. AsSent'
    BY <2>1, <2>3 DEF AsSent, Intact
  <2>6. AsFiled' /\ AsSwept'
    BY <2>1, <2>2, <2>3 DEF AsFiled, AsSwept
  <2>7. QED
    BY <2>4, <2>5, <2>6 DEF RecordsInv
<1>4. CASE StoreSnapshot
  <2>1. /\ stage = "received" /\ sent.kind = "depth_snapshot" /\ stage' = "stored"
        /\ outcome' = Filed(At(sent.of, "depth_snapshot"), FALSE)
        /\ UNCHANGED << venue, streams, sent, frame, defects >>
    BY <1>4 DEF StoreSnapshot
  <2>2. venue = "binance"
    BY <2>1, KindsOfFrames DEF AsSwept, AsSent, Ranges
  <2>3. Snapshot'
    BY <2>1, <2>2 DEF Snapshot
  <2>4. Ranges'
    BY <2>1, <2>2 DEF Ranges
  <2>5. AsSent'
    BY <2>1, <2>2 DEF AsSent, Intact
  <2>6. AsFiled' /\ AsSwept'
    BY <2>1, <2>2, <2>3 DEF AsFiled, AsSwept
  <2>7. QED
    BY <2>4, <2>5, <2>6 DEF RecordsInv
<1>5. ASSUME NEW ev \in Events, Sweep(ev)
      PROVE  RecordsInv'
  <2>1. /\ venue = "gamma" /\ stage' = "stored" /\ event' = ev
        /\ Recorded(ev) /\ BuildRecord(ev).ok
        /\ sent'.kind = "resolution"
        /\ verdict' = [mapped |-> MapEventMarket(ev), swept |-> BuildRecord(ev),
                       replayed |-> Refused]
        /\ UNCHANGED << venue, streams, defects >>
    BY <1>5 DEF Sweep
  <2>2. Ranges'
    BY <2>1 DEF Ranges
  <2>3. AsSent' /\ AsFiled' /\ AsSwept'
    BY <2>1 DEF AsSent, AsFiled, AsSwept
  <2>4. QED
    BY <2>2, <2>3 DEF RecordsInv
<1>6. CASE Replay
  <2>1. /\ stage = "stored" /\ stage' = "decoded"
        /\ UNCHANGED << venue, streams, known, sent, frame, defects, event, outcome >>
    BY <1>6 DEF Replay
  <2>2. Processed' = Processed
    BY <2>1, ProcessedStays
  <2>3. Ranges'
    BY <2>1 DEF Ranges
  <2>4. AsSent'
    BY <2>1 DEF AsSent, Intact
  <2>5. CASE venue = "gamma"
    <3>1. sent.kind = "resolution"
      BY <2>1, <2>5 DEF Ranges
    <3>2. verdict' = [verdict EXCEPT !.replayed = DecodeResolution(event)]
      BY <1>6, <3>1 DEF Replay
    <3>3. verdict = [mapped |-> MapEventMarket(event), swept |-> BuildRecord(event),
                     replayed |-> Refused]
      BY <2>1, <2>5 DEF AsSwept
    <3>4. verdict' = [mapped |-> MapEventMarket(event), swept |-> BuildRecord(event),
                      replayed |-> DecodeResolution(event)]
      BY <3>2, <3>3
    <3>5. AsSwept' /\ AsFiled'
      BY <2>1, <2>5, <3>4 DEF AsSwept, AsFiled
    <3>6. QED
      BY <2>3, <2>4, <3>5 DEF RecordsInv
  <2>6. CASE venue # "gamma"
    <3>1. decoded' = Decode(venue, outcome.stream, frame)
      BY <1>6, <2>6 DEF Replay, Ranges
    <3>2. AsFiled'
      BY <2>1, <2>2, <2>6, <3>1 DEF AsFiled, Snapshot
    <3>3. AsSwept'
      BY <2>1, <2>6 DEF AsSwept
    <3>4. QED
      BY <2>3, <2>4, <3>2, <3>3 DEF RecordsInv
  <2>7. QED
    BY <2>5, <2>6
<1>7. CASE UNCHANGED vars
  <2>1. Processed' = Processed
    BY <1>7, ProcessedStays DEF vars
  <2>2. QED
    BY <1>7, <2>1 DEF vars, RecordsInv, Ranges, AsSent, AsFiled, AsSwept, Intact, Snapshot
<1>8. QED
  BY <1>1, <1>2, <1>3, <1>4, <1>5, <1>6, <1>7 DEF Next

(* Everything above holds of the whole way of a frame and of an event.     *)
THEOREM RecordsInvariant == Spec => []RecordsInv
  BY RecordsInit, RecordsStep, PTL DEF Spec

(* The routers and the decoders look at the same fields.                   *)
LEMMA InvTyped ==
  ASSUME RecordsInv
  PROVE  RoutedIsTyped
<1> SUFFICES ASSUME stage = "decoded", MarketStream(outcome.stream)
             PROVE  /\ decoded \in {Error, IF Strange THEN Unknown ELSE TypeOfKind[KindNamed]}
                    /\ decoded \in {"BinanceTrade", "BinanceDepthDiff"} => outcome.timed
  BY DEF RoutedIsTyped
<1> DEFINE at == outcome.stream.at
<1>1. /\ venue \in {"binance", "coinbase", "chainlink", "polymarket"}
      /\ venue = "binance" => at \in {"trade", "depth", "depth20", "depth_snapshot", "bookTicker"}
      /\ venue = "coinbase" => at = "market_trades"
      /\ venue = "chainlink" => at = "logs"
  BY DEF MarketStream
<1>2. /\ IF sent.kind = "depth_snapshot" THEN Snapshot ELSE outcome = Processed
      /\ decoded = Decode(venue, outcome.stream, frame)
      /\ Len(streams) \in Nat
  BY <1>1 DEF RecordsInv, AsFiled, Ranges
<1>3. venue # "polymarket" => KindNamed = KindOfStream[at]
  BY DEF KindNamed
<1>4. CASE Snapshot
  <2>1. /\ venue = "binance" /\ at = "depth_snapshot"
        /\ decoded \in {Error, IF Has(frame.top, "lastUpdateId") THEN "BinanceDepthSnapshot"
                               ELSE Unknown}
    BY <1>2, <1>4, SnapshotTyped DEF Snapshot
  <2>2. Strange <=> ~Has(frame.top, "lastUpdateId")
    BY <2>1 DEF Strange
  <2>3. TypeOfKind[KindNamed] = "BinanceDepthSnapshot"
    BY <1>3, <2>1 DEF TypeOfKind, KindOfStream
  <2>4. QED
    BY <2>1, <2>2, <2>3 DEF Error, Unknown
<1>5. CASE venue = "binance" /\ ~Snapshot
  <2>1. outcome = BinanceFrame(frame, streams)
    BY <1>2, <1>5 DEF Processed
  <2>2. /\ at # "depth_snapshot"
        /\ decoded \in {TypeOfKind[KindOfStream[at]], Error}
        /\ decoded \in {"BinanceTrade", "BinanceDepthDiff"} => outcome.timed
    BY <1>1, <1>2, <1>5, <2>1, BinanceTyped
  <2>3. ~Strange
    BY <1>5, <2>2 DEF Strange
  <2>4. QED
    BY <1>3, <1>5, <2>2, <2>3
<1>6. CASE venue = "coinbase" /\ ~Snapshot
  <2>1. outcome = CoinbaseFrame(frame) /\ at = "market_trades"
    BY <1>1, <1>2, <1>6 DEF Processed
  <2>2. decoded \in {"CoinbaseMarketTrades", Error}
    BY <1>2, <1>6, <2>1, CoinbaseTyped
  <2>3. ~Strange /\ TypeOfKind[KindNamed] = "CoinbaseMarketTrades"
    BY <1>3, <1>6, <2>1 DEF Strange, TypeOfKind, KindOfStream
  <2>4. QED
    BY <2>2, <2>3 DEF Error
<1>7. CASE venue = "chainlink" /\ ~Snapshot
  <2>1. outcome = ChainlinkFrame(frame) /\ at = "logs"
    BY <1>1, <1>2, <1>7 DEF Processed
  <2>2. decoded \in {"ChainlinkLog", Error}
    BY <1>2, <1>7, <2>1, ChainlinkTyped
  <2>3. ~Strange /\ TypeOfKind[KindNamed] = "ChainlinkLog"
    BY <1>3, <1>7, <2>1 DEF Strange, TypeOfKind, KindOfStream
  <2>4. QED
    BY <2>2, <2>3 DEF Error
<1>8. CASE venue = "polymarket"
  <2>1. decoded \in {Error, IF Strange THEN Unknown ELSE TypeOfKind[KindNamed]}
    BY <1>2, <1>8, PolymarketTyped
  <2>2. ~Strange => TypeOfKind[KindNamed] \notin {"BinanceTrade", "BinanceDepthDiff"}
    <3>1. ~Strange => KindNamed \in {"book", "price_change", "last_trade_price", "tick_size_change"}
      BY <1>8 DEF Strange, KindNamed, Is, MessageKinds
    <3>2. QED
      BY <3>1 DEF TypeOfKind
  <2>3. QED
    BY <2>1, <2>2 DEF Error, Unknown
<1>9. QED
  BY <1>1, <1>4, <1>5, <1>6, <1>7, <1>8

(* What is filed under a stream of a market decodes as the type that its   *)
(* stream or, at Polymarket, its own word names, or is an error; a record  *)
(* is passed over as unknown only where the recorder does not look before  *)
(* it files: an item that names no type of event, a snapshot without its   *)
(* id.  A trade or a diff has its time.  So it is for any list of streams  *)
(* and however many fields are damaged.                                    *)
THEOREM RoutedDecodes == Spec => []RoutedIsTyped
<1>1. RecordsInv => RoutedIsTyped
  BY InvTyped
<1>2. QED
  BY RecordsInvariant, <1>1, PTL

(* A frame that no one damaged is one that survives (IntactSurvives).      *)
LEMMA InvSurvives ==
  ASSUME RecordsInv
  PROVE  WholeFramesSurvive
<1> SUFFICES ASSUME Subscribed, defects = 0
             PROVE  /\ stage # "lost"
                    /\ stage = "decoded" =>
                         /\ decoded = TypeOfKind[sent.kind]
                         /\ Cardinality(Candidates(sent.kind)) <= 1 =>
                              outcome.stream.of = IF venue = "polymarket" THEN "A" ELSE sent.of
  BY DEF WholeFramesSurvive
<1>1. sent.kind \notin {"none", "resolution"}
  BY DEF Subscribed, TypeOfKind
<1>2. stage # "idle" /\ venue # "gamma"
  BY <1>1 DEF RecordsInv, Ranges, NoSent
<1>3. sent.kind \in MessageKinds[venue] /\ sent.of \in {"A", "B"} /\ Intact
  BY <1>2 DEF RecordsInv, AsSent
<1>4. CASE sent.kind = "depth_snapshot"
  <2>1. stage # "lost"
    BY <1>4 DEF RecordsInv, AsFiled
  <2>2. ASSUME stage = "decoded"
        PROVE  Snapshot /\ decoded = Decode(venue, outcome.stream, frame)
    BY <1>2, <1>4, <2>2 DEF RecordsInv, AsFiled
  <2>3. ASSUME stage = "decoded"
        PROVE  outcome.stream.of = sent.of /\ venue = "binance"
    BY <2>2, <2>3 DEF Snapshot, Filed, At
  <2>4. ASSUME stage = "decoded"
        PROVE  decoded = "BinanceDepthSnapshot"
    BY <1>3, <1>4, <2>2, <2>4, SnapshotTyped, SnapshotIntact DEF TypedOrUnknown
  <2>5. QED
    BY <1>4, <2>1, <2>3, <2>4 DEF TypeOfKind
<1>5. CASE sent.kind # "depth_snapshot"
  <2>1. Survives
    BY <1>3, <1>5, IntactSurvives DEF RecordsInv, Ranges
  <2>2. stage # "lost"
    BY <2>1 DEF RecordsInv, AsFiled, Survives
  <2>3. ASSUME stage = "decoded"
        PROVE  outcome = Processed /\ decoded = Decode(venue, Processed.stream, frame)
    BY <1>2, <1>5, <2>3 DEF RecordsInv, AsFiled
  <2>4. QED
    BY <2>1, <2>2, <2>3 DEF Survives
<1>6. QED
  BY <1>4, <1>5

(* A frame as documented that was subscribed to is never lost, also when   *)
(* it is long, and is filed under its product and decodes as what it is.   *)
THEOREM WholeFramesAreKept == Spec => []WholeFramesSurvive
<1>1. RecordsInv => WholeFramesSurvive
  BY InvSurvives
<1>2. QED
  BY RecordsInvariant, <1>1, PTL

(* What was swept is an event of Gamma's with an outcome and a winner.     *)
LEMMA InvAgree ==
  ASSUME RecordsInv
  PROVE  ResolutionsAgree
<1> SUFFICES ASSUME stage = "decoded", sent.kind = "resolution"
             PROVE  ResolutionsAgree
  BY DEF ResolutionsAgree
<1>1. venue = "gamma"
  BY DEF RecordsInv, Ranges
<1>2. /\ event \in Events /\ Recorded(event) /\ BuildRecord(event).ok
      /\ verdict = [mapped |-> MapEventMarket(event), swept |-> BuildRecord(event),
                    replayed |-> DecodeResolution(event)]
  BY <1>1 DEF RecordsInv, AsSwept
<1>3. event \in Event
  BY <1>2, RecordsAssumption
<1>4. /\ verdict.mapped = MapEventMarket(event)
      /\ verdict.swept = BuildRecord(event)
      /\ verdict.replayed = DecodeResolution(event)
  BY <1>2
<1>5. /\ verdict.replayed.label \in {"", verdict.swept.label}
      /\ event.prices \in {<<"1", "0">>, <<"0", "1">>} =>
           verdict.replayed.label = verdict.swept.label
  BY <1>2, <1>3, <1>4, ReplayAgrees
<1>6. event.prices \in {<<"1", "0">>, <<"0", "1">>} => verdict.mapped.label = verdict.swept.label
  BY <1>2, <1>3, <1>4, OutcomeAgrees
<1>7. /\ verdict.replayed.end = verdict.swept.end
      /\ verdict.replayed.end = Counted(EndDate(event))
  BY <1>2, <1>3, <1>4, EndsAgree
<1>8. QED
  BY <1>5, <1>6, <1>7 DEF ResolutionsAgree

(* The record of a market and its replay never name different winners, all *)
(* three readings name one for prices of 1 and 0, and record and replay    *)
(* name the same end of it, on the day that the calendar says.             *)
THEOREM ReadingsAgree == Spec => []ResolutionsAgree
<1>1. RecordsInv => ResolutionsAgree
  BY InvAgree
<1>2. QED
  BY RecordsInvariant, <1>1, PTL

-----------------------------------------------------------------------------
(* The registry of the Polymarket feed                                     *)

(* An item that was asked for names a market that is registered.           *)
Known(i) == i.asked => i.by # "nothing" /\ i.market \in registry

(* What a connection is about to ask for, and has asked for, is registered *)
(* and covers what was registered when the one before it ended.            *)
Covered ==
  /\ due \subseteq registry
  /\ phase \in {"connecting", "reading"} => tokens \subseteq registry
  /\ phase = "connecting" => due \subseteq tokens
  /\ phase = "reading" => due \subseteq subscribed
  /\ subscribed \subseteq registry

FrameKnown == items \in Seq(Item) /\ \A k \in DOMAIN items : Known(items[k])

FeedInv == Covered /\ FrameKnown /\ NothingMisfiled

-----------------------------------------------------------------------------
(* The registry only grows, so what is known of items stays true.          *)
LEMMA KnownStays ==
  ASSUME FrameKnown, registry \subseteq registry', items' = items
  PROVE  FrameKnown'
<1>1. \A k \in DOMAIN items : Known(items[k])'
  BY DEF FrameKnown, Known
<1>2. QED
  BY <1>1 DEF FrameKnown, Known

(* A step that leaves the connection as it is.                             *)
LEMMA CoveredStays ==
  ASSUME Covered, registry \subseteq registry',
         UNCHANGED << phase, tokens, subscribed, due >>
  PROVE  Covered'
  BY DEF Covered

(* What the venue can send of a subscription is known.                     *)
LEMMA SendableIsKnown ==
  ASSUME Covered, NEW i \in Sendable
  PROVE  i \in Item /\ Known(i)
<1>1. i \in Item /\ (i.asked => i.market \in registry)
  BY DEF Sendable, Covered
<1>2. i.asked => i.by # "nothing"
  BY <1>1 DEF Item, NoName
<1>3. QED
  BY <1>1, <1>2 DEF Known

(* What is known is filed under its own market.                            *)
LEMMA KnownIsFiledRight ==
  ASSUME NEW i, Known(i), i.asked
  PROVE  StreamOf(i) = "own"
  BY DEF Known, StreamOf

(* At first nothing is registered and nothing asked for.                   *)
THEOREM FeedStarts == FeedInit => FeedInv
  BY DEF FeedInit, ConnInit, FeedInv, Covered, FrameKnown, NothingMisfiled

(* No step of discovery or of the connection breaks the invariant.         *)
THEOREM FeedStep == FeedInv /\ [FeedNext]_polymarketVars => FeedInv'
<1> SUFFICES ASSUME Covered, FrameKnown, NothingMisfiled, [FeedNext]_polymarketVars
             PROVE  FeedInv'
  BY DEF FeedInv
<1>1. ASSUME NEW m \in Market, List(m) \/ Close(m)  PROVE FeedInv'
  BY <1>1, CoveredStays, KnownStays
     DEF List, Close, connVars, feedVars, FeedInv,
         NothingMisfiled
<1>2. CASE Ask \/ Answer \/ UpsertAll \/ DiscoveryFails
  BY <1>2, CoveredStays, KnownStays
     DEF Ask, Answer, UpsertAll, DiscoveryFails, connVars, feedVars,
         FeedInv, NothingMisfiled
<1>3. CASE ReadTokens
  <2>1. Covered'
    BY <1>3 DEF ReadTokens, BeginConnect, discoveryVars, Covered
  <2>2. QED
    BY <1>3, <2>1, KnownStays DEF ReadTokens, discoveryVars, FeedInv, NothingMisfiled
<1>4. CASE Subscribe
  <2>1. Covered'
    BY <1>4 DEF Subscribe, Connected, discoveryVars, Covered
  <2>2. QED
    BY <1>4, <2>1, KnownStays DEF Subscribe, discoveryVars, FeedInv, NothingMisfiled
<1>5. CASE End
  <2>1. Covered'
    BY <1>5 DEF End, ConnEnds, discoveryVars, Covered
  <2>2. QED
    BY <1>5, <2>1, KnownStays DEF End, discoveryVars, FeedInv, NothingMisfiled
<1>6. CASE Sleep
  <2>1. Covered'
    BY <1>6 DEF Sleep, Wake, discoveryVars, feedVars, Covered
  <2>2. QED
    BY <1>6, <2>1, KnownStays DEF Sleep, discoveryVars, feedVars, FeedInv,
         NothingMisfiled
<1>7. CASE ReceiveFrame
  <2>1. Covered'
    BY <1>7 DEF ReceiveFrame, HearText, discoveryVars, Covered
  <2>2. PICK n \in 1 .. MaxItems : items' \in [1 .. n -> Sendable]
    BY <1>7 DEF ReceiveFrame
  <2>3. n \in Nat
    BY <2>2
  <2>4. \A i \in Sendable : i \in Item /\ Known(i)
    BY SendableIsKnown
  <2>5. items' \in [1 .. n -> Item] /\ DOMAIN items' = 1 .. n
    BY <2>2, <2>4
  <2>6. items' \in Seq(Item)
    BY <2>3, <2>5
  <2>7. \A k \in DOMAIN items' : Known(items'[k])
    BY <2>2, <2>4
  <2>8. FrameKnown'
    BY <1>7, <2>6, <2>7 DEF ReceiveFrame, discoveryVars, FrameKnown, Known
  <2>9. QED
    BY <1>7, <2>1, <2>8 DEF ReceiveFrame, FeedInv, NothingMisfiled
<1>8. CASE FileItem
  <2>1. Covered'
    BY <1>8, CoveredStays DEF FileItem, connVars, discoveryVars
  <2>2. items \in Seq(Item) /\ items # << >> /\ items' = Tail(items) /\ registry' = registry
    BY <1>8 DEF FileItem, FrameKnown, discoveryVars
  <2>3. Known(Head(items))
    BY <2>2 DEF FrameKnown
  <2>4. NothingMisfiled'
    BY <1>8, <2>3, KnownIsFiledRight DEF FileItem, NothingMisfiled
  <2>5. \A k \in DOMAIN Tail(items) : k + 1 \in DOMAIN items /\ Tail(items)[k] = items[k + 1]
    BY <2>2
  <2>6. FrameKnown'
    BY <2>2, <2>5 DEF FrameKnown, Known
  <2>7. QED
    BY <2>1, <2>4, <2>6 DEF FeedInv
<1>9. CASE UNCHANGED polymarketVars
  BY <1>9, CoveredStays, KnownStays
     DEF polymarketVars, connVars, discoveryVars, feedVars, FeedInv,
         NothingMisfiled
<1>10. QED
  BY <1>1, <1>2, <1>3, <1>4, <1>5, <1>6, <1>7, <1>8, <1>9 DEF FeedNext

(* What the feed asked for is filed under its market's own stream, however *)
(* discovery runs beside the connection.                                   *)
THEOREM AskedIsFiledRight == FeedSpec => []NothingMisfiled
<1>1. FeedInv => NothingMisfiled
  BY DEF FeedInv
<1>2. QED
  BY FeedStarts, FeedStep, <1>1, PTL DEF FeedSpec

(* A connection that is read covers what was registered when the one       *)
(* before it ended.                                                        *)
THEOREM ReconnectCoversRegistry == FeedSpec => []PickedUpAtReconnect
<1>1. FeedInv => PickedUpAtReconnect
  BY DEF FeedInv, Covered, PickedUpAtReconnect
<1>2. QED
  BY FeedStarts, FeedStep, <1>1, PTL DEF FeedSpec
=============================================================================
