------------------------------- MODULE Decode -------------------------------
(***************************************************************************)
(* The replayer's decoders (crates/replayer/src/decode): from a record and *)
(* its stream to a typed event.                                            *)
(*                                                                         *)
(* Where the recorder looks at one or two fields of a frame, the decoder   *)
(* wants a whole structure.  A structure is `need`, the fields it cannot   *)
(* do without and the values each takes, `may`, those that can be missing  *)
(* or null, and `else`, those that have a default when they are missing.   *)
(* Fields a structure does not name are ignored.                           *)
(***************************************************************************)
EXTENDS Frames, TLC

CONSTANTS
  Radix,     \* values a digit of a word can have: 256, a byte
  LowLen     \* digits of an i64: 8

ASSUME WordAssumption ==
  Radix \in {2 * k : k \in 1 .. 128} /\ LowLen \in Nat \ {0}

Str  == Text           \* String
Num  == {"int"}        \* i64, u64
Elem == {"list"}       \* a list whose elements have the right structure

Struct(need, may, else) == [need |-> need, may |-> may, else |-> else]

None == [x \in {} |-> {}]

Parses(o, st) ==
  /\ \A x \in DOMAIN st.need : Has(o, x) /\ o[x] \in st.need[x]
  /\ \A x \in DOMAIN st.may  : Has(o, x) => o[x] \in st.may[x] \union {"null"}
  /\ \A x \in DOMAIN st.else : Has(o, x) => o[x] \in st.else[x]

Unknown == "Unknown"
Error   == "Error"

(* parse_json and unknown.                                                 *)
UnknownIfJson(fr) == IF fr.json THEN Unknown ELSE Error

-----------------------------------------------------------------------------
(* Binance                                                                 *)

BinanceTrade == Struct(
  [E |-> Num, T |-> Num, t |-> Num, s |-> Str, p |-> Decimal, q |-> Decimal,
   m |-> {"bool"}], None, None)
BinanceDepthDiff == Struct(
  [E |-> Num, U |-> Num, u |-> Num, s |-> Str, b |-> Elem, a |-> Elem], None, None)
BinanceBookTicker == Struct(
  [u |-> Num, s |-> Str, b |-> Decimal, B |-> Decimal, a |-> Decimal, A |-> Decimal],
  None, None)
BinanceDepthSnapshot == Struct(
  [lastUpdateId |-> Num, bids |-> Elem, asks |-> Elem], None, None)

(* try_typed_or_unknown: what does not parse is an error if it claims to   *)
(* be of the structure, and a stranger on the stream otherwise.            *)
TypedOrUnknown(fr, name, st, claims) ==
  IF ~fr.json THEN Error
  ELSE IF Parses(fr.top, st) THEN name
  ELSE IF claims THEN Error
  ELSE Unknown

(* Mutant: any stream of depth is taken for the diffs.                     *)
DecodeBinanceDepthFirst(stream, fr) ==
  CASE stream.at = "trade" ->
         TypedOrUnknown(fr, "BinanceTrade", BinanceTrade, Is(fr.top, "e", "trade"))
    [] stream.at = "bookTicker" ->
         TypedOrUnknown(fr, "BinanceBookTicker", BinanceBookTicker, Has(fr.top, "u"))
    [] stream.at \in {"depth", "depth20", "depth_snapshot"} ->
         TypedOrUnknown(fr, "BinanceDepthDiff", BinanceDepthDiff,
                        Is(fr.top, "e", "depthUpdate"))
    [] OTHER -> UnknownIfJson(fr)

DecodeBinance(stream, fr) ==
  CASE stream.at = "trade" ->
         TypedOrUnknown(fr, "BinanceTrade", BinanceTrade, Is(fr.top, "e", "trade"))
    [] stream.at = "bookTicker" ->
         TypedOrUnknown(fr, "BinanceBookTicker", BinanceBookTicker, Has(fr.top, "u"))
    [] stream.at = "depth_snapshot" ->
         TypedOrUnknown(fr, "BinanceDepthSnapshot", BinanceDepthSnapshot,
                        Has(fr.top, "lastUpdateId"))
    [] stream.at \in {"depth", "depth20"} ->
         TypedOrUnknown(fr, "BinanceDepthDiff", BinanceDepthDiff,
                        Is(fr.top, "e", "depthUpdate"))
    [] OTHER -> UnknownIfJson(fr)

-----------------------------------------------------------------------------
(* Coinbase: `items` are trades and the events they are in.                *)

CoinbaseTrade == Struct(
  [trade_id |-> Str, product_id |-> Str, side |-> Str, time |-> Str,
   price |-> Decimal, size |-> Decimal], None, None)
CoinbaseTradeBatch == Struct(None, None, [type |-> Str, trades |-> Elem])
CoinbaseWireFrame == Struct(
  None, [timestamp |-> Str, sequence_num |-> Num], [events |-> Elem])

DecodeCoinbase(stream, fr) ==
  IF stream.at # "market_trades" THEN UnknownIfJson(fr)
  ELSE IF /\ fr.json
          /\ Parses(fr.top, CoinbaseWireFrame)
          /\ Has(fr.top, "events") => \A i \in DOMAIN fr.items :
               Parses(fr.items[i], IF Is(fr.items[i], "is", "trade") THEN CoinbaseTrade
                                   ELSE CoinbaseTradeBatch)
  THEN "CoinbaseMarketTrades"
  ELSE Error

-----------------------------------------------------------------------------
(* Polymarket                                                              *)

PolymarketBook == Struct(
  [asset_id |-> Str, market |-> Str], [timestamp |-> Str, hash |-> Str],
  [bids |-> Elem, asks |-> Elem])
PolymarketPriceChange == Struct(
  [market |-> Str], [timestamp |-> Str], [price_changes |-> Elem])
PolymarketPriceChangeItem == Struct(
  [asset_id |-> Str, price |-> Decimal, size |-> Decimal, side |-> {"BUY", "SELL"}],
  [best_bid |-> Decimal, best_ask |-> Decimal, hash |-> Str], None)
PolymarketLastTradePrice == Struct(
  [asset_id |-> Str, market |-> Str, price |-> Decimal, size |-> Decimal,
   side |-> {"BUY", "SELL"}],
  [timestamp |-> Str, fee_rate_bps |-> Value], None)
PolymarketTickSizeChange == Struct(
  [asset_id |-> Str, market |-> Str, old_tick_size |-> Decimal,
   new_tick_size |-> Decimal],
  [timestamp |-> Str], None)

(* Mutant: what does not parse is passed over.                             *)
TypedOrSkipped(fr, name, st) == IF Parses(fr.top, st) THEN name ELSE Unknown

TypedOrError(fr, name, st) == IF Parses(fr.top, st) THEN name ELSE Error

(* The stream is not looked at: an item that could not be routed decodes   *)
(* as well as any other.                                                   *)
DecodePolymarket(fr) ==
  LET type == IF IsText(fr.top, "event_type") THEN fr.top["event_type"] ELSE ""
  IN  IF ~fr.json THEN Error
      ELSE CASE type = "book" ->
                  TypedOrError(fr, "PolymarketBook", PolymarketBook)
             [] type = "price_change" ->
                  IF Has(fr.top, "price_changes") => \A i \in DOMAIN fr.items :
                       Parses(fr.items[i], PolymarketPriceChangeItem)
                  THEN TypedOrError(fr, "PolymarketPriceChange", PolymarketPriceChange)
                  ELSE Error
             [] type = "last_trade_price" ->
                  TypedOrError(fr, "PolymarketLastTradePrice", PolymarketLastTradePrice)
             [] type = "tick_size_change" ->
                  TypedOrError(fr, "PolymarketTickSizeChange", PolymarketTickSizeChange)
             [] OTHER -> Unknown

-----------------------------------------------------------------------------
(* Chainlink                                                               *)

ChainlinkWireFrame == Struct(
  None, [method |-> Str, params |-> {"object"}], None)
ChainlinkWireParams == Struct(None, [params_result |-> {"object"}], None)
ChainlinkWireLog == Struct(
  [address |-> Str], [blockNumber |-> Str], [topics |-> Elem, data |-> Str])

(* The whole of the structure is read before the method is looked at.      *)
DecodeChainlink(fr) ==
  IF \/ ~fr.json
     \/ ~Parses(fr.top, ChainlinkWireFrame)
     \/ Is(fr.top, "params", "object") /\ ~Parses(fr.top, ChainlinkWireParams)
     \/ HasLog(fr) /\ ~Parses(fr.items[1], ChainlinkWireLog)
  THEN Error
  ELSE IF Is(fr.top, "method", "eth_subscription") /\ HasLog(fr)
  THEN "ChainlinkLog"
  ELSE Unknown

(* Words of an AnswerUpdated log.  A word has four times the digits of an  *)
(* i64; what is no hexadecimal digit is a digit outside of the radix.      *)
WordLen == 4 * LowLen
IsWord(w) == Len(w) = WordLen /\ Range(w) \subseteq 0 .. Radix - 1

Unsigned(ds) == FoldLeft(LAMBDA n, d : n * Radix + d, 0, ds)
Negative(ds) == 2 * ds[1] >= Radix

(* The low k digits, if all digits above them are `fill`.                  *)
Low(w, k) == SubSeq(w, WordLen - k + 1, WordLen)
Filled(w, k, fill) == \A i \in 1 .. WordLen - k : w[i] = fill

NoNumber == << >>

(* Mutant: the sign of the low digits is not compared with the word's.     *)
I256ToI64Wraps(w) ==
  LET low  == Low(w, LowLen)
      wrap == IF Negative(low) THEN Radix ^ LowLen ELSE 0
  IN  IF IsWord(w) /\ Filled(w, LowLen, IF Negative(w) THEN Radix - 1 ELSE 0)
      THEN <<Unsigned(low) - wrap>>
      ELSE NoNumber

(* i256_topic_to_decimal                                                   *)
I256ToI64(w) ==
  LET low  == Low(w, LowLen)
      wrap == IF Negative(low) THEN Radix ^ LowLen ELSE 0
  IN  IF /\ IsWord(w)
         /\ Filled(w, LowLen, IF Negative(w) THEN Radix - 1 ELSE 0)
         /\ Negative(low) = Negative(w)
      THEN <<Unsigned(low) - wrap>>
      ELSE NoNumber

(* u128_from_topic and u64_from_data_word0: the k low digits of a word.    *)
UnsignedLow(w, k) ==
  IF IsWord(w) /\ Filled(w, k, 0) THEN <<Unsigned(Low(w, k))>> ELSE NoNumber

FirstWord(data) == IF Len(data) < WordLen THEN data ELSE SubSeq(data, 1, WordLen)

(* decode_answer_updated: all three numbers, or nothing.                   *)
AnswerUpdated(topic1, topic2, data) ==
  LET numbers == << I256ToI64(topic1), UnsignedLow(topic2, 2 * LowLen),
                    UnsignedLow(FirstWord(data), LowLen) >>
  IN  IF \E i \in 1 .. 3 : numbers[i] = NoNumber THEN NoNumber
      ELSE [i \in 1 .. 3 |-> numbers[i][1]]

-----------------------------------------------------------------------------
(* decode: by venue.                                                       *)
Decode(venue, stream, fr) ==
  CASE venue = "binance"    -> DecodeBinance(stream, fr)
    [] venue = "coinbase"   -> DecodeCoinbase(stream, fr)
    [] venue = "chainlink"  -> DecodeChainlink(fr)
    [] venue = "polymarket" -> DecodePolymarket(fr)
=============================================================================
