------------------------------- MODULE Frames -------------------------------
(***************************************************************************)
(* From a text frame to the stream it is filed under: `process_text` of    *)
(* the Binance, Coinbase and Chainlink feeds, and of the Polymarket feed   *)
(* what a known market makes of an item (PolymarketFeed has its registry). *)
(*                                                                         *)
(* A frame is a JSON object, or not JSON at all.  `top` maps the fields    *)
(* that are there to what they hold; objects inside of it (trades, changed *)
(* levels, a log) are `items`, in the order in which they are met, with    *)
(* what they are under "is".  A value is a string the code compares with,  *)
(* or the kind of its value.                                               *)
(***************************************************************************)
EXTENDS Integers, Sequences, SequencesExt, FiniteSets

EventType == {"trade", "depthUpdate", "kline", "aggTrade", "book",
              "price_change", "last_trade_price", "tick_size_change"}
Word == EventType \union {"eth_subscription", "market_trades", "subscriptions",
                          "BUY", "SELL", "A", "B"}
Decimal == {"decimal", "digits"}         \* text that is a number
Text  == Word \union Decimal \union {"text"}
Value == Text \union {"int", "huge", "bool", "null", "list", "odd list", "object"}

Has(o, x)    == x \in DOMAIN o
IsText(o, x) == Has(o, x) /\ o[x] \in Text
Is(o, x, v)  == Has(o, x) /\ o[x] = v

(* A stream name is what stands in front of '@' and what follows it.       *)
At(of, at) == [of |-> of, at |-> at]
Unrouted   == At("_unrouted", "")

(* What becomes of a frame: it is filed, dropped, or the task panics.      *)
Filed(stream, timed) == [to |-> "file", stream |-> stream, timed |-> timed]
Dropped == [to |-> "nothing", stream |-> Unrouted, timed |-> FALSE]
Panic   == [to |-> "panic", stream |-> Unrouted, timed |-> FALSE]

(* Every frame that is not filed under a stream of its own is logged, cut  *)
(* at byte 256; `cut` says that a character lies across that byte.         *)
Logged(fr, outcome) == IF fr.cut THEN Panic ELSE outcome

-----------------------------------------------------------------------------
(* Binance                                                                 *)

IsSubscribeAck(fr) ==
  fr.json /\ ~Has(fr.top, "e") /\ Has(fr.top, "id") /\ Has(fr.top, "result")

IsBookTickerShape(o) ==
  Has(o, "u") /\ \A x \in {"s", "b", "B", "a", "A"} : IsText(o, x)

(* classify: the event type, or "" for none.                               *)
EventTypeOf(fr) ==
  IF fr.json /\ IsText(fr.top, "e") THEN fr.top["e"]
  ELSE IF fr.json /\ IsBookTickerShape(fr.top) THEN "bookTicker"
  ELSE ""

(* Mutant: the snapshots' own stream is not left out.                      *)
TakesSnapshotsToo(s, type) ==
  CASE type \in {"trade", "kline", "aggTrade", "bookTicker"} -> s.at = type
    [] type = "depthUpdate" -> s.at \in {"depth", "depth20", "depth_snapshot"}
    [] OTHER -> FALSE

(* pick_stream: the configured streams that take an event type.            *)
Takes(s, type) ==
  CASE type \in {"trade", "kline", "aggTrade", "bookTicker"} -> s.at = type
    [] type = "depthUpdate" -> s.at \in {"depth", "depth20"}
    [] OTHER -> FALSE

PickStream(streams, type) ==
  LET i == SelectInSeq(streams, LAMBDA s : Takes(s, type))
  IN  IF i = 0 THEN At("_unrouted_" \o type, "") ELSE streams[i]

BinanceFrame(fr, streams) ==
  LET type == EventTypeOf(fr)
  IN  IF IsSubscribeAck(fr) THEN Logged(fr, Dropped)
      ELSE IF type = "" THEN Logged(fr, Filed(Unrouted, FALSE))
      ELSE Filed(PickStream(streams, type), type # "bookTicker" /\ Is(fr.top, "E", "int"))

-----------------------------------------------------------------------------
(* Coinbase                                                                *)

(* first_product_id: of every event its trades, then the event itself.     *)
FirstProduct(fr) ==
  IF Is(fr.top, "events", "list")
  THEN SelectInSeq(fr.items, LAMBDA it : IsText(it, "product_id"))
  ELSE 0

CoinbaseFrame(fr) ==
  IF ~fr.json \/ ~IsText(fr.top, "channel") THEN Logged(fr, Filed(Unrouted, FALSE))
  ELSE LET i == FirstProduct(fr)
       IN  Filed(IF i = 0 THEN At("_" \o fr.top["channel"], "")
                 ELSE At(fr.items[i]["product_id"], fr.top["channel"]), FALSE)

-----------------------------------------------------------------------------
(* Chainlink: `items` is the one log, if params_result (params.result) is  *)
(* an object.                                                              *)

HasLog(fr) == Is(fr.top, "params", "object") /\ Is(fr.top, "params_result", "object")

IsSubscriptionAck(o) == Has(o, "id") /\ Has(o, "result") /\ ~Has(o, "method")

ChainlinkFrame(fr) ==
  IF fr.json /\ IsSubscriptionAck(fr.top)
  THEN Filed(At("_subscription_ack", ""), FALSE)
  ELSE IF /\ fr.json
          /\ Is(fr.top, "method", "eth_subscription")
          /\ HasLog(fr) /\ IsText(fr.items[1], "address")
  THEN Filed(At(fr.items[1]["address"], "logs"), FALSE)
  ELSE Logged(fr, Filed(Unrouted, FALSE))

-----------------------------------------------------------------------------
(* Polymarket: an item of a market in the registry.                        *)

(* resolve_one and label_route; a stream is the slug of the market.        *)
PolymarketFrame(fr, known) ==
  LET by == IF fr.json /\ IsText(fr.top, "market") THEN "market"
            ELSE IF fr.json /\ IsText(fr.top, "asset_id") THEN "token"
            ELSE "nothing"
  IN  IF by = "nothing" THEN Logged(fr, Filed(Unrouted, FALSE))
      ELSE IF known THEN Filed(At("A", ""), FALSE)
      ELSE Logged(fr, Filed(At("_unknown_" \o by, ""), FALSE))
=============================================================================
