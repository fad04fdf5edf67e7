---------------------------- MODULE MCIntegrity ----------------------------
(* Sessions of two or three files, as list_files orders them.              *)
EXTENDS Integrity

F(v, s, b) == [venue |-> v, stream |-> s, bucket |-> b]

MCSessions == {
  << F("binance", "depth", 0), F("binance", "depth", 1), F("binance", "depth_snapshot", 0) >>,
  << F("binance", "bookTicker", 0), F("binance", "bookTicker", 0), F("binance", "trade", 0) >>,
  << F("polymarket", "market", 0), F("polymarket", "market", 3), F("coinbase", "market_trades", 1) >> }

CutoffSessions == {<< F("binance", "bookTicker", 0), F("binance", "depth", 0) >>}
=============================================================================
