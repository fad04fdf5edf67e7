----------------------------- MODULE Resolution -----------------------------
(***************************************************************************)
(* How a market ended: what the registry reads out of an event of Gamma    *)
(* (crates/market_registry/src/gamma.rs), what the sweeper makes a record  *)
(* of (apps/recorder/src/sweep.rs), and what the replayer reads out of the *)
(* same event when it was recorded                                         *)
(* (crates/replayer/src/decode/polymarket.rs).                             *)
(*                                                                         *)
(* An event is a record of what they look at: `id` and `named` tell        *)
(* whether the condition id and a title are there, `tokens` how many       *)
(* tokens, `labels` and `prices` are the two lists, << >> if one is not    *)
(* there or not a list of strings; the end dates are those of the market   *)
(* and of the event around it, NoDate if not there.                        *)
(***************************************************************************)
EXTENDS Calendar, Sequences

NoDate == [y |-> 0, mo |-> 0, d |-> 0, h |-> 0, mi |-> 0, s |-> 0,
           secs |-> TRUE, zone |-> ""]

(* Years have four digits.                                                 *)
LastYear == 9999
Date == [y : 0 .. LastYear, mo : Nat, d : Nat, h : Nat, mi : Nat, s : Nat,
         secs : BOOLEAN, zone : STRING]

(* Field precedence: the market's own, then the event's.                   *)
EndDate(ev) == IF ev.marketEnd # NoDate THEN ev.marketEnd ELSE ev.eventEnd

YesFirst == {<<"Yes", "No">>, <<"Up", "Down">>}
NoFirst  == {<<"No", "Yes">>, <<"Down", "Up">>}

YesIndex(ev) == IF ev.labels \in YesFirst THEN 1 ELSE 2

(* A price as it is spelled; " 1" stands for a 1 with blanks around it.    *)
Spelling == {"1", " 1", "1.0", "0", "0.62", "n/a"}
Event == [id : BOOLEAN, named : BOOLEAN, tokens : Nat, labels : Seq(STRING),
          prices : Seq(Spelling), marketEnd : Date, eventEnd : Date]

Trimmed(p) == IF p = " 1" THEN "1" ELSE p
DecimalOf(p) == CASE p \in {"1", "1.0"} -> 100
                  [] p = "0.62" -> 62
                  [] p = "0" -> 0
                  [] OTHER -> -1         \* not a decimal, blanks included

Refused  == [ok |-> FALSE, label |-> "", end |-> NoTime]

(* Mutant: the label that is named first counts as Yes.                    *)
MapEventMarketInOrder(ev) ==
  IF /\ ev.id /\ ev.named /\ ev.tokens = 2
     /\ ev.labels \in YesFirst \union NoFirst
     /\ GammaEpoch(EndDate(ev)) # NoTime
  THEN [ok |-> TRUE, end |-> GammaEpoch(EndDate(ev)),
        label |-> IF Len(ev.prices) # 2 THEN ""
                  ELSE IF Trimmed(ev.prices[1]) = "1" THEN ev.labels[YesIndex(ev)]
                  ELSE IF Trimmed(ev.prices[2]) = "1" THEN ev.labels[3 - YesIndex(ev)]
                  ELSE ""]
  ELSE Refused

(* map_event_market: the outcome, as the label it stands for.              *)
MapEventMarket(ev) ==
  LET yes == YesIndex(ev)
      no  == 3 - yes
  IN  IF /\ ev.id /\ ev.named /\ ev.tokens = 2
         /\ ev.labels \in YesFirst \union NoFirst
         /\ GammaEpoch(EndDate(ev)) # NoTime
      THEN [ok |-> TRUE, end |-> GammaEpoch(EndDate(ev)),
            label |-> IF Len(ev.prices) # 2 THEN ""
                      ELSE IF Trimmed(ev.prices[yes]) = "1" THEN ev.labels[yes]
                      ELSE IF Trimmed(ev.prices[no]) = "1" THEN ev.labels[no]
                      ELSE ""]
      ELSE Refused

(* fetch_resolved_events hands the sweeper what has an outcome.            *)
Recorded(ev) == MapEventMarket(ev).ok /\ MapEventMarket(ev).label # ""

(* Mutant: the first price is that of Yes.                                 *)
BuildRecordByName(ev) ==
  IF /\ ev.id /\ ev.tokens = 2 /\ Len(ev.labels) = 2 /\ Len(ev.prices) = 2
     /\ \E i \in 1 .. 2 : ev.prices[i] = "1"
  THEN [ok |-> TRUE, end |-> MapEventMarket(ev).end,
        label |-> ev.labels[IF ev.prices[1] = "1" THEN YesIndex(ev) ELSE 3 - YesIndex(ev)]]
  ELSE Refused

(* build_resolution_record: the first label with a price of exactly "1".   *)
BuildRecord(ev) ==
  IF /\ ev.id /\ ev.tokens = 2 /\ Len(ev.labels) = 2 /\ Len(ev.prices) = 2
     /\ \E i \in 1 .. 2 : ev.prices[i] = "1"
  THEN [ok |-> TRUE, end |-> MapEventMarket(ev).end,
        label |-> ev.labels[IF ev.prices[1] = "1" THEN 1 ELSE 2]]
  ELSE Refused

(* decode_resolution: labels as they come, and a pair of exactly 1 and 0.  *)
DecodeResolution(ev) ==
  LET paired == Len(ev.labels) = 2 /\ Len(ev.prices) = 2
      prices == [i \in DOMAIN ev.prices |-> DecimalOf(ev.prices[i])]
  IN  [ok |-> TRUE,
       end |-> IF EndDate(ev) = NoDate THEN NoTime ELSE DecodedEpoch(EndDate(ev)),
       label |-> IF paired /\ prices = <<100, 0>> THEN ev.labels[1]
                 ELSE IF paired /\ prices = <<0, 100>> THEN ev.labels[2]
                 ELSE ""]
=============================================================================
