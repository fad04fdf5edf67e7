----------------------------- MODULE MCRecords ------------------------------
(* Three configurations: that of configs/recorder.toml, one with the       *)
(* recorder's own snapshot stream and partial books in front, and one with *)
(* two products of one kind.                                               *)
EXTENDS Records

MCConfigs == {
  << At("A", "trade"), At("A", "depth"), At("A", "bookTicker") >>,
  << At("A", "depth_snapshot"), At("A", "depth20"), At("A", "kline"), At("A", "trade") >>,
  << At("A", "trade"), At("B", "trade"), At("A", "depth") >> }

(* All words of a small radix as the answer; a few as round and time, also *)
(* words that are too short, too long or no hexadecimal number.            *)
Digits(ds) == [1 .. WordLen -> ds]
Odd == { <<0, 0, 1>>, <<0, 0, 0, 0, 1>>, <<0, 0, 0, -1>> }
One == <<0, 0, 0, 1>>
MCWords ==
  {<<w, One, One>> : w \in Digits(0 .. Radix - 1) \union Odd}
  \union {<<One, w, One>> : w \in Digits({0, 1, Radix - 1}) \union Odd}
  \union {<<One, One, w>> : w \in Digits({0, 1, Radix - 1}) \union Odd}

DateOf(y, mo, d, zone) ==
  [y |-> y, mo |-> mo, d |-> d, h |-> 23, mi |-> 59, s |-> 58, secs |-> TRUE, zone |-> zone]
Dates ==
  {DateOf(y, mo, d, "Z") : y \in {1900, 1970, 2000, 2024, 2026, 2100},
                         mo \in 1 .. 12, d \in {1, 28, 29, 30, 31}}
Zoned ==
  {[DateOf(2026, 4, 17, zone) EXCEPT !.secs = secs, !.h = h] :
     zone \in {"Z", "+00:00", "-00:00", "+02:00", ""}, secs \in BOOLEAN, h \in {5, 24}}

Settled == [id |-> TRUE, named |-> TRUE, tokens |-> 2, labels |-> <<"Up", "Down">>,
            prices |-> <<"1", "0">>, marketEnd |-> DateOf(2026, 4, 17, "Z"),
            eventEnd |-> NoDate]
Labels == YesFirst \union NoFirst \union {<<"Up", "Up">>, <<"Up">>, << >>}
MCEvents ==
  {[Settled EXCEPT !.labels = ls, !.prices = ps] :
     ls \in Labels, ps \in (Spelling \X Spelling) \union {<<"1">>, << >>}}
  \union {[Settled EXCEPT !.marketEnd = t] : t \in Dates \union Zoned}
  \union {[Settled EXCEPT !.marketEnd = m, !.eventEnd = t] :
            m \in {NoDate, DateOf(2026, 4, 17, "Z")}, t \in Zoned \union {NoDate}}
  \union {[Settled EXCEPT !.id = i, !.named = n, !.tokens = k] :
            i \in BOOLEAN, n \in BOOLEAN, k \in 1 .. 3}
=============================================================================
