--------------------------- MODULE PolymarketFeed ---------------------------
(***************************************************************************)
(* The Polymarket feed (crates/polymarket_feed) and the market registry it *)
(* shares with the discovery loop (crates/market_registry).                *)
(*                                                                         *)
(* Discovery asks Gamma which markets of the series are open and upserts   *)
(* the answer; the feed reads the registry once per connection, subscribes *)
(* to what it found and files every item it receives under its market,     *)
(* looked up under a registry lock of its own.                             *)
(*                                                                         *)
(* Markets are numbered in the order of their start.  Both tokens of a     *)
(* market are registered, subscribed and looked up together, so a market   *)
(* stands for them.                                                        *)
(***************************************************************************)
EXTENDS FeedConn, Sequences, FiniteSets

CONSTANTS
  NumMarkets,  \* bound: markets that are ever listed
  PageLimit,   \* the one page Gamma is asked for: 500
  MaxItems     \* bound: items of a frame

ASSUME PolymarketFeedAssumption ==
  NumMarkets \in Nat \ {0} /\ PageLimit \in Nat \ {0} /\ MaxItems \in Nat \ {0}

Market == 1 .. NumMarkets

VARIABLES
  listing,     \* per market: "future", "open", "closed" at the venue
  asking,      \* discovery: "sleeping", "asked", "answered"
  page,        \* the markets of the answer while asking = "answered"
  registry,    \* Registry: by_id
  tokens,      \* the registry as connect_once read it
  subscribed,  \* what the venue streams on this connection
  due,         \* markets registered when the last connection ended
  items,       \* items of the frame in process_text that are not filed yet
  filed        \* of the last item filed: was it asked for, and its stream

discoveryVars == << listing, asking, page, registry >>
feedVars == << tokens, subscribed, due, items, filed >>
polymarketVars == << connVars, discoveryVars, feedVars >>

(* An item names its market by `market` or by `asset_id`, or not at all;   *)
(* `asked` tells whether the venue sent it for a subscription.             *)
NoName == [market |-> 1, by |-> "nothing", asked |-> FALSE]
Item == [market : Market, by : {"market", "asset_id"}, asked : BOOLEAN] \union {NoName}

FeedInit ==
  /\ ConnInit
  /\ listing = [m \in Market |-> "future"]
  /\ asking = "sleeping"
  /\ page = {}
  /\ registry = {}
  /\ tokens = {}
  /\ subscribed = {}
  /\ due = {}
  /\ items = << >>
  /\ filed = [asked |-> FALSE, stream |-> "_unrouted"]

-----------------------------------------------------------------------------
(* The venue's markets                                                     *)

Open == {m \in Market : listing[m] = "open"}

List(m) ==
  /\ listing[m] = "future"
  /\ \A k \in 1 .. m - 1 : listing[k] # "future"
  /\ listing' = [listing EXCEPT ![m] = "open"]
  /\ UNCHANGED << connVars, asking, page, registry, feedVars >>

Close(m) ==
  /\ listing[m] = "open"
  /\ listing' = [listing EXCEPT ![m] = "closed"]
  /\ UNCHANGED << connVars, asking, page, registry, feedVars >>

-----------------------------------------------------------------------------
(* run_discovery_loop                                                      *)

(* The newest open markets, as many as fit the page.                       *)
FirstPage ==
  {m \in Open : Cardinality({k \in Open : k > m}) < PageLimit}

Ask ==
  /\ asking = "sleeping"
  /\ asking' = "asked"
  /\ UNCHANGED << connVars, listing, page, registry, feedVars >>

(* map_response skips what it cannot map; here every market can be mapped. *)
Answer ==
  /\ asking = "asked"
  /\ asking' = "answered"
  /\ page' = FirstPage
  /\ UNCHANGED << connVars, listing, registry, feedVars >>

(* Mutants: the registry is replaced by the answer; an error ends the loop.*)
ReplaceRegistry ==
  /\ asking = "answered"
  /\ registry' = page
  /\ asking' = "sleeping" /\ page' = {}
  /\ UNCHANGED << connVars, listing, feedVars >>
DiscoveryGivesUp ==
  /\ asking = "asked"
  /\ asking' = "ended"
  /\ UNCHANGED << connVars, listing, page, registry, feedVars >>

(* The answer may be old by the time the registry is locked.               *)
UpsertAll ==
  /\ asking = "answered"
  /\ registry' = registry \union page
  /\ asking' = "sleeping" /\ page' = {}
  /\ UNCHANGED << connVars, listing, feedVars >>

(* A transport error, an HTTP status, an envelope that does not parse.     *)
DiscoveryFails ==
  /\ asking \in {"asked", "answered"}
  /\ asking' = "sleeping" /\ page' = {}
  /\ UNCHANGED << connVars, listing, registry, feedVars >>

-----------------------------------------------------------------------------
(* connect_forever, connect_once                                           *)

(* Mutant: the token ids of the first connection are used for all.         *)
ReadTokensOnce ==
  /\ registry # {}
  /\ BeginConnect
  /\ tokens' = IF tokens = {} THEN registry ELSE tokens
  /\ UNCHANGED << discoveryVars, subscribed, due, items, filed >>

ReadTokens ==
  /\ registry # {}
  /\ BeginConnect
  /\ tokens' = registry
  /\ UNCHANGED << discoveryVars, subscribed, due, items, filed >>

Subscribe ==
  /\ Connected
  /\ subscribed' = tokens
  /\ UNCHANGED << discoveryVars, tokens, due, items, filed >>

(* connect_once returns: an empty registry, after two seconds; a refused   *)
(* or broken connection; never in the middle of a frame.                   *)
End ==
  /\ phase = "down" => registry = {}
  /\ items = << >>
  /\ ConnEnds
  /\ subscribed' = {}
  /\ due' = registry
  /\ UNCHANGED << discoveryVars, tokens, items, filed >>

Sleep ==
  /\ Wake
  /\ UNCHANGED << discoveryVars, feedVars >>

-----------------------------------------------------------------------------
(* process_text                                                            *)

(* What the venue sends: items of subscribed markets, and others that it   *)
(* sends unasked, of any market or of none.                                *)
Sendable == {i \in Item : i.asked => i.market \in subscribed}

(* A text frame: an object, or an array of items.                          *)
ReceiveFrame ==
  /\ phase = "reading"
  /\ items = << >>
  /\ HearText
  /\ \E n \in 1 .. MaxItems : items' \in [1 .. n -> Sendable]
  /\ UNCHANGED << discoveryVars, tokens, subscribed, due, filed >>

(* resolve_one, label_route                                                *)
StreamOf(i) ==
  CASE i.by = "nothing"                              -> "_unrouted"
    [] i.by # "nothing" /\ i.market \in registry     -> "own"
    [] i.by = "market" /\ i.market \notin registry   -> "_unknown_market"
    [] i.by = "asset_id" /\ i.market \notin registry -> "_unknown_token"

(* stream_for_value, write_one: one item, one registry lock.               *)
FileItem ==
  /\ items # << >>
  /\ filed' = [asked |-> Head(items).asked, stream |-> StreamOf(Head(items))]
  /\ items' = Tail(items)
  /\ UNCHANGED << connVars, discoveryVars, tokens, subscribed, due >>

FeedNext ==
  \/ \E m \in Market : List(m) \/ Close(m)
  \/ Ask \/ Answer \/ UpsertAll \/ DiscoveryFails
  \/ ReadTokens \/ Subscribe \/ End \/ Sleep
  \/ ReceiveFrame \/ FileItem

FeedSpec == FeedInit /\ [][FeedNext]_polymarketVars

(* The loops keep running; Gamma and the venue answer again and again, but *)
(* nothing makes a connection end.                                         *)
FeedFairSpec ==
  /\ FeedSpec
  /\ WF_polymarketVars(Ask) /\ SF_polymarketVars(Answer) /\ SF_polymarketVars(UpsertAll)
  /\ WF_polymarketVars(ReadTokens) /\ SF_polymarketVars(Subscribe) /\ WF_polymarketVars(Sleep)
  /\ WF_polymarketVars(FileItem)

-----------------------------------------------------------------------------
(* Properties                                                              *)

Stream == {"own", "_unrouted", "_unknown_market", "_unknown_token"}

(* Types; there is a subscription and a frame only while a connection is   *)
(* read.                                                                   *)
TypeOK ==
  /\ ConnTypeOK
  /\ listing \in [Market -> {"future", "open", "closed"}]
  /\ asking \in {"sleeping", "asked", "answered"}
  /\ page \in SUBSET Market
  /\ registry \in SUBSET Market
  /\ tokens \in SUBSET Market
  /\ subscribed \in SUBSET Market /\ (phase # "reading" => subscribed = {})
  /\ due \in SUBSET Market
  /\ items \in Seq(Item) /\ (phase # "reading" => items = << >>)
  /\ filed \in [asked : BOOLEAN, stream : Stream]

(* What the feed asked for it files under the market's own stream, however *)
(* discovery runs between the subscription, the frame and its items, and   *)
(* although the market may have closed since.                              *)
NothingMisfiled == filed.asked => filed.stream = "own"

(* "Newly-discovered markets are picked up at most one reconnect later"    *)
(* (crates/polymarket_feed/src/lib.rs:10): a connection that is read       *)
(* covers what was registered when the one before it ended.                *)
PickedUpAtReconnect == phase = "reading" => due \subseteq subscribed

(* If connections keep ending and no more markets are open than fit a      *)
(* page, a market that stays open is subscribed to in the end, whatever    *)
(* fails on the way.                                                       *)
OpenMarketsRecorded ==
  \A m \in Market :
    /\ [](Cardinality(Open) <= PageLimit)
    /\ []<>(phase = "sleeping")
    /\ <>[](m \in Open)
    => <>(m \in subscribed)
=============================================================================
