# PolyReaper, modelled and proved

PolyReaper records market data from several venues into newline-delimited JSON
files and replays, checks and exports what it recorded. This directory holds
TLA+ models of the program, the TLC configurations that check them on small
instances, and TLAPS proofs. Paths below are relative to the
repository's `src/`.

## 1. The system

    venues --> feeds (tasks) --> Store (one mutex) --> session_*/venue/stream.NNNN.ndjson
                 ^    ^                                       |
        registry +    + REST snapshots                        v
           ^                                         list_files, FileReader
           | Gamma                                            |
        discovery loop                 MergedReader --> filter --> books, decoders,
                                                        pacer, Parquet; integrity check

| Part | State | Operations | What is hard | Correct means |
|---|---|---|---|---|
| Store (`crates/storage`) | per stream: open file, bucket, `BufWriter` | `write`, rotation, `flush_all`, `Drop` | every system call can fail half way, the process can die between any two | whole lines, in order, once; what was acknowledged is kept; with `fsync_on_write` it survives the machine |
| Recorder (`apps/recorder/main.rs`) | task handles, shutdown signal | spawn, abort, join, final flush | abort of tasks holding half a frame, a detached task that outlives the flush | nothing stamped is lost, files are in time order, shutdown ends |
| Binance feed | connection, 600 s snapshot task | connect, subscribe, snapshot, read, write | snapshot and diffs race; neither is sequenced by the venue for us | the book replayed from the records is the venue's |
| Polymarket feed, market registry | token ids of a connection, `by_id`, `by_token` | discover, upsert, connect, demultiplex, route | ids read once per connection while discovery goes on | everything asked for is filed under its market; new markets are reached |
| Coinbase, Chainlink feeds | backoff attempt | connection loop | a venue that accepts and drops | the delay grows until data is heard |
| Merge (`replayer/merge.rs`, `reader.rs`, `filter.rs`) | one heap entry per file | `from_files`, `next` | equal stamps, damage in the middle | one strictly ordered stream, damage contained |
| Books (`replayer/book`) | levels, last id, buffers | reset, apply, buffer, replay of the buffer | reconnects, lost messages, a bounded buffer | faithful, or says Gap |
| Integrity check (`replayer/integrity.rs`) | one number per stream, flags per file | scan, classify, verdict, cutoff | state carried over files; one pass | the verdict means what it says of the whole session |
| Pacer (`replayer/pacer.rs`) | anchor, offsets, the wall clock | `next` | late events, stamps shifted below the anchor | never ahead of the recording; out of order within the offsets |
| Commands and Parquet sink (`apps/replayer`, `replayer/parquet.rs`) | what a command holds, the open batch, the file at `--out` | `count`, `head`, `tail`, `dump` | an error anywhere in the stream, a disk that fails | answers are exact or an error; an export is complete or cannot be read |
| Sweeper (`apps/recorder/sweep.rs`) and `validate-resolutions` | markets seen, the sidecar | fetch, build, append, retry | an append cut short is retried and glued to its own half | a loss shows in the check; nothing twice; what stays listed is recorded |
| Frames and decoders (`*_feed/frame.rs`, `market_registry/gamma.rs`, `replayer/decode`) | none: two readings of one text | `process_text` on the way in, `decode` on the way out | two programs that share no type, years apart, and look at different fields | what was filed decodes as what it is, or as an error; never as something else |
| Session directory, disk guard (`storage`, `replayer/discovery.rs`, `scripts/disk_guard.sh`) | names and times of files | open a session, rotate; compress an old session; list | three programs with nothing but names between them; kills; the wall clock | files listed in the order they were made; the live session untouched; no event lost to a compression |
| Config, telemetry, health, latency probe, metadata, command line | read or written once, or counters read one by one | | | not modelled, see section 8 |

`PROJECT.json` lists every component with its status, and the hazards at their
lines with the properties that cover them.

## 2. Modules

| Module | Models | Uses |
|---|---|---|
| `Storage` | `Store` and `StreamWriter`, one action per system call that can fail | |
| `EventLog` | abstract: per stream the set of the events taken, to which only newer ones are added, and the part of it that is saved, of which it is always the oldest that grows; closing may drop the newest, the end of the process what was not saved, a power failure a stretch of what was | |
| `StorageLog` | the refinement mapping from `Storage` to `EventLog` | `Storage`, `EventLog` |
| `RecorderProofs` | lemmas about runs of half lines and the theorems about `Storage`; append-only files, durability, the refinement, what a tear costs; the theorems about `Recorder` | `Recorder`, `StorageLog` |
| `Recorder`, `MCRecorder` | tasks, stamps and shutdown around the store | `Storage` |
| `FeedConn` | `connect_forever` with its backoff | |
| `PolymarketFeed` | registry, discovery, subscription and routing over that loop | `FeedConn` |
| `DepthBook` | venue, wire, recording and replay of the Binance depth stream | |
| `DepthBookProofs` | theorems about `DepthBook` | `DepthBook` |
| `PolymarketBook`, `MCPolymarketBook` | the same for a Polymarket market of two assets | |
| `PolymarketBookProofs` | theorems about `PolymarketBook` | `PolymarketBook` |
| `Merge` | `MergedReader` over the readers | |
| `Pacer` | the pacer around a merge | `Merge` |
| `Replay`, `MCReplay` | the commands and the Parquet sink at the end of that stream | `Pacer` |
| `ReplayProofs` | theorems about the merge, the pacer and the commands | `Replay` |
| `Sweep` | the sweeper, Gamma's list of closed markets, and the check of the sidecar | |
| `SweepProofs` | theorems about `Sweep` | `Sweep` |
| `Integrity`, `MCIntegrity` | `check_session` over `list_files` | |
| `IntegrityProofs` | theorems about `Integrity` | `Integrity` |
| `Calendar` | the conversions between dates and epochs of three crates | |
| `FileNames` | how the recorder names a file and how the replayer parses the name | |
| `Sessions`, `MCSessions` | the session directories with recorder, disk guard and the list of the replayer | `Calendar`, `FileNames` |
| `SessionsProofs` | the calendar of `Calendar` in order, and theorems about `Sessions` | `Sessions` |
| `Frames` | `process_text` of the four feeds: from a frame to a stream | |
| `Decode` | the decoders: from a record and its stream to a typed event | `Frames` |
| `Resolution` | how a market ended, as the Gamma adapter, the sweeper and the decoder read it | `Calendar` |
| `Records`, `MCRecords` | the way of a frame, or of a closed market, in and out again | `Decode`, `Resolution` |
| `FeedProofs` | theorems about `Records`, the calendar of `Calendar` the other way, and theorems about `PolymarketFeed` | `Records`, `PolymarketFeed` |

How state and actions correspond to the code:

* **Storage.** `writer` is the map of `StreamWriter`s, `disk` the files, `op`
  the call that holds the mutex and the point it has reached (`ensure`,
  `reopen`, `put`, `flush`, `sync`). Each `?` is an action of its own
  (`FlushFails`, `OpenOrSyncFails`, `WriteThroughFails`), because each leaves
  the writer differently. A line is two halves so that a write can be cut short.
  `BufWriter` is modelled as the standard library documents it: a line that fits
  is copied, one that does not fit first makes room, one that no buffer can hold
  goes straight to the file, and a flush that fails keeps the rest. `Crash` and
  `LoseUnsynced` are the end of the process and of the machine.
* **Recorder.** A task stamps a frame (`Stamp`), then takes the mutex once per
  event (`WriteOne`), with anything in between. An abort takes effect at the next
  await, and there is none inside a frame (`TaskEnds`). `LastHandleDropped` is the
  end of the last `Arc` of the store, after the detached snapshot task.
* **DepthBook.** The venue numbers its updates; a diff covers a range of them; a
  snapshot is the best levels of the book after one of them (`Limit`, 1000 in the
  code; one side is modelled, level 1 its best). `base` is a history of the snapshot
  under the book. `Subscribe` happens some time after the
  request, which nobody waits for. The replayed book is kept beside the
  recording: records are replayed in the order they were made.
* **PolymarketBook.** Nothing is numbered; messages have milliseconds that others
  share. `ApplyBook` replays the buffer behind a first snapshot. Changes without
  a time stamp are left out.
* **PolymarketFeed.** A market stands for its two tokens. `ReadTokens` reads the
  registry once per connection; `FileItem` looks one item up under its own lock.
* **Merge.** A line is an event with a stamp, or broken; the filter is what it
  says of an event. The lines of a file need not be in order: the recorder's clock may
  have been stepped back (`WentBack`). `PullFails` is the path where the event popped is lost.
* **Pacer, Replay.** One pull of the stream is a step of the merge (`Ask`), one of
  the pacer (`Emit`) and one of the command. A command asks only when it has used up
  what it was given, so a `head` that stops leaves the rest unread; it has pulled one
  item more than it prints, and an error there is never looked at (`HeadFull`).
  The commands use the merge without a pacer, which is the pacer at max-speed
  without offsets. "drain" is a library caller that reads past errors. A release is
  modelled at the earliest moment the sleep may end, the hardest case for
  `NeverEarly`.
* **Sweep.** The sidecar is a sequence of pieces, each what one append left;
  `Line` cuts it at the newlines as `BufRead::lines` does. `Verdict` is
  `validate_session_resolutions`; legacy per-market files change a note and never
  the verdict on a sidecar, and are left out. A query that fails is a stutter.
* **Integrity.** `PreScan` is one round of the loops over the file list, a file after
  the other, and `StartFiles` their end; the files are sorted already, so the pairs of
  neighbours in a stream are those of the code's windows over sorted buckets. The
  session is chosen while it is read; `lines` is a history the
  code does not keep, so that properties can speak of all lines where the scan
  remembers one number. Following counters decide nothing and are left out:
  duplicate hashes, arrival deltas, counts of special and of empty files.
* **Records.** A frame is a record of fields, and a field holds a word the code
  compares with or the kind of its value (a number, text, a decimal as text, null, a
  list). It starts as the venue documents it; `Damage` removes or replaces a field at
  any depth, or leaves no JSON at all; this goes for the body of a snapshot too.
  `Process` is `process_text` of the feed, `StoreSnapshot` and `Sweep` the two producers
  that bypass it: the first files the body of any answer with a good status unread, the
  second records an event with an outcome (`Recorded`) of which a record can be built
  (`BuildRecord`). `Replay` is `decode`.
  A structure of the decoder is the fields it needs, those that may be null or
  missing, and those with a default. `cut` says that a character lies across byte
  256 of the frame, where the code slices it for the log. A 256-bit word is four
  times `LowLen` digits of a radix; AnswerUpdated is read by the code's own checks of
  high digits and sign, if the log still has topics and data (`LogHasWords`).
* **Resolution, Calendar.** A date is the record of its parts, a price is as it is
  spelled. An epoch is a pair of day and second, for TLC's integers have 32 bits.
* **Sessions.** Time is counted in ticks of which the threshold for a live session
  (120 s) is a part. `Write` is a buffer that reaches its file, which is what `find
  -mmin` and `list_files` can see. disk_guard reads the live session (`Look`), chooses
  (`Choose`) and compresses file by file (`NextFile`, `GzipWritten`, `GzipUnlinks`),
  and can be killed in a gzip (`Kill`). It deletes nothing, so only its compression is
  modelled. `Busy` states what a running recorder does: something reaches a file more
  often than `COMPRESS_AGE_HOURS`.

## 3. What the runs show

| Run | Shows | Bounds |
|---|---|---|
| `store` | `LinesIntact`, `OrderKept`, `AckedKept`: files hold whole lines in write order and acknowledged events are kept, whatever fails and wherever the process dies; `OneVictimPerTear`: a torn oversize line spoils at most one other; `FsyncDurable`: with `fsync_on_write` an acknowledged event is in the synced part of its file, also when the power fails; `AppendOnly`: no step of a live process changes bytes in a file; `RecordsLog`: the store implements `EventLog`; `CallsAndExitEnd`: every call and the exit end | 2 streams, 2 buckets, 3 writes, a buffer of 2 lines, with and without fsync |
| `recorder` | `FileTimestampsMonotone`, `ShutdownLosesNothing`, `ShutdownEnds`, with a feed of two streams and the detached snapshot task, and with power failures | 3 events, frames of 2, 2 buckets, 2 clock readings |
| `polymarket_feed` | `NothingMisfiled`; `PickedUpAtReconnect`; `DelayGrowsUntilHeard`; `OpenMarketsRecorded` | 2 markets, a page of 1, frames of 2 items |
| `depth_book` | `BookFaithful`: a live book is the venue's book after `last_update_id`, but for levels that lay behind the snapshot and were not updated since; until the first periodic snapshot a `Gap` means a missing update (`GapMeansLossUntilTick`) | 3 updates on 3 levels, 1 level in a snapshot, 2 connections, 1 tick, 1 fault |
| `depth_book_refresh` | finding 1 | 1 connection, no faults |
| `polymarket_book` | `BookFaithful`; `FirstSnapshotMissesNothing`, but what the buffer limit and the shared millisecond explain | 2 assets, 3 updates, 2 milliseconds, 2 connections, a buffer of 2 |
| `replay` | `MergedInOrder`; `DamageContained`: sound files are delivered whole, of a damaged one an error is reported and at most one event in front of the damage is missing; `AnswersExact`: `count`, `head` and `tail` against the sorted reference of what was recorded; `ExportAllOrNothing`; `NeverEarly`; `GlitchWithinBudget` | 2 files: drained, up to 3 lines in any order of stamps; by the commands, up to 2; paced, up to 2 lines with 3 stamps, 2 speeds and offsets of 1 |
| `sweep` | `LossSurfaces`: a market that counts as recorded and cannot be read makes the check fail, and each such loss has a torn append of its own; `RecordedOnce`; `RecordedWhileListed` | 3 markets of any shape, a page of 2, 2 failed appends |
| `integrity` | `PassMeansReplayable`; `FailMeansDamageInside`; `CutoffOfTheCleanPart`; `GapsAreMissingBuckets` | 3 file lists, 4 lines of any kind, 2 stamps, 2 ids |
| `integrity_cutoff` | finding 2 | 2 files, 2 lines |
| `records` | `RoutedIsTyped`: what is filed under a market stream decodes as the type the stream or, at Polymarket, the item names, or is an error, whatever is wrong with it; only what is filed unread, an item that names no type or a snapshot without its id, is passed over as Unknown (`Strange`); `WholeFramesSurvive`: a frame as documented and subscribed to is filed, under its own product, and decodes as what it is, also when it is long; `AnswerExact`: an oracle's answer is the number it is or none; `ResolutionsAgree`: a record and its replay never name different winners or ends of a market, all three readings name one winner for prices of 1 and 0, and dates are what the calendar says | 5 venues, 3 configurations, up to 2 damaged fields of 5 values each; all words of 4 digits to base 4; 700 events of Gamma, dates of 6 years |
| `sessions` | `ListedInOrder`: sessions and files are listed in the order they were made, until a bucket no longer fits in its digits; `AlwaysReadable`: every file is whole under one of its names; `LiveUntouched`; `OldAreCompressed` | 1 stream with a dotted name, 2 sessions, 4 files, 4 ticks over a new year or a leap day, buckets of 1 binary digit, 1 kill, the clock stepped back once |

The bounds are the smallest in which every action fires and every interesting
conflict occurs: two streams so that one can be flushed and the other not; two
buckets, one rotation; three writes, one before, one in and one after a failure;
a buffer of two lines, so that it fills; two connections, so that there is
something stale; a page smaller than the number of markets; two failed appends, so that a retry
can be torn too; batches of one and two rows and -n up to 2, so that a ring and a
batch are full, exactly full and not full; four lines, enough
for two holes in a depth chain and a snapshot that explains one of them. The
buffer of 100 changes is 2 in the model and the page of 500 is 1: the code only
compares with them. The page of 1000 levels is 1, the four decimal digits of a bucket
are one binary digit, so that the first bucket that does not fit is made; the digits of
a word are four of base 4, of which one is an `i64`, so that every relation of the sign,
the high digits and the low one occurs. Two damaged fields, because the router looks at
no more than two that matter at once. `CHECK_DEADLOCK FALSE` is said of `integrity`,
`records` and `sessions`, whose systems end (a check, a record, the bound on sessions and
ticks); the other models stop only in named final states. `TypeOK` of a module, and the
`IInv` of the proofs, are not properties of a run: `IInv` is proved, and includes the
store's.

## 4. Where the code and what is said of it differ

1. **`depth_book_refresh`.** A periodic snapshot answered before a diff and recorded
   after it takes `last_update_id` back; all later diffs are Gaps although none is
   missing (`binance_feed/src/conn.rs:18-22`, `book/binance.rs:19-20`).
2. **`integrity_cutoff`.** The cutoff is the largest clean stamp in scan order, and
   files are scanned one after the other: an issue in a later file can be earlier
   than the cutoff, against "a safe upper bound" (`integrity.rs:70-72`).

Met while modelling and not the subject of a run of its own:

* *Store.* An oversize write that fails half way is not undone, and the next
  acknowledged line is glued to its half, against "one JSON object per line"
  (`crates/storage/src/lib.rs:11`; `OneVictimPerTear` says how much that can cost).
* *Merge.* `next()` pops an event, reads on, and returns the error of the line behind in
  its place: of a file cut short in its last line the last valid event is lost, against
  "replay can stop at last valid line" (`integrity.rs:601`; `DamageContained` allows
  that one event). A replay that listed a file before disk_guard removed it fails when it
  opens it.
* *Commands.* `tail -n 0` finds its ring full only while it is empty, so it holds and
  prints every event, against "never holds more than N events"
  (`apps/replayer/src/main.rs:118`; `AnswersExact` says so). A `ParquetSink` that is
  dropped leaves a file without a footer, against "`Drop` finalises" (`parquet.rs:73`;
  the mutant of `ExportAllOrNothing` is that very behaviour, and it would make half an
  export look whole). The check of the sidecar collects schema versions and accepts any,
  against "schema_version recognised" (`main.rs:155`).
* *Integrity check.* Snapshots are files of their own, so the line that resets the depth
  chain at a snapshot never meets the chain of the diffs (`integrity.rs:465`); two broken
  lines at the end of a file are classified as a tail too, although the field says "last
  line malformed, all preceding lines parse"; missing buckets are counted and do not keep
  a session from "PASS, no integrity issues detected".
* *Frames.* "Never panics" (`binance_feed/src/frame.rs:28`) is not true of a frame that
  is logged with a character across byte 256: `&s[..256]` panics there, in all four feeds
  and in `gamma.rs`. Only frames that are not filed under a market are logged, which is
  why `WholeFramesSurvive` holds. Partial books (`@depth20`) have no `e` and are filed as
  `_unrouted`.
* *Decoders.* `_unrouted` decodes to Unknown, says `decode/mod.rs:27-31`; Polymarket's
  decoder does not look at the stream and reads such an item as typed, and Chainlink's
  gives an error for shapes it does not know. An integer `timestamp` is tolerated,
  says `polymarket.rs:10-14`; the field is an `Option<String>` and the line is an error.
  `removed` of a Chainlink log is not read, so a log taken back by a reorganisation reads
  as an answer. `ANSWER_UPDATED_TOPIC0` cannot be checked from the repository.
* *Filed unread.* `fetch_and_persist` files the body of any answer with a good status,
  and `resolve_one` any item with the id of a known market. A snapshot without
  `lastUpdateId` and an item whose `event_type` is missing or not one of four are records
  of their market that decode to Unknown, not to an error (`RoutedIsTyped`).
* *Resolutions.* The Gamma adapter takes a price of "1" with blanks, and the first one
  whatever the other is; the sweeper and the decoder compare exactly, so a padded price
  is taken up and rejected by every sweep (`Recorded` without `BuildRecord`), and a pair
  of two 1s has a winner in the record and none in its replay; the adapter's own can be
  the other one, for it asks for Yes first, but it only decides whether there is one. The decoder takes any zone for UTC where the adapter
  refuses all but UTC; both accept 31 February. The decoder's docs name a
  `<slug>-resolved.ndjson`, which the sweeper no longer writes. Gamma's unknown fields
  are dropped, against the doc of `ResolvedMarket`.
* *Disk guard.* After a gzip that was killed the partial `.gz` stays, gzip refuses to
  write over it, and that session stays the oldest candidate for ever: no younger one is
  compressed any more, against "idempotent" (`disk_guard.sh:29`). That is why
  `OldAreCompressed` has a premise. A gzip killed between the complete `.gz` and the
  removal leaves both, and the replayer lists, and replays, the file twice.
* *Recorder.* The Chainlink feed is disabled in `main.rs`. The stall flag of a Chainlink
  feed in the health file is always false (`health.rs:34-38`, `95-97`). The grace window
  of the shutdown is a timeout around code without an await and cannot fire. Nothing
  calls `prune`, so closed markets stay in the registry and in every subscription.

## 5. Fairness

* `Storage!FairSpec`: a call that holds the mutex is taken to its return, because
  the handlers await nothing while they hold it; `main` drops the store after
  `flush_all`.
* `RecorderFairSpec`: the same, and strong fairness for each task's next write and
  for its end: workers poll a ready task, the mutex is handed to one of its waiters
  and is free again and again. `main` goes on when the tasks have ended. Nothing
  makes a frame arrive or a signal come.
* `PolymarketFeed!FeedFairSpec`: the loops run, Gamma and the venue answer once they
  have been asked often enough. Nothing makes a connection end: that is why
  `OpenMarketsRecorded` has the premise that connections keep ending, without which
  a feed kept up by pings never reads the registry again, and the premise that the
  open markets fit a page.

* `Sweep!Spec`: the loop runs as long as its process does and Gamma answers from time
  to time. Appends fail a bounded number of times; a market that is pushed off the
  page meanwhile is outside the premise of `RecordedWhileListed`, and so is one whose
  record cannot be built.
* `Sessions!Spec`: weak fairness for disk_guard as a whole. Its timer starts it again
  every five minutes (`OnUnitActiveSec=5min`), never twice at a time, and gzip ends.

## 6. What is proved

A theorem holds for every value of the constants that the named assumptions of its
module allow; unless said otherwise these only give the constants their types.

| Module | Theorems |
|---|---|
| `RecorderProofs` | of the store: `TypeCorrect`, `Invariant`, `FilesHoldWholeLines` (`LinesIntact`), `FilesKeepOrder` (`OrderKept`), `AcknowledgedEventsKept` (`AckedKept`), `FilesOnlyGrow` (`AppendOnly`), `DurableInvariant`, `FsyncedEventsDurable` (`FsyncDurable`), `StoreImplementsEventLog` (`RecordsLog`), `TearsCostOneEventEach` (`OneVictimPerTear`); of the recorder: `RecorderRunsStore`, `RecorderInvariant`, `FilesInStampOrder` (`FileTimestampsMonotone`), `ShutdownKeepsFrames` (`ShutdownLosesNothing`) |
| `FeedProofs` | of the records: `RecordsInvariant`, `RoutedDecodes` (`RoutedIsTyped`), `WholeFramesAreKept` (`WholeFramesSurvive`), `ReadingsAgree` (`ResolutionsAgree`); of the Polymarket feed: `AskedIsFiledRight` (`NothingMisfiled`), `ReconnectCoversRegistry` (`PickedUpAtReconnect`) |
| `DepthBookProofs` | `ReplayedBookIsFaithful` (`BookFaithful`), `GapsAreLosses` (`GapMeansLossUntilTick`) |
| `PolymarketBookProofs` | `BookInvariant`, `BookIsFaithful` (`BookFaithful`), `FirstSnapshotIsEnough` (`FirstSnapshotMissesNothing`) |
| `ReplayProofs` | `MergeInvariant`, `MergeTypes`, `MergeIsInOrder` (`MergedInOrder`), `DamageInvariant`, `MergeContainsDamage` (`DamageContained`), `PacerInvariant`, `NothingEarly` (`NeverEarly`), `GlitchesWithinBudget` (`GlitchWithinBudget`), `ReplayMerges`, `ReplayContainsDamage`, `CommandInvariant`, `CommandsAreExact` (`AnswersExact`), `ExportIsAllOrNothing` (`ExportAllOrNothing`) |
| `SweepProofs` | `SweepInvariant`, `NoMarketTwice` (`RecordedOnce`), `LossesSurface` (`LossSurfaces`) |
| `IntegrityProofs` | `ScanInvariant`, `PassIsReplayable` (`PassMeansReplayable`), `FailIsDamageInside` (`FailMeansDamageInside`), `CutoffIsCleanPart` (`CutoffOfTheCleanPart`), `GapsAreCounted` (`GapsAreMissingBuckets`) |
| `SessionsProofs` | `DatesInOrder`, `SessionsInvariant`, `NamesInOrder` (`NamedInOrder`, the first half of `ListedInOrder`), `EveryFileReadable` (`AlwaysReadable`), `LiveSessionUntouched` (`LiveUntouched`) |

**Store.** For every set of streams, buffer capacity above one line, number of buckets
and of writes, with and without fsync, oversize lines, I/O errors and power loss
(`StorageAssumption`). None of the properties is inductive. That the lines of a file are
whole is kept by a flush only if file and buffer *together* are whole lines: the cut made
by a flush that fails half way is mended by what stayed in the buffer. That order is kept
needs that no event is larger than `offered`, that the one in `op` is the newest, and
that the bucket of a writer is not ahead of the clock and buffers nothing for older
files. `IInv` is `TypeOK` and these: `Shape` (what the call in progress knows of its
writer), `ContentSound` (each file with the buffer bound for it is well formed, ordered,
and later buckets hold later events), `Landed` and `AckedKept`. The proof follows
content: `WriteOutKeeps` says a partial flush changes no content at all,
`ContentUnchanged` and `ContentGrows` carry the invariant over the steps that leave the
content as it is and over those that put one line behind it, `ContentCut` over the steps
that end the process.

Durability adds `LineDue`: a call at its flush or its sync has its line in the file or
the buffer of its stream, and at the sync the buffer is empty, so that what is synced is
all of it. For the refinement each action is mapped to a step of `EventLog` or to a
stutter. The mapping needs `IInv` at every step: that what is filed is the *oldest* of
what was taken is the order of the content, and that an event which bypasses the buffer is
saved only when everything before it is, is what an empty buffer means. `EventLog` keeps
sets; that the order of a set is the order in the file is `OrderKept`, proved apart.
`OneVictimPerTear` counts: each acknowledged event that cannot be read is glued to a half
that one torn line left, and no two to the same.

**Recorder.** `RecorderRunsStore` says that the tasks use the store as `Storage` allows,
so all of the above holds of the recorder. Files are in stamp order because a frame at
work carries the newest stamp its streams have heard of (`FrameNewest`) and events are
stamped in the order of their writes (`StampsInOrder`); both would be false of two tasks
that write to one stream, which is why `OwnStreams` is assumed. The feeds satisfy it: the
streams of a task have its venue's prefix. The two places in which a depth snapshot is
fetched are one task in the model: the fetch at connect ends before the periodic task is
spawned, and the next connect comes after that one was aborted and the feed has waited
for its backoff. Nothing but that wait keeps an aborted task inside its last write from
being overtaken. That shutdown loses nothing counts what is owed: the items
the frames at work still have to write are the difference between what was stamped and
what was offered (`NoneForgotten`), and tasks end owing none.

**Depth book.** For any number of levels, quantities, updates, connections and faults and
any depth of a snapshot. `BookFaithful` compares the book with the venue's at
`last_update_id`, so a step of the venue must not change what it said before
(`UpdateKeepsPast`); that needs `Past`: every id on the wire, in an answer or in the book
is of an update already made. The core is `NotCarried`: a diff that chains and does not
carry a level proves that the level did not change since the last id, and one that is
stale changes nothing. That a Gap means a loss needs `LossInv`: diffs are recorded in the
order of the updates and once each (`SentInOrder`), and until the interval ticks nothing
is read while a snapshot is awaited, so that the update behind the book is never a
recorded one (`NextIsUnread`). The tick is where this ends, and finding 1 begins.

**Polymarket feed.** For any number of markets, page and frame. Both theorems rest on the
registry that only grows: nothing calls `prune`, so what a connection read of it
(`Covered`), and every item it asked for that is still in a frame (`FrameKnown`), stays
registered while discovery goes on. Were markets pruned while a connection streams them,
neither would be an invariant.

**Records.** For any list of configured streams, any number of damaged fields and
anything in their place, and any events of Gamma with dates of four-digit years and
prices spelled as listed (`RecordsAssumption`). `RecordsInv` remembers what a record
came from: a frame or a snapshot's body is what was sent until a field of it is damaged
(`AsSent`), a record is a snapshot as it came or what `process_text` made of its frame
(`AsFiled`), and the Gamma adapter, the sweeper and the replayer read one event
(`AsSwept`). The theorems are then about the routers and the decoders as
functions. `RoutedIsTyped` has to hold for a frame of which nothing else is known, so it
follows from the fields that both look at, and from those that only the decoder looks at
for the records that are filed unread (`SnapshotTyped`, `PolymarketTyped`): `TypedByField` says what type a Binance frame
with a given field can be routed as, `FirstTaker` that the stream found is one that takes that type, and
`HasTime` that a trade or a diff that decodes has the number the router took its time
from. For `WholeFramesSurvive` the stream found must be the subscribed one: there is one (`FirstTaker`), and
if only one could take the frame it is that one (`OneOfOne`). In `ResolutionsAgree` the
Gamma adapter looks for a 1 beside the label it knows for Yes (`RecordedIs`), the sweeper
for the first 1 in the order of the list (`BuiltIs`), the decoder for an exact pair
(`DecodedIs`). That both read the right day is `CivilIsCounted`: Hinnant's
`days_from_civil` is the count of the days since 1970, for any year from 0 on. The years
are counted one by one with their leap years (`LeapsCounted`, by the least number of
years for which the count would be wrong), the formula by whole divisions.

**Merge, pacer, replay.** For any number of files of any length, sound or damaged, with
clocks that go back. Were files sorted, the heap would be above everything delivered, and
that would be the invariant. Here an entry may be older than what was delivered, so
`OrderSound` says that for each entry of the heap its file has, at that line or before
it, one that is not smaller than any event delivered (`Bounded`): only an event older
than one before it in its own file can come late. For damage, `DamageInv` says where each
file is: not opened, offering its next wanted event with all before it delivered, read to
its end, or given up at its first broken line with the event before it lost. The pacer
adds that it passes on a prefix of the merge with shifted stamps (`PassedOn`) and that its
anchor is its first event (`AnchorSound`); the sleep is a whole division, of which
`DivisionLoses` says that it loses less than one divisor. `ReplayMerges` says that a
replay under any command is a run of the merge.

**Commands.** For any `-n`, any filter and any size of a batch. What is recorded is
`Recorded`: the wanted events sorted by stamp, file and line, an event at its rank, which
is the number of events before it. `FrontInv` says that the merge delivers wanted events
only and, while no clock went back and no error came, leaves out none that is before one
it delivered (`NoneSkipped`). So the i-th delivered has rank i - 1 (`RankOfRow`), and what
is delivered is a prefix of `Recorded`, all of it when every file was read to its end
(`AllRecorded`). `CmdInv` adds what each command has made of the part it took: all of it,
the first n, a ring of the last n (or of everything, with n = 0), or the rows written
together with the open batch, which stay without a footer until the command has taken
all. The two theorems compare that with `Recorded`, which the commands never see.

**Polymarket book.** For any assets and levels, any number of updates, connections and
faults and any limit of the buffer. Nothing is numbered, so `BookInv` names the set of
updates that a book has taken in (`holds`, a history) and says that the book is what the
latest of them set (`BookOf`). Applying a list of newer items keeps that, if the list is
in the order of the updates (`AppliedIsLatest`), which what is applied is
(`InOrderIsSorted`, by the rank of a number in its set). What has to be known is the order of everything between the venue
and the book: a change on the wire is behind all that was read (`Ahead`), a `book` was
taken between two updates (`TakenBetween`), and what is buffered from before it has no
later stamp (`CoversBuffer`); that is what makes replaying the buffer behind a snapshot,
by milliseconds, right. `NothingMissed` gives the two ways in which an update can be
missing after the first snapshot: it shares the snapshot's millisecond, or `MAX_BUFFER`
recorded ones came behind it.

**Integrity check.** For any list of files that `list_files` can give, any number of lines,
any stamps and ids (`IntegrityAssumption`: a list is sorted, and a stream is of one
venue). The check remembers the last stamp of a file and the last number of a stream
where the properties are about all pairs of lines. `ScanInv` says what each is worth: the
last stamp is the largest of its file unless a line of the file is already out of order
(`StampSound`), the last number of a stream the largest of those since its last
snapshot unless an id already went back, and for market events, where a smaller one is
not kept, always (`ChainSound`). When it is not, a counter is above zero for good, and
`CountSound` says of which lines. The counter of chain breaks is exactly the number of holes, not only
zero with it, because PASS weighs it against the snapshots. A line's own issues do not
change when lines are put behind it (`SameBehind`), which carries all of this over a
line that is read, and makes the cutoff of a venue final from its first issue on
(`CutoffSound`). Of damage, three flags per file are what the lines of the file say
(`DamageSound`), and a file with a broken line either has a good one behind it or ends
broken, so no damage is between the two counters. In the pre-scan a file adds the buckets
between its neighbour and itself, none of which an earlier pair can have added
(`NextFile`).

**Sweeper.** For any number of markets, any page, any number of appends that fail or are
torn. `SweepInv` relates what is remembered to the pieces of the sidecar: what is
remembered was written whole, each once, and a piece cut short at the end is of a market
that is not remembered. The theorems then are about lines, which are runs of pieces
between newlines: a line that parses is one whole piece behind a newline, and a market
that cannot be read was written behind a half, whose line is one the check rejects.

**Sessions.** For any streams, any day since 1970 on which the clock starts
(`FirstDays \subseteq Nat`: the code counts from `UNIX_EPOCH`), any length of a day, any
`Age` of two ticks or more, any number of ticks, sessions, files and kills.
`DatesInOrder` is about the arithmetic of `civil_from_days`: a later day has a later
date, over all months, years, leap years and eras of 400 years. The year of an era is
computed with three corrections by whole divisions; `YearHasBegun` and `YearHasNotEnded`
prove that it is the year in which the day lies. So no two moments have the same name
(`OneMoment`), and the names are in order. `LiveUntouched` is not inductive: disk_guard
looks at the sessions long before it compresses one, and the recorder may have opened its
session in between. `GzipIsLate` says that what is chosen, or has been compressed, is
named after a moment at least two ticks back, which no session opened now is, even by a
clock that was set back one tick; `RunIsFresh` that a running recorder has written to its
session less than `Age` ago, so that it is not chosen. `Busy` is the assumption on the
recorder behind it. `AlwaysReadable` needs both: a file that is made again after it was
compressed would be one that is listed twice.

Only model-checked, and why:

* The second half of `ListedInOrder`: that a padded bucket is read back as the number it
  was rests on powers of the base, which the provers do not know, and on a fold over its
  digits.
* `AnswerExact` of `Records`: words are read digit by digit with a fold, and what a fold
  computes of a word of any length is an induction over data; the widths it compares with
  are powers of the radix, which the provers do not know either.
* Liveness (`CallsAndExitEnd`, `ShutdownEnds`, `DelayGrowsUntilHeard`,
  `OpenMarketsRecorded`, `RecordedWhileListed`, `OldAreCompressed`): `ENABLED` and
  fairness are out of the prover's reach. So is what a recursive definition computes for
  all inputs (`Power` in `FeedConn`, the folds in `FileNames` and `Decode`). `ApplyItems`
  of `PolymarketBook` is no recursion: it says of a level which item is its last.

## 7. Plan

Order of work, most important first; done: the store, the recorder, the merge with the
pacer, the commands and the sink, the depth book, the Polymarket feed and book, the
integrity check, the sweeper, frames and decoders, sessions and the disk guard, and the
proofs of section 6.

1. Proofs: that `epoch_secs_to_utc` and `days_from_civil` are inverse to each other, of
   which `DatesInOrder` and `CivilIsCounted` are what the properties need.
2. Abstract specifications: a replay as the sorted bag of what the files hold
   (`Merge` refines it, as `CommandsAreExact` says of the commands); a book as a partial function of the records.

## 8. Not modelled

* Configuration (`crates/config`), argument parsing and the session's metadata file:
  read or written once by one thread; every branch is a range check with a unit test.
* Telemetry and the health file: counters on relaxed atomics, each read alone and never
  related to another; a reader can see any recent value of each, and nothing is
  decided from them.
* The latency probe: a loop of TCP connects that appends one line each.
* `deploy.sh`, which copies a binary and restarts a unit; the systemd units are read for
  the fairness of section 5 only.
* The directory entry of a bucket file: a power failure takes back what was not synced in
  a file, never the file itself. The code syncs files and no directory.
* Changes of a Polymarket book without a time stamp, which `PolymarketSideBook` replays
  over any snapshot.
* Ping and pong of the feeds: they keep a connection from its idle timeout, and every
  model lets a connection end at any time.
* The schema and the encoding of a Parquet row; accessors of the books, which only read.
