------------------------------ MODULE FileNames -----------------------------
(***************************************************************************)
(* The names of a session's files: how the recorder makes them             *)
(* (crates/storage/src/lib.rs) and what the replayer reads back from them  *)
(* (crates/replayer/src/discovery.rs).                                     *)
(*                                                                         *)
(* A name is a sequence of characters; the suffixes ".ndjson" and ".gz"    *)
(* are one character each.  A bucket is written in base Base with at least *)
(* Width digits: ten and four in the code.                                 *)
(***************************************************************************)
EXTENDS Integers, Sequences, SequencesExt

CONSTANTS
  Base,     \* digits a bucket is written with
  Width     \* digits a bucket is padded to

ASSUME NamesAssumption ==
  /\ Base \in 2 .. 10
  /\ Width \in Nat \ {0}

Numeral == <<"0", "1", "2", "3", "4", "5", "6", "7", "8", "9">>
Digit   == {Numeral[i] : i \in 1 .. Base}
ValueOf(c) == (CHOOSE i \in 1 .. Base : Numeral[i] = c) - 1

NumDigits(n) == CHOOSE k \in Width .. Width + n :
                  /\ n < Base ^ k
                  /\ k = Width \/ Base ^ (k - 1) <= n

(* {bucket:04}                                                             *)
Padded(n) == [i \in 1 .. NumDigits(n) |->
                Numeral[1 + ((n \div Base ^ (NumDigits(n) - i)) % Base)]]

NumberOf(ds) == FoldLeft(LAMBDA n, c : n * Base + ValueOf(c), 0, ds)

(* Mutant: a dot stays.                                                    *)
SanitizedButDots(stream) ==
  [i \in DOMAIN stream |-> IF stream[i] = "@" THEN "_" ELSE stream[i]]

(* sanitize_stream_name: letters, digits, '_' and '-' stay.                *)
Sanitized(stream) ==
  [i \in DOMAIN stream |-> IF stream[i] \in {"@", "."} THEN "_" ELSE stream[i]]

(* file_path; disk_guard.sh appends ".gz" when it compresses the file.     *)
FileName(sanitized, bucket, rotating, gz) ==
  sanitized \o (IF rotating THEN <<".">> \o Padded(bucket) ELSE << >>)
            \o <<".ndjson">> \o (IF gz THEN <<".gz">> ELSE << >>)

NoFile == [stream |-> << >>, bucket |-> 0, gz |-> FALSE, found |-> FALSE]

(* parse_file_name: a last part of exactly Width digits is the bucket, and *)
(* anything else belongs to the stream.                                    *)
ParseFileName(name) ==
  LET gz    == Last(name) = ".gz"
      ext   == IF gz THEN Front(name) ELSE name
      stem  == Front(ext)
      dots  == {i \in DOMAIN stem : stem[i] = "."}
      dot   == CHOOSE i \in dots : \A j \in dots : j <= i
      right == SubSeq(stem, dot + 1, Len(stem))
      whole == [stream |-> stem, bucket |-> 0, gz |-> gz, found |-> TRUE]
  IN  IF Last(ext) # ".ndjson" THEN NoFile
      ELSE IF dots = {} THEN whole
      ELSE IF Len(right) = Width /\ Range(right) \subseteq Digit
           THEN [whole EXCEPT !.stream = SubSeq(stem, 1, dot - 1),
                              !.bucket = NumberOf(right)]
           ELSE whole
=============================================================================
