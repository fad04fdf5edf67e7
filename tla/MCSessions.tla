----------------------------- MODULE MCSessions -----------------------------
(* A stream whose name has to be sanitized, with a digit behind a dot.  The *)
(* clock starts on the last day of a year, or on the day before a leap day. *)
EXTENDS Sessions

MCStreams == {<<"b", "@", ".", "1">>}
MCFirstDays == {DaysFromCivil(1999, 12, 31), DaysFromCivil(2000, 2, 28)}
=============================================================================
