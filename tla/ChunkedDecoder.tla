--------------------------- MODULE ChunkedDecoder ---------------------------
(***************************************************************************)
(* core/ChunkedDecoder: the framing of a chunked HTTP body, one byte at a  *)
(* time; payload is moved in bulk by the caller.  A decoder is the record  *)
(* of its four fields.                                                     *)
(***************************************************************************)
EXTENDS Naturals

CONSTANTS
    Digits,    \* value of each byte that is a digit of a chunk size
    Radix,     \* 16 in the code: a size is shifted by four bits per digit
    MaxSize    \* UINT32_MAX in the code

Marks == {"cr", "lf", "semi", "space", "x"}

(* MaxSize is as many digits as fit, each the largest.                     *)
ASSUME DecoderAssumption ==
    /\ Radix \in Nat \ {0} /\ MaxSize \in Nat /\ MaxSize % Radix = Radix - 1
    /\ \A c \in DOMAIN Digits : c \notin Marks /\ Digits[c] \in 0..(Radix - 1)

(* What a byte is to the decoder: a digit, a mark of the framing, or "x".  *)
Bytes == DOMAIN Digits \cup Marks

Phases == {"Size", "Extension", "Data", "DataEnd", "Trailer", "Done", "Invalid"}

Decoders == [phase: Phases, remaining: 0..MaxSize, digit: BOOLEAN, empty: BOOLEAN]

(* reset()                                                                 *)
Fresh == [phase |-> "Size", remaining |-> 0, digit |-> FALSE, empty |-> TRUE]

EndSizeLine(d) ==
    IF ~d.digit THEN [d EXCEPT !.phase = "Invalid"]
    ELSE IF d.remaining = 0 THEN [d EXCEPT !.phase = "Trailer", !.empty = TRUE]
    ELSE [d EXCEPT !.phase = "Data"]

(* Mutant: a size may grow past 32 bits, and wraps.                        *)
SizeWraps(d, c) ==
    IF c \notin DOMAIN Digits THEN [d EXCEPT !.phase = "Invalid"]
    ELSE [d EXCEPT !.remaining = (@ * Radix + Digits[c]) % (MaxSize + 1), !.digit = TRUE]

(* A size that does not fit is not a body this device can hold.            *)
SizeDigit(d, c) ==
    IF c \notin DOMAIN Digits \/ d.remaining > MaxSize \div Radix
    THEN [d EXCEPT !.phase = "Invalid"]
    ELSE [d EXCEPT !.remaining = @ * Radix + Digits[c], !.digit = TRUE]

FeedSize(d, c) ==
    CASE c \in {"cr", "space"} -> d
      [] c = "lf"   -> EndSizeLine(d)
      [] c = "semi" -> [d EXCEPT !.phase = IF d.digit THEN "Extension" ELSE "Invalid"]
      [] OTHER      -> SizeDigit(d, c)

(* Anything but a line end here means that the declared size was wrong.    *)
FeedDataEnd(d, c) ==
    IF c = "cr" THEN d
    ELSE [d EXCEPT !.phase = IF c = "lf" THEN "Size" ELSE "Invalid",
                   !.remaining = 0, !.digit = FALSE]

FeedTrailer(d, c) ==
    IF c = "cr" THEN d
    ELSE IF c # "lf" THEN [d EXCEPT !.empty = FALSE]
    ELSE [d EXCEPT !.phase = IF d.empty THEN "Done" ELSE @, !.empty = TRUE]

Feed(d, c) ==
    CASE d.phase = "Size"      -> FeedSize(d, c)
      [] d.phase = "Extension" -> IF c = "lf" THEN EndSizeLine(d) ELSE d
      [] d.phase = "DataEnd"   -> FeedDataEnd(d, c)
      [] d.phase = "Trailer"   -> FeedTrailer(d, c)
      [] OTHER                 -> d

ConsumeData(d, n) ==
    IF d.phase # "Data" THEN d
    ELSE IF n < d.remaining THEN [d EXCEPT !.remaining = @ - n]
    ELSE [d EXCEPT !.remaining = 0, !.phase = "DataEnd"]
=============================================================================
