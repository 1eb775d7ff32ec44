----------------------------- MODULE Durations ------------------------------
(***************************************************************************)
(* The three parsers of a duration: the strict one of the workflow's       *)
(* timeout fields, the adapter's for a chat step's timeout, and v1's.      *)
(*                                                                         *)
(* A text is the sequence of its <<number, unit>> parts; number -1 is no   *)
(* digits, unit "none" no letters.  MaxMs stands for 2^64 - 1.             *)
(***************************************************************************)
EXTENDS Integers, Sequences

CONSTANTS Texts, MaxMs

\* "d" stands for every unit the parsers do not know.
Letters == {"ms", "s", "m", "h", "none", "d"}

ASSUME DurationAssumption == MaxMs \in Nat /\ Texts \subseteq Seq(Int \X Letters)

VARIABLES written, dpos, total, rank, verdict
durationVars == <<written, dpos, total, rank, verdict>>

RankOf(unit) == CASE unit = "ms" -> 1 [] unit = "s" -> 2 [] unit = "m" -> 3 [] unit = "h" -> 4 [] OTHER -> 0
MsOf(unit) == CASE unit = "ms" -> 1 [] unit = "s" -> 1000 [] unit = "m" -> 60000 [] OTHER -> 3600000

DurationInit ==
    /\ written \in Texts /\ dpos = 1 /\ total = 0 /\ rank = 5
    /\ verdict = IF written = << >> THEN "error" ELSE "parsing"

InOrder(unit) == RankOf(unit) < rank

\* One turn of parse_duration's loop.
ParsePart ==
    /\ verdict = "parsing" /\ dpos <= Len(written)
    /\ LET number == written[dpos][1] unit == written[dpos][2]
       IN  IF number >= 0 /\ RankOf(unit) > 0 /\ InOrder(unit)
           THEN /\ dpos' = dpos + 1 /\ rank' = RankOf(unit) /\ total' = total + number * MsOf(unit)
                /\ UNCHANGED verdict
           ELSE verdict' = "error" /\ UNCHANGED <<dpos, total, rank>>
    /\ UNCHANGED written

Fits == total <= MaxMs

ParseEnds ==
    /\ verdict = "parsing" /\ dpos > Len(written) /\ verdict' = (IF Fits THEN "ok" ELSE "error")
    /\ UNCHANGED <<written, dpos, total, rank>>

DurationEnded == verdict # "parsing" /\ UNCHANGED durationVars

DurationNext == ParsePart \/ ParseEnds \/ DurationEnded

DurationSpec == DurationInit /\ [][DurationNext]_durationVars

\* A part that is not zero is written.
Write(out, number, unit) == IF number > 0 THEN Append(out, <<number, unit>>) ELSE out

\* Variant: the hours are left out.
Canonical_NoHours(ms) ==
    LET minutes == (ms % 3600000) \div 60000 seconds == (ms % 60000) \div 1000
    IN  Write(Write(Write(<< >>, minutes, "m"), seconds, "s"), ms % 1000, "ms")

\* canonical: the parts that are not zero, largest first.
Canonical(ms) ==
    LET noHours == ms % 3600000 noMinutes == noHours % 60000
        hours == Write(<< >>, ms \div 3600000, "h")
        minutes == Write(hours, noHours \div 60000, "m")
        seconds == Write(minutes, noMinutes \div 1000, "s")
    IN  IF ms = 0 THEN <<<<0, "s">>>> ELSE Write(seconds, noMinutes % 1000, "ms")

Worth(part) == part[1] * MsOf(part[2])
\* What the first parts of a text are worth together, by their number.
Sums(t) == LET sum[k \in 0..Len(t)] == IF k = 0 THEN 0 ELSE sum[k - 1] + Worth(t[k]) IN sum
Meaning(t) == Sums(t)[Len(t)]
Falling(t) == \A i, j \in DOMAIN t : i < j => RankOf(t[i][2]) > RankOf(t[j][2])

Refused == 0 - 1
\* The adapter's parser: one number, of seconds if it has no unit; hours are not known.
ChatTimeout(t) ==
    IF Len(t) # 1 \/ t[1][1] < 0 \/ t[1][2] \notin {"ms", "s", "m", "none"} THEN Refused
    ELSE LET ms == t[1][1] * IF t[1][2] = "none" THEN 1000 ELSE MsOf(t[1][2])
         IN  IF ms > MaxMs THEN Refused ELSE ms

\* v1's: the same texts, with only the number bounded.  Its m * 60 is not checked; it can only
\* overflow on numbers the adapter refuses.
V1Duration(t) ==
    IF Len(t) # 1 \/ t[1][1] < 0 \/ t[1][1] > MaxMs \/ t[1][2] \notin {"ms", "s", "m", "none"} THEN Refused
    ELSE t[1][1] * IF t[1][2] = "none" THEN 1000 ELSE MsOf(t[1][2])

-----------------------------------------------------------------------------
(* Properties *)

\* Types of the strict parser; a length of time it accepts fits its integer.
DurationTypeOK ==
    /\ written \in Texts /\ dpos \in 1..Len(written) + 1 /\ rank \in 1..5
    /\ verdict \in {"parsing", "ok", "error"} /\ (verdict = "ok" => total <= MaxMs)

\* A timeout that was accepted is written back as text that parses to the same length of time.
RoundTrip ==
    verdict = "ok" => Falling(Canonical(total)) /\ Meaning(Canonical(total)) = total /\ Canonical(total) # << >>

\* An accepted text means the sum of its parts, each unit at most once and in falling order.
StrictMeaning == verdict = "ok" => Falling(written) /\ total = Meaning(written)

\* Where the strict parser and the compatibility parsers accept the same text they mean the
\* same time, and what the adapter accepts v1 accepted with that meaning.
ParsersAgree ==
    /\ verdict = "ok" /\ ChatTimeout(written) # Refused => ChatTimeout(written) = total
    /\ ChatTimeout(written) # Refused => V1Duration(written) = ChatTimeout(written)

\* A duration means the same to all who read it, and survives being written back.
DurationSafe == DurationTypeOK /\ RoundTrip /\ StrictMeaning /\ ParsersAgree
=============================================================================
