---- MODULE HighWater ----
(* The mark a holder of turns writes before it signs (store/high_water.py).  What is on
   disk is a mark, nothing, or something whose digest fails; a process that dies while
   it writes leaves any of these.  Signing is the caller's, after claim returns. *)
EXTENDS Integers

CONSTANTS
    MaxMark, MaxCrashes     \* bounds

ASSUME MarkBoundsAssumption == MaxMark \in Nat /\ MaxCrashes \in Nat

VARIABLES
    file,            \* [is |-> "mark" | "empty" | "torn", value]
    holder,          \* [at |-> "down" | "up" | "writing" | "claimed" | "refused",
                     \*  value, next |-> what it is writing, then |-> where that leads]
    timesSigned,     \* height -> how often it was signed at
    emptied,         \* a process died and left the file empty
    markCrashes

markVars == <<file, holder, timesSigned, emptied, markCrashes>>

MarkHeights == 0..MaxMark
Unmarked == -1
Mark(value) == [is |-> "mark", value |-> value]
Empty == [is |-> "empty", value |-> Unmarked]
Torn == [is |-> "torn", value |-> Unmarked]
Holding(at, value) == [at |-> at, value |-> value, next |-> Unmarked, then |-> at]
Down == Holding("down", Unmarked)

\* Opening truncates: from here until the bytes are synced the file is what a crash makes it.
BeginWrite(value, then) ==
    /\ file' = Empty
    /\ holder' = [at |-> "writing", value |-> holder.value, next |-> value, then |-> then]

\* __init__: what is there is read, and a fresh one written when there is nothing.
Open ==
    /\ holder.at = "down"
    /\ IF file.is = "empty" THEN BeginWrite(Unmarked, "up")
       ELSE /\ holder' = Holding(IF file.is = "torn" THEN "refused" ELSE "up", file.value)
            /\ UNCHANGED file
    /\ UNCHANGED <<timesSigned, emptied, markCrashes>>

EndWrite ==
    /\ holder.at = "writing"
    /\ file' = Mark(holder.next)
    /\ holder' = Holding(holder.then, holder.next)
    /\ UNCHANGED <<timesSigned, emptied, markCrashes>>

AtOrAbove(height) == height >= holder.value
Above(height) == height > holder.value
Claim(height) ==
    /\ holder.at = "up" /\ Above(height)
    /\ BeginWrite(height, "claimed")
    /\ UNCHANGED <<timesSigned, emptied, markCrashes>>

\* adopt: something the chain shows.
AdoptMark(height) ==
    /\ holder.at = "up" /\ height > holder.value
    /\ BeginWrite(height, "up")
    /\ UNCHANGED <<timesSigned, emptied, markCrashes>>

Sign ==
    /\ holder.at = "claimed"
    /\ timesSigned' = [timesSigned EXCEPT ![holder.value] = @ + 1]
    /\ holder' = Holding("up", holder.value)
    /\ UNCHANGED <<file, emptied, markCrashes>>

Crash ==
    /\ holder.at # "down" /\ markCrashes < MaxCrashes
    /\ markCrashes' = markCrashes + 1
    /\ file' \in IF holder.at # "writing" THEN {file}
                 ELSE {Empty, Torn, Mark(holder.next)}
    /\ emptied' = (emptied \/ file'.is = "empty")
    /\ holder' = Down
    /\ UNCHANGED timesSigned

HighWaterInit ==
    /\ file = Empty /\ holder = Down /\ emptied = FALSE /\ markCrashes = 0
    /\ timesSigned = [h \in MarkHeights |-> 0]

HighWaterNext ==
    \/ Open \/ EndWrite \/ Sign \/ Crash
    \/ \E h \in MarkHeights : Claim(h) \/ AdoptMark(h)

HighWaterSpec == HighWaterInit /\ [][HighWaterNext]_markVars

\* "A monotone, durable, fail-safe counter" (store/high_water.py, HighWater): nobody
\* signs twice at one height, wherever the process died and however often.
SignsOnce == \A h \in MarkHeights : timesSigned[h] <= 1

\* It takes a crash inside the write, and one that left nothing at all: a mark that was
\* written, and one that was half written, each keep the holder from signing again.
SignsOnceUnlessEmptied == SignsOnce \/ emptied
====
