------------------------------ MODULE Strftime ------------------------------
(***************************************************************************)
(* strftime and asctime, libc/src/time.c: which bytes of the caller's      *)
(* array are written.  A format is a sequence of items: a conversion that  *)
(* snprintf turns into len characters, one of the conversions with "%02d", *)
(* which vsnprintf does not know and copies instead, "%%", a conversion    *)
(* strftime does not know, or a plain character.                           *)
(***************************************************************************)
EXTENDS Integers, Sequences

CONSTANTS
    TextLengths,    \* lengths of names and years
    MaxItems,       \* items in a format
    MaxTime         \* bytes in the array

ASSUME StrftimeAssumption == TextLengths \subseteq Nat /\ {MaxItems, MaxTime} \subseteq Nat

TextItem(k) == [kind |-> "text", len |-> k]
Item(k) == [kind |-> k, len |-> 0]
Two == Item("%02d")
Plain == Item("plain")
TimeItems == {TextItem(k) : k \in TextLengths} \cup {Two, Plain, Item("%%"), Item("unknown")}

\* Line 236, into 26 bytes.
AsctimeFormat ==
    <<TextItem(3), Plain, TextItem(3), Plain, Two, Plain, Two, Plain, Two, Plain, Two,
      Plain, TextItem(4), Plain>>
AsctimeSize == 26

VARIABLES
    tf_format, tf_max,
    tf_at,              \* the place in the format
    tf_count,           \* count, the place in the array
    tf_written,         \* the bytes of the array that were written, from 0 on
    tf_pc

tfVars == <<tf_format, tf_max, tf_at, tf_count, tf_written, tf_pc>>

TfInit ==
    /\ \/ /\ tf_format \in UNION {[1..k -> TimeItems] : k \in 0..MaxItems}
          /\ tf_max \in 1..MaxTime
       \/ tf_format = AsctimeFormat /\ tf_max = AsctimeSize
    /\ tf_at = 1 /\ tf_count = 0 /\ tf_written = {} /\ tf_pc = "loop"

TfRest ==
    /\ tf_format = <<>> /\ tf_max = 1
    /\ tf_at = 1 /\ tf_count = 0 /\ tf_written = {0} /\ tf_pc = "done"

\* Mutant of TimeRoom: snprintf is told the size of the whole array.
TimeRoomWhole == tf_max

\* The size that is passed to snprintf.
TimeRoom == tf_max - tf_count

Smaller(a, b) == IF a < b THEN a ELSE b

(***************************************************************************)
(* What snprintf writes and counts: "%0" of the unknown conversion always, *)
(* the rest as far as there is room.                                       *)
(***************************************************************************)
Printed(item) ==
    IF item.kind = "text" THEN Smaller(item.len, TimeRoom - 1)
    ELSE IF TimeRoom > 3 THEN Smaller(4, TimeRoom - 1) ELSE 2

\* Lines 160-224.
FormatItem ==
    LET item == tf_format[tf_at]
    IN  /\ tf_pc = "loop" /\ tf_at =< Len(tf_format) /\ tf_count < tf_max - 1
        /\ \/ /\ item.kind \in {"text", "%02d"}     \* with the NUL of snprintf
              /\ tf_written' = tf_written \cup (tf_count..(tf_count + Printed(item)))
              /\ tf_count' = tf_count + Printed(item)
           \/ /\ item.kind = "plain"
              /\ tf_written' = tf_written \cup {tf_count}
              /\ tf_count' = tf_count + 1
           \/ /\ item.kind = "%%"                   \* counted twice
              /\ tf_written' = tf_written \cup {tf_count}
              /\ tf_count' = tf_count + 2
           \/ /\ item.kind = "unknown"              \* counted twice
              /\ LET copied == IF tf_count + 1 < tf_max - 1 THEN 2 ELSE 1
                 IN  /\ tf_written' = tf_written \cup (tf_count..(tf_count + copied - 1))
                     /\ tf_count' = tf_count + copied + 2
        /\ tf_at' = tf_at + 1
        /\ UNCHANGED <<tf_format, tf_max, tf_pc>>

\* Lines 227-228.
FormatEnd ==
    /\ tf_pc = "loop" /\ (tf_at > Len(tf_format) \/ tf_count >= tf_max - 1)
    /\ tf_written' = tf_written \cup {tf_count}
    /\ tf_pc' = "done"
    /\ UNCHANGED <<tf_format, tf_max, tf_at, tf_count>>

TfNext == FormatItem \/ FormatEnd

-----------------------------------------------------------------------------
TimeDone == {tf_format[k].kind : k \in 1..(tf_at - 1)}
\* The last item was a "%02d" with two bytes left.
Tight == tf_at > 1 /\ tf_format[tf_at - 1] = Two /\ tf_count = tf_max

(***************************************************************************)
(* strftime fills the array without a gap up to its NUL, which is inside,  *)
(* and writes nothing behind it, however the format is cut off by the end  *)
(* of the array.  Exempt are "%%" and unknown conversions, counted twice   *)
(* (lines 207-215), and a "%02d" that finds just two bytes left; asctime   *)
(* never meets that case.                                                  *)
(***************************************************************************)
FormatsTime ==
    tf_pc = "done" =>
        \/ tf_written = 0..tf_count /\ tf_count < tf_max
        \/ /\ tf_format # AsctimeFormat \/ tf_max # AsctimeSize
           /\ Tight \/ TimeDone \cap {"%%", "unknown"} # {}
=============================================================================
