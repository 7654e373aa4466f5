---------------------------- MODULE FrameCodec -----------------------------
(***************************************************************************)
(* The text of a frame in Etapa2 (router/src/protocol.c) and its lines.     *)
(*                                                                          *)
(* A text is a sequence of characters, but a type word is one character     *)
(* here, and an address is few: decodeFrame and the cuts of TCP tell apart  *)
(* no more than what is a type, a separator, an address that inet_pton      *)
(* accepts, a line end, NUL, and the rest.  An address in binary is named   *)
(* by its text, since inet_ntop undoes inet_pton.                           *)
(***************************************************************************)
EXTENDS Naturals, SequencesExt

CONSTANTS
    Addresses,      \* the texts of addresses, other than 0.0.0.0, that inet_pton accepts
    BufSize         \* SENDER_BUFFER_SIZE, MAX_BUFFER_SIZE, LISTENER_BUFFER_SIZE: 1024 each

Types     == {"ANNOUNCE", "ADVERTISE", "DATA"}
LineEnds  == {"CR", "LF"}

\* inet_pton accepts digits and dots only.
ASSUME FrameCodecAssumption ==
    /\ BufSize \in Nat
    /\ \A ip \in Addresses : /\ ip \in Seq(ToSet(ip))
                             /\ ToSet(ip) \cap (Types \cup LineEnds \cup {"|", "NUL"}) = {}

NoMessage == [type |-> "none", ip |-> << >>, data |-> << >>]

\* A set of numbers in ascending order, and the elements of s at the places in D.
Ascending(D) == [i \in 1 .. Cardinality(D) |-> CHOOSE x \in D : Cardinality({y \in D : y <= x}) = i]
At(s, D)     == [i \in 1 .. Cardinality(D) |-> s[Ascending(D)[i]]]

\* The part of a text before the first c, and the part after it.
Before(text, c) ==
    LET at == SelectInSeq(text, LAMBDA x : x = c) IN IF at = 0 THEN text ELSE SubSeq(text, 1, at - 1)
After(text, c)  ==
    LET at == SelectInSeq(text, LAMBDA x : x = c) IN IF at = 0 THEN << >> ELSE SubSeq(text, at + 1, Len(text))

\* Line ends are taken off both ends of a text, or off its end only.
Kept(x) == x \notin LineEnds
WithoutEnd(text) == SubSeq(text, 1, SelectLastInSeq(text, Kept))
Trimmed(text)    ==
    IF \A i \in DOMAIN text : ~ Kept(text[i]) THEN << >> ELSE SubSeq(WithoutEnd(text), SelectInSeq(text, Kept), Len(WithoutEnd(text)))

\* decodeFrame: a type word, an address and, in a DATA frame only, the data
\* after a second separator.
Decode(text) ==
    LET line == Trimmed(Before(text, "NUL"))
        rest == After(line, "|")
        ip   == Before(rest, "|")
    IN  IF /\ Contains(line, "|")
           /\ Before(line, "|") \in {<<t>> : t \in Types}
           /\ Contains(rest, "|") <=> line[1] = "DATA"
           /\ ip \in Addresses
        THEN [type |-> line[1], ip |-> ip, data |-> After(rest, "|")]
        ELSE NoMessage

\* The text of a frame: what snprintf and memcpy put into the buffer.
FrameText(m) ==
    <<m.type, "|">> \o m.ip \o (IF m.type = "DATA" THEN <<"|">> \o m.data ELSE << >>) \o <<"LF">>

\* Mutant of Encode: the size of the buffer is not looked at.
EncodeUnchecked(m) == IF m.ip \in Addresses THEN FrameText(m) ELSE << >>

\* encodeFrame: nothing for the address 0.0.0.0, and when the frame and its
\* NUL exceed the buffer.
Encode(m) == IF m.ip \in Addresses /\ Len(FrameText(m)) < BufSize THEN FrameText(m) ELSE << >>

\* The texts between the line ends of a stream; what follows the last one is
\* not a line yet.
Lines(stream) ==
    LET ends == Ascending({i \in DOMAIN stream : stream[i] = "LF"})
    IN  [j \in DOMAIN ends |-> SubSeq(stream, IF j = 1 THEN 1 ELSE ends[j - 1] + 1, ends[j] - 1)]
=============================================================================
