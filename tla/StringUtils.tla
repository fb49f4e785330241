---------------------------- MODULE StringUtils ----------------------------
(***************************************************************************)
(* The functions of string_utils.cpp, loop by loop, on sequences of bytes. *)
(* parse_str_time only hands its argument to strptime and mktime and is    *)
(* left out.                                                               *)
(***************************************************************************)
EXTENDS Integers, Sequences, FiniteSets

CONSTANT TopInt     \* stands for the largest uint32_t

Bytes(text) == {text[i] : i \in DOMAIN text}
Nul      == 0
Digits   == 48 .. 57

-----------------------------------------------------------------------------
(* split: getline gives back what stands before the next delimiter, and    *)
(* ends the loop when nothing at all is left.                              *)

split(s, delim) ==
    LET RECURSIVE Loop(_, _, _)
        Loop(i, item, elems) ==
            IF i > Len(s) THEN IF item = << >> THEN elems ELSE Append(elems, item)
            ELSE IF s[i] = delim THEN Loop(i + 1, << >>, Append(elems, item))
            ELSE Loop(i + 1, Append(item, s[i]), elems)
    IN  Loop(1, << >>, << >>)

\* the loop ends at the first NUL, as c_str() does
is_all_digit(s) ==
    LET RECURSIVE Loop(_)
        Loop(i) == IF i > Len(s) \/ s[i] = Nul THEN TRUE
                   ELSE s[i] \in Digits /\ Loop(i + 1)
    IN  s # << >> /\ Loop(1)

\* mutant: the second loop does not look at the first byte that is left over
trim_Short(s, charlist) ==
    LET RECURSIVE Head_(_), Tail_(_)
        Head_(cnt) == IF cnt # Len(s) /\ s[cnt + 1] \in charlist THEN Head_(cnt + 1) ELSE cnt
        Tail_(pos) == IF pos > Head_(0) + 2 /\ s[pos] \in charlist THEN Tail_(pos - 1) ELSE pos
    IN  SubSeq(s, Head_(0) + 1, Tail_(Len(s)))

\* cnt bytes go at the head; then pos runs down to the first byte that is left
trim(s, charlist) ==
    LET RECURSIVE Head_(_), Tail_(_)
        Head_(cnt) == IF cnt # Len(s) /\ s[cnt + 1] \in charlist THEN Head_(cnt + 1) ELSE cnt
        Tail_(pos) == IF pos > Head_(0) + 1 /\ s[pos] \in charlist THEN Tail_(pos - 1) ELSE pos
    IN  SubSeq(s, Head_(0) + 1, Tail_(Len(s)))

\* operator>> of a number too large stores the largest one
strtodigit(s) ==
    LET RECURSIVE Value(_, _)
        Value(i, v) == IF i > Len(s) THEN v ELSE Value(i + 1, 10 * v + (s[i] - 48))
    IN  IF Value(1, 0) > TopInt THEN TopInt ELSE Value(1, 0)

\* out keeps its value, 0 here, when the text is refused
str2int(s) ==
    IF is_all_digit(s) THEN [ret |-> 0, out |-> strtodigit(s)] ELSE [ret |-> -1, out |-> 0]

-----------------------------------------------------------------------------
\* mutant: the lead byte of four is recognised by its first four bits
utf8_length_Wide(b) ==
    IF b < 128 THEN 1 ELSE IF b \div 32 = 6 THEN 2 ELSE IF b \div 16 = 14 THEN 3
    ELSE IF b \div 16 = 15 THEN 4 ELSE 0

\* what the masks 80, E0, F0 and F8 make of a lead byte; 0: return false
utf8_length(b) ==
    IF b < 128 THEN 1 ELSE IF b \div 32 = 6 THEN 2 ELSE IF b \div 16 = 14 THEN 3
    ELSE IF b \div 8 = 30 THEN 4 ELSE 0

is_utf8(s) ==
    LET RECURSIVE Loop(_)
        Loop(i) == i > Len(s) \/ LET n == utf8_length(s[i]) IN
            /\ n # 0 /\ i + n - 1 <= Len(s)
            /\ \A pos \in (i + 1) .. (i + n - 1) : s[pos] \div 64 = 2
            /\ Loop(i + n)
    IN  Loop(1)

-----------------------------------------------------------------------------
(* What the functions are for, without their loops.                        *)

\* elems with a delimiter between any two
Joined(elems, delim) ==
    LET RECURSIVE Join(_)
        Join(k) == IF k = 1 THEN elems[1] ELSE Join(k - 1) \o <<delim>> \o elems[k]
    IN  IF elems = << >> THEN << >> ELSE Join(Len(elems))

\* the bit patterns of the table in string_utils.cpp:84-90
Patterned(s) ==
    \/ Len(s) = 1 /\ s[1] \in 0 .. 127
    \/ /\ \/ Len(s) = 2 /\ s[1] \in 192 .. 223
          \/ Len(s) = 3 /\ s[1] \in 224 .. 239
          \/ Len(s) = 4 /\ s[1] \in 240 .. 247
       /\ \A i \in 2 .. Len(s) : s[i] \in 128 .. 191

\* the x's of a pattern put together
CodePoint(s) ==
    LET x(i) == s[i] % 64
    IN  CASE Len(s) = 1 -> s[1]
          [] Len(s) = 2 -> 64 * (s[1] % 32) + x(2)
          [] Len(s) = 3 -> 4096 * (s[1] % 16) + 64 * x(2) + x(3)
          [] Len(s) = 4 -> 262144 * (s[1] % 8) + 4096 * x(2) + 64 * x(3) + x(4)

\* where the rows of the table begin
LeastOf == <<0, 128, 2048, 65536>>

\* the encoding of one character: a row's pattern and a number of its range
IsCharacter(s) == Patterned(s) /\ CodePoint(s) >= LeastOf[Len(s)]

\* a pattern that holds a number of an earlier row, as C0 80 does
Overlong(s) == Patterned(s) /\ CodePoint(s) < LeastOf[Len(s)]

\* s can be cut into pieces of a kind: cuts are the places where one ends
IsCutInto(s, Piece(_)) ==
    \E cuts \in SUBSET (1 .. Len(s)) :
        /\ s # << >> => Len(s) \in cuts
        /\ \A c \in cuts :
              \E b \in (cuts \cup {0}) :
                 /\ b < c /\ \A d \in cuts : d <= b \/ d >= c
                 /\ Piece(SubSeq(s, b + 1, c))

=============================================================================
