---------------------------- MODULE OrderNumber ----------------------------
(***************************************************************************)
(* What becomes of the text of an order number: strconv.ParseUint and the  *)
(* Luhn check of utils/common.go in RegisterOrder and PostWithdraw, the    *)
(* column bigint that keeps the number, and strconv.FormatUint where it is *)
(* listed or put into the URL of the accrual system.                       *)
(*                                                                         *)
(* A text is a sequence of digits; NoDigit is any other character.  The    *)
(* limits of the two integer types are parameters.  One request is         *)
(* followed, whatever its text.                                            *)
(***************************************************************************)
EXTENDS Integers, Sequences

CONSTANTS
    MaxUint,   \* the largest uint64
    MaxBigint, \* the largest bigint
    MaxLen     \* bound: the characters of a text

ASSUME NumberAssumption == /\ MaxUint \in Nat /\ MaxBigint \in 0..MaxUint
                           /\ MaxLen \in Nat

Digits  == 0..9
NoDigit == 10

\* The number that a sequence of digits writes.
Value(text) ==
    LET n[i \in 0..Len(text)] == IF i = 0 THEN 0 ELSE 10 * n[i - 1] + text[i]
    IN  n[Len(text)]

\* ParseUint in base 10 returns no error.
Parses(text) == /\ text # <<>>
                /\ \A i \in DOMAIN text : text[i] \in Digits
                /\ Value(text) <= MaxUint

FormatUint(number) ==
    LET text[n \in 0..number] == IF n < 10 THEN <<n>>
                                 ELSE Append(text[n \div 10], n % 10)
    IN  text[number]

\* Mutant: a double of two digits loses its first digit.
DoubledModulo(d) == (2 * d) % 10

Doubled(d) == IF 2 * d > 9 THEN ((2 * d) % 10) + ((2 * d) \div 10) ELSE 2 * d

\* Mutant: the other digits are doubled.
checksumLuhnOdd(number) ==
    LET luhn[n \in 0..number] ==
          [i \in 0..1 |->
             IF n = 0 THEN 0
             ELSE (IF i = 0 THEN n % 10 ELSE Doubled(n % 10)) + luhn[n \div 10][1 - i]]
    IN  luhn[number][0] % 10

\* The loop over the digits, the last one first; i is i % 2 of the code.
checksumLuhn(number) ==
    LET luhn[n \in 0..number] ==
          [i \in 0..1 |->
             IF n = 0 THEN 0
             ELSE (IF i = 0 THEN Doubled(n % 10) ELSE n % 10) + luhn[n \div 10][1 - i]]
    IN  luhn[number][0] % 10

ValidLuhn(number) == ((number % 10) + checksumLuhn(number \div 10)) % 10 = 0

-----------------------------------------------------------------------------
VARIABLES
    text,    \* what the client sent
    number,  \* orderID, and the column order_id
    stage    \* what is next, or the code of the answer

vars == <<text, number, stage>>

Texts == UNION {[1..n -> Digits \union {NoDigit}] : n \in 0..MaxLen}

Init == /\ text \in Texts
        /\ number = 0
        /\ stage  = "parse"

Parse == /\ stage = "parse"
         /\ IF Parses(text)
            THEN number' = Value(text) /\ stage' = "check"
            ELSE number' = number      /\ stage' = "422"
         /\ UNCHANGED text

Check == /\ stage = "check"
         /\ stage' = IF ValidLuhn(number) THEN "insert" ELSE "422"
         /\ UNCHANGED <<text, number>>

\* Mutant: the number is converted to int64 before it is stored.
InsertConverted ==
    /\ stage = "insert"
    /\ stage'  = "202"
    /\ number' = IF number <= MaxBigint THEN number ELSE number - (MaxUint + 1)
    /\ UNCHANGED text

\* A number that does not fit into the column cannot be encoded as bigint:
\* the INSERT fails.
Insert == /\ stage = "insert"
          /\ stage' = IF number <= MaxBigint THEN "202" ELSE "500"
          /\ UNCHANGED <<text, number>>

\* The answer was given.
Done == stage \in {"202", "422", "500"} /\ UNCHANGED vars

Next == Parse \/ Check \/ Insert \/ Done

Spec == Init /\ [][Next]_vars

-----------------------------------------------------------------------------
(***************************************************************************)
(* Properties.                                                             *)
(***************************************************************************)

\* The rule of Luhn as it is published: from the last digit on every second
\* digit is doubled, the digits of the doubles are added to the others, and
\* the sum ends in 0.
LuhnRule(x) ==
    LET Weight(i) == IF (Len(x) - i) % 2 = 1
                     THEN ((2 * x[i]) % 10) + ((2 * x[i]) \div 10)
                     ELSE x[i]
        sum[i \in 0..Len(x)] == IF i = 0 THEN 0 ELSE sum[i - 1] + Weight(i)
    IN  sum[Len(x)] % 10 = 0

\* checksumLuhn runs over the parsed number, without the zeros the text may
\* begin with, yet what passes obeys the rule on the digits of the text, and
\* what is refused either breaks it or does not fit into a uint64 (although
\* SPECIFICATION.md has numbers of any length).
CheckIsLuhn ==
    /\ stage \in {"insert", "202", "500"} => LuhnRule(text)
    /\ stage = "422" => ~(Parses(text) /\ LuhnRule(text))

\* What the check is for: of a number that was accepted, no other with one
\* digit mistyped or two neighbours swapped (0 and 9 excepted) would be.
Retyped == {[text EXCEPT ![i] = d] : i \in DOMAIN text, d \in Digits}
Swapped == {[text EXCEPT ![i] = text[i + 1], ![i + 1] = text[i]] :
                i \in {j \in 1..Len(text) - 1 : {text[j], text[j + 1]} # {0, 9}}}
TypoRefused ==
    stage = "202" =>
        \A typo \in (Retyped \union Swapped) \ {text} :
            ~(Parses(typo) /\ ValidLuhn(Value(typo)))

\* The number that is stored, listed and asked about is the one that was
\* loaded, up to the limits of the two types; only zeros in front are lost.
KeptAsLoaded ==
    stage = "202" =>
        /\ number \in Nat
        /\ Value(FormatUint(number)) = Value(text)
        /\ text[1] # 0 => FormatUint(number) = text
=============================================================================
