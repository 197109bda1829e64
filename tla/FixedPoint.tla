------------------------------ MODULE FixedPoint ------------------------------
(***************************************************************************)
(* The conversions between decimal text and ticks: parse_fixed_nonnegative *)
(* and format_price (src/order_book.cpp), format_quantity                  *)
(* (src/websocket_client.cpp).  All prices and quantities of a feed pass   *)
(* through them.  The code has six decimal places and 64 bits; here both   *)
(* are constants, so that the limits are near.                             *)
(*                                                                         *)
(* A text is a sequence of characters; a digit is its value.               *)
(***************************************************************************)
EXTENDS Integers, SequencesExt

CONSTANTS
  Places,      \* decimal places, 6 in the code
  MaxTicks,    \* numeric_limits<std::int64_t>::max()
  Characters,  \* characters that the texts are made of
  MaxLength    \* bound on the length of a text

Digit == 0 .. 9
Dot   == 10
Plus  == 11
Minus == 12
Other == 13   \* any other character

ASSUME FixedPointAssumption ==
  /\ Places \in Nat /\ MaxTicks \in Nat /\ MaxLength \in Nat
  /\ Characters \subseteq Digit \cup {Dot, Plus, Minus, Other}

VARIABLE text   \* what is to be read

power10(n) == 10 ^ n

ticks_per_unit == power10(Places)

-----------------------------------------------------------------------------
(* parse_fixed_nonnegative                                                 *)

\* An exception, as a number that no int64 is
Refused == - MaxTicks - 2

\* A result outside int64 wraps around, as the hardware does it.
int64(n) == ((n + MaxTicks + 1) % (2 * (MaxTicks + 1))) - (MaxTicks + 1)

\* The index after the digits that begin at position
after_digits(s, position) ==
  CHOOSE n \in position .. Len(s) + 1 :
    /\ \A i \in position .. n - 1 : s[i] \in Digit
    /\ n <= Len(s) => s[n] \notin Digit

\* One turn of the loop over the whole digits
add_digit(number, digit) ==
  IF number = Refused \/ number > (MaxTicks - digit) \div 10 THEN Refused
  ELSE int64(number * 10 + digit)

\* Mutant: the fraction does not take part in the last test.
scale_whole_alone(whole, fraction) ==
  IF whole > MaxTicks \div ticks_per_unit THEN Refused
  ELSE int64(whole * ticks_per_unit + fraction)

scale(whole, fraction) ==
  IF whole > (MaxTicks - fraction) \div ticks_per_unit THEN Refused
  ELSE int64(whole * ticks_per_unit + fraction)

\* while (fractional_digits < 6) fractional_part *= 10
pad(fraction, digits) == fraction * power10(Places - digits)

parse_fixed_nonnegative(s) ==
  IF s = <<>> THEN Refused
  ELSE IF s[1] = Minus THEN Refused
  ELSE
    LET start   == IF s[1] = Plus THEN 2 ELSE 1
        whole   == after_digits(s, start)
        has_dot == whole <= Len(s) /\ s[whole] = Dot
        end     == IF has_dot THEN after_digits(s, whole + 1) ELSE whole
        whole_part == FoldLeft(add_digit, 0, SubSeq(s, start, whole - 1))
        fraction   == IF has_dot THEN SubSeq(s, whole + 1, end - 1) ELSE <<>>
        fractional_part == FoldLeft(LAMBDA n, d : n * 10 + d, 0, fraction)
    IN  IF \/ whole_part = Refused
           \/ Len(fraction) > Places
           \/ whole = start /\ fraction = <<>>
           \/ end # Len(s) + 1
        THEN Refused
        ELSE scale(whole_part, pad(fractional_part, Len(fraction)))

-----------------------------------------------------------------------------
(* Formatting                                                              *)

\* What operator<< writes for an integer
digits_of(number) ==
  LET digits[n \in Nat] ==
        IF n < 10 THEN <<n>> ELSE Append(digits[n \div 10], n % 10)
  IN  digits[number]

\* std::setw(width) with std::setfill('0')
filled(width, number) ==
  LET written == digits_of(number)
  IN  IF Len(written) >= width THEN written
      ELSE [i \in 1 .. width - Len(written) |-> 0] \o written

format_price(ticks, decimal_places) ==
  LET scaled == ticks \div power10(Places - decimal_places)
      whole  == scaled \div power10(decimal_places)
  IN  IF decimal_places = 0 THEN digits_of(whole)
      ELSE digits_of(whole) \o <<Dot>> \o filled(decimal_places, scaled % power10(decimal_places))

\* Without the zeros at the end
strip_zeros(s) ==
  SubSeq(s, 1, CHOOSE n \in 0 .. Len(s) : /\ \A i \in n + 1 .. Len(s) : s[i] = 0
                                          /\ n > 0 => s[n] # 0)

format_quantity(quantity) ==
  LET whole      == quantity \div ticks_per_unit
      fractional == quantity % ticks_per_unit
  IN  IF fractional = 0 THEN digits_of(whole)
      ELSE strip_zeros(digits_of(whole) \o <<Dot>> \o filled(Places, fractional))

-----------------------------------------------------------------------------
(* Properties                                                              *)

Number(s) == FoldLeft(LAMBDA n, d : n * 10 + d, 0, s)

IsDigits(s) == \A i \in DOMAIN s : s[i] \in Digit

Unsigned(s) == IF s # <<>> /\ s[1] = Plus THEN Tail(s) ELSE s

\* The ways to read s as a decimal number: digits, and perhaps a point and
\* digits after it, with at least one digit in all and not too many after
\* the point.  Each with its exact value in ticks.
Readings(s) ==
  LET u == Unsigned(s)
  IN  (IF u # <<>> /\ IsDigits(u) THEN {Number(u) * ticks_per_unit} ELSE {})
        \cup
      {Number(SubSeq(u, 1, i - 1)) * ticks_per_unit
         + Number(SubSeq(u, i + 1, Len(u))) * power10(Places - (Len(u) - i)) :
       i \in {j \in DOMAIN u : /\ u[j] = Dot
                               /\ Len(u) > 1 /\ Len(u) - j <= Places
                               /\ IsDigits(SubSeq(u, 1, j - 1) \o SubSeq(u, j + 1, Len(u)))}}

\* Part of ConversionsAreExact: a text is accepted exactly when it is a decimal number whose value in
\* ticks fits, and its value is exact: none of the three tests for overflow
\* refuses a number that fits or lets one pass that does not.
ParseIsExact ==
  LET fitting == {v \in Readings(text) : v <= MaxTicks}
  IN  parse_fixed_nonnegative(text) = IF fitting = {} THEN Refused
                                      ELSE CHOOSE v \in fitting : TRUE

\* Part of ConversionsAreExact: every accepted value survives being printed: exactly with all decimal
\* places and as a quantity, and cut off, never rounded up, with fewer.
PrintedValueIsRead ==
  LET v == parse_fixed_nonnegative(text)
  IN  v # Refused =>
        /\ \A n \in 0 .. Places :
             parse_fixed_nonnegative(format_price(v, n)) = v - (v % power10(Places - n))
        /\ parse_fixed_nonnegative(format_quantity(v)) = v
\* No value is changed on its way from text to ticks and back, at the limits
\* of int64 and of the decimal places either.
ConversionsAreExact == ParseIsExact /\ PrintedValueIsRead
=============================================================================
