------------------------------- MODULE Printf -------------------------------
(***************************************************************************)
(* Formatted output (lib/libxc/doprnt.c): what a directive makes of its    *)
(* argument.  The library is built without INT_NOT_LONG, so every number   *)
(* takes the "long" routines; a word has WIDTH bits, DIGITS decimal ones.  *)
(* A character is a string of one, or the name of one that is not shown.   *)
(***************************************************************************)
EXTENDS Integers, SequencesExt

CONSTANTS
  WIDTH, DIGITS,   \* of a long: 32 and 10 in the code
  MAXSTR,          \* the widest field
  STRLEN,          \* size of string[]: 20 in the code
  Formats,         \* formats: sequences of directives
  Numbers, Texts   \* arguments: numbers, and strings as sequences of characters

WORD == 2 ^ WIDTH
TOP  == 10 ^ (DIGITS - 1)

\* A number has DIGITS digits at most, and has that many when the highest bit is set.
ASSUME PrintfAssumption ==
  /\ WIDTH \in Nat /\ DIGITS \in Nat \ {0} /\ WORD <= 10 * TOP /\ WORD >= 4 * TOP
  /\ STRLEN \in Nat \ {0} /\ Numbers \subseteq 0 .. WORD - 1

\* A directive %-0min.maxkind; ARG stands for *.
ARG == -1
Directive(left, zero, min, max, kind) ==
  [left |-> left, zero |-> zero, min |-> min, max |-> max, kind |-> kind]
NumberKinds == {"d", "u", "o", "x", "b"}

VARIABLES
  fmt,      \* the directives that are still to be done
  args,     \* the arguments that have not been used
  string,   \* what string[] holds
  out       \* the characters of each directive done

printfVars == <<fmt, args, string, out>>

\* How many arguments a format uses, in order: numbers for *, and what the kind wants.
Wanted(f) == FoldLeft(LAMBDA w, d : w \o (IF d.min = ARG THEN <<"d">> ELSE <<>>)
                                      \o (IF d.max = ARG THEN <<"d">> ELSE <<>>) \o <<d.kind>>, <<>>, f)

Arg(n, s) == [num |-> n, str |-> s]
ArgsFor(kind) == IF kind = "s" THEN {Arg(0, s) : s \in Texts}
                 ELSE IF kind = "c" THEN {Arg(0, <<c>>) : c \in {"a", " "}}
                 ELSE {Arg(n, <<>>) : n \in Numbers}

\* string[] is not initialised.
PrintfInit ==
  /\ fmt \in Formats
  /\ args \in {a \in [1 .. Len(Wanted(fmt)) -> UNION {ArgsFor(k) : k \in Range(Wanted(fmt))}] :
                 \A i \in DOMAIN a : a[i] \in ArgsFor(Wanted(fmt)[i])}
  /\ string \in {<<>>, <<"7">>} /\ out = <<>>

Signed(n) == IF n >= WORD \div 2 THEN n - WORD ELSE n

CharOf(n) == <<"0","1","2","3","4","5","6","7","8","9","a","b","c","d","e","f">>[n + 1]

\* _prtl8(), _prtl16() and _prtl2(): the lowest digit first, n of them, from a number
\* shifted with its sign.  What is left of the word for the highest digit is less than
\* a digit.  Leading zeros go, the last digit stays.
Columns(bits) == (WIDTH + bits - 1) \div bits
Digit(num, bits, i) ==
  LET n == (Signed(num) \div 2 ^ (bits * (i - 1))) % 2 ^ bits
  IN  IF i = Columns(bits) THEN n % 2 ^ (WIDTH - bits * (i - 1)) ELSE n
Shown(digit(_), n) ==
  LET first == Max({1} \cup {i \in 1 .. n : digit(i) # 0})
  IN  [k \in 1 .. first |-> digit(first + 1 - k)]

\* A number with the highest bit set cannot be divided: TOP is taken off until it can,
\* and added to the first digit afterwards.  Mutant: once is enough.
OnceLess(num) == IF Signed(num) < 0 THEN 1 ELSE 0
TimesLess(num) ==
  CHOOSE t \in 0 .. 9 : /\ Signed((num - t * TOP) % WORD) >= 0
                        /\ \A s \in 0 .. t - 1 : Signed((num - s * TOP) % WORD) < 0

\* _prtl10(), and the digit corrected.
Decimal(num) ==
  LET digit1 == TimesLess(num)
      less   == Signed((num - digit1 * TOP) % WORD)
      digits == Shown(LAMBDA i : (less \div 10 ^ (i - 1)) % 10, DIGITS)
  IN  [digits EXCEPT ![1] = @ + digit1]

\* Mutant: a negative number is converted as it is.
AsItIs(d, num)    == num
Magnitude(d, num) == IF d.kind = "d" /\ Signed(num) < 0 THEN (-num) % WORD ELSE num

DigitsOf(d, num) ==
  CASE d.kind \in {"d", "u"} -> Decimal(Magnitude(d, num))
    [] d.kind = "o" -> Shown(LAMBDA i : Digit(num, 3, i), Columns(3))
    [] d.kind = "x" -> Shown(LAMBDA i : Digit(num, 4, i), Columns(4))
    [] d.kind = "b" -> Shown(LAMBDA i : Digit(num, 1, i), Columns(1))

\* The digits and the character behind them do not lie in string[].
Overruns(d, num) == d.kind \in NumberKinds /\ Len(DigitsOf(d, num)) >= STRLEN

Chars(digits) == [k \in DOMAIN digits |-> CharOf(digits[k])]
Fill(c, n) == [k \in 1 .. n |-> c]
Bounded(n) == IF n > MAXSTR \/ n < 0 THEN 0 ELSE n

\* Mutant: the sign takes no room in the field.
NoRoom(sign) == 0
Room(sign)   == Len(sign)

\* From the width down: the sign before zeros and behind blanks.
Field(d, min, max, sign, str) ==
  LET fill    == IF d.zero /\ d.kind \notin {"c", "s"} THEN "0" ELSE " "
      limit   == IF d.kind \in NumberKinds \cup {"c"} THEN 0 ELSE Bounded(max)
      length  == IF limit # 0 /\ Len(str) > limit THEN limit ELSE Len(str)
      leading == IF Bounded(min) # 0 THEN Bounded(min) - length - Room(sign) ELSE 0
      pad     == Fill(fill, leading)
  IN  (IF fill = "0" THEN sign ELSE <<>>) \o (IF d.left THEN <<>> ELSE pad)
      \o (IF fill = " " THEN sign ELSE <<>>) \o SubSeq(str, 1, length)
      \o (IF d.left THEN pad ELSE <<>>)

\* One directive, with the arguments for its * first.  A kind that is not known is
\* shown itself, and then what happens to be in string[].  A number that overruns
\* string[] changes other variables of the stack: there the model ends.
Doprnt ==
  LET d   == Head(fmt)
      min == IF d.min = ARG THEN Signed(args[1].num) ELSE d.min
      a   == IF d.min = ARG THEN Tail(args) ELSE args
      max == IF d.max = ARG THEN Signed(a[1].num) ELSE d.max
      b   == IF d.max = ARG THEN Tail(a) ELSE a
      num == b[1].num
      sign == IF d.kind = "d" /\ Signed(num) < 0 THEN <<"-">> ELSE <<>>
  IN
  /\ fmt # <<>> /\ ~Overruns(d, num) /\ fmt' = Tail(fmt) /\ args' = Tail(b)
  /\ string' = CASE d.kind \in NumberKinds -> Chars(DigitsOf(d, num))
                 [] d.kind = "c" -> b[1].str
                 [] OTHER -> string
  /\ out' = Append(out, (IF d.kind \in NumberKinds \cup {"c", "s"} THEN <<>> ELSE <<d.kind>>)
                        \o Field(d, min, max, sign, IF d.kind = "s" THEN b[1].str ELSE string'))
=============================================================================
