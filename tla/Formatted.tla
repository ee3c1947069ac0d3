----------------------------- MODULE Formatted -----------------------------
(***************************************************************************)
(* Formatted input (lib/libxc/doscan.c, scanf.c) from a string: what each  *)
(* directive takes of it and stores, and when the scan ends.  The string   *)
(* is any text, or one that has been printed into it (sprintf) and is      *)
(* scanned with the directives that fit (sscanf).  Sizes other than that   *)
(* of a long are left out.                                                 *)
(***************************************************************************)
EXTENDS Printf

CONSTANTS
  Inputs,        \* texts
  ScanFormats    \* formats to scan them with

\* A directive %*lenkind; without a length there is no limit.
ScanDirective(store, len, kind) == [store |-> store, len |-> len, kind |-> kind]
NOLIMIT == 30000

VARIABLES
  scan,     \* the directives still to be done; kinds "white" and "literal" are not
            \* conversions, and a literal's len is the character
  text,     \* the string
  pos,      \* how many characters of it have been read
  stored,   \* for each pointer used: whether it was stored through, and what
  result    \* nmatch, and whether, with what and at which kind of directive the scan ended

scanfVars == <<scan, text, pos, stored, result>>

EOF == "eof"
CharAt(i) == IF i <= Len(text) THEN text[i] ELSE EOF
White == {" ", "\t", "\n"}

\* The first position from i on where P does not hold any more; EOF satisfies nothing.
Past(i, P(_)) == Min({j \in i .. Len(text) + 1 : j = Len(text) + 1 \/ ~P(text[j])})

DigitChars == <<"0","1","2","3","4","5","6","7","8","9","a","b","c","d","e","f">>
DigitsUpTo(base) == {DigitChars[k] : k \in 1 .. IF base = 16 THEN 16 ELSE 10}
ValueOf(c) == CHOOSE k \in 0 .. 15 : DigitChars[k + 1] = c
BaseOf(kind) == CASE kind = "o" -> 8 [] kind = "x" -> 16 [] OTHER -> 10

\* _innum(): blanks, a sign, and as many digits as the length allows, the sign counted.
\* A sign alone is a number if it is a minus.
Innum(d) ==
  LET from  == Past(pos + 1, LAMBDA c : c \in White)
      sign  == CharAt(from) \in {"-", "+"}
      begin == IF sign THEN from + 1 ELSE from
      limit == IF sign THEN d.len - 1 ELSE d.len
      last  == Min({Past(begin, LAMBDA c : c \in DigitsUpTo(BaseOf(d.kind))), begin + limit})
      value == FoldLeft(LAMBDA v, c : (v * BaseOf(d.kind) + ValueOf(c)) % WORD, 0,
                        SubSeq(text, begin, last - 1))
  IN  [next |-> last,
       found |-> last > begin \/ CharAt(from) = "-",
       value |-> Arg(IF CharAt(from) = "-" THEN (-value) % WORD ELSE value, <<>>),
       ended |-> last > Len(text)]

\* _instr(): %s passes over blanks and takes what is not blank, %c takes as many as it
\* is told, one without a length.  Mutant: blanks before %s are not passed over.
FromHere(d) == pos + 1
Skipped(d)  == IF d.kind = "s" THEN Past(pos + 1, LAMBDA c : c \in White) ELSE pos + 1
Instr(d) ==
  LET from  == Skipped(d)
      limit == IF d.kind = "c" /\ d.len = NOLIMIT THEN 1 ELSE d.len
      stop  == IF d.kind = "s" THEN Past(from, LAMBDA c : c \notin White) ELSE Len(text) + 1
      last  == Min({stop, from + limit})
  IN  [next |-> last, found |-> last > from, value |-> Arg(0, SubSeq(text, from, last - 1)),
       ended |-> last > Len(text) /\ last < from + limit]

ScanEnd(n, kind) == result' = [over |-> TRUE, n |-> n, by |-> kind]

\* Mutant: what is not stored counts as well.
AnyMatch(d, r) == r.found
Match(d, r)    == r.found /\ d.store

\* A conversion.  The next one is tried even after one that has found nothing.
Convert ==
  LET d == Head(scan)
      r == IF d.kind \in {"c", "s"} THEN Instr(d) ELSE Innum(d)
      n == IF Match(d, r) THEN result.n + 1 ELSE result.n
  IN
  /\ d.kind \notin {"white", "literal"}
  /\ pos' = r.next - 1
  /\ stored' = IF d.store THEN Append(stored, [done |-> r.found, value |-> r.value]) ELSE stored
  /\ IF r.ended THEN ScanEnd(IF n = 0 THEN -1 ELSE n, d.kind) ELSE result' = [result EXCEPT !.n = n]

ScanWhite ==
  /\ Head(scan).kind = "white"
  /\ pos' = Past(pos + 1, LAMBDA c : c \in White) - 1
  /\ UNCHANGED <<stored, result>>

ScanLiteral ==
  LET c == CharAt(pos + 1) IN
  /\ Head(scan).kind = "literal" /\ UNCHANGED stored
  /\ IF c = Head(scan).len THEN pos' = pos + 1 /\ UNCHANGED result
     ELSE pos' = pos /\ ScanEnd(IF c = EOF THEN -1 ELSE result.n, "literal")

\* The end of the format.
ScanDone ==
  /\ ~result.over /\ scan = <<>>
  /\ ScanEnd(result.n, "none") /\ UNCHANGED <<scan, text, pos, stored>>

Doscan ==
  \/ /\ ~result.over /\ scan # <<>> /\ scan' = Tail(scan) /\ UNCHANGED text
     /\ Convert \/ ScanWhite \/ ScanLiteral
  \/ ScanDone
-----------------------------------------------------------------------------
(* Printing into the string and scanning it. *)

VARIABLE request    \* what is printed: the format and its arguments

formatVars == <<printfVars, scanfVars, request>>

\* The kinds of a format without their fields; numbers are preceded by blanks at most.
Counterpart(f) == [i \in DOMAIN f |-> ScanDirective(TRUE, NOLIMIT, f[i].kind)]

FormatInit ==
  /\ pos = 0 /\ stored = <<>> /\ result = [over |-> FALSE, n |-> 0, by |-> "none"]
  /\ \/ PrintfInit /\ text = <<>> /\ scan = <<>>
     \/ /\ fmt = <<>> /\ args = <<>> /\ string = <<>> /\ out = <<>>
        /\ text \in Inputs /\ scan \in ScanFormats
  /\ request = [fmt |-> fmt, args |-> args]

Sprintf == Doprnt /\ UNCHANGED <<scanfVars, request>>

Sscanf ==
  /\ fmt = <<>> /\ Len(out) = Len(request.fmt) /\ out # <<>>
  /\ text = <<>> /\ scan = <<>> /\ ~result.over
  /\ text' = FlattenSeq(out) /\ scan' = Counterpart(request.fmt)
  /\ UNCHANGED <<printfVars, pos, stored, result, request>>

FormatNext ==
  \/ Sprintf
  \/ Sscanf
  \/ /\ request.fmt = <<>> \/ scan # <<>> \/ text # <<>>
     /\ Doscan /\ UNCHANGED <<printfVars, request>>
-----------------------------------------------------------------------------
(* Properties. *)

\* The argument of the directive i.
ArgOf(i) ==
  request.args[Len(Wanted(SubSeq(request.fmt, 1, i)))]
MinOf(i) ==
  LET before == Len(Wanted(SubSeq(request.fmt, 1, i - 1))) IN
  Bounded(IF request.fmt[i].min = ARG THEN Signed(request.args[before + 1].num) ELSE request.fmt[i].min)

\* The number a text shows, whatever surrounds the digits.
NumberIn(t, base) ==
  FoldLeft(LAMBDA v, c : v * base + ValueOf(c), 0, SelectSeq(t, LAMBDA c : c \in Range(DigitChars)))
ShownIn(kind) == CASE kind = "o" -> 8 [] kind = "x" -> 16 [] kind = "b" -> 2 [] OTHER -> 10

\* A number is shown with its sign and value, in a field at least as wide as was
\* asked for and no wider than it must be, at the side it belongs to (doprnt.c:104-213).
\* Zeros that fill a field on the right change the value: the code does not prevent them.
Legible ==
  \A i \in DOMAIN out :
    LET d == request.fmt[i]
        n == ArgOf(i).num
        negative == d.kind = "d" /\ Signed(n) < 0
        t == out[i]
    IN  d.kind \in NumberKinds /\ ~(d.left /\ d.zero) =>
        /\ NumberIn(t, ShownIn(d.kind)) = IF negative THEN -Signed(n) ELSE n
        /\ "-" \in Range(t) <=> negative
        /\ Len(t) >= MinOf(i)
        /\ Len(t) > MinOf(i) => " " \notin Range(t) /\ (t[1] = "0" => t = <<"0">>)
        /\ t[Len(t)] = " " => d.left

\* What can be told apart again: %b is not a kind of doscan.c, %c takes the first
\* blank of its field, and the directives must not run into each other.
Readable ==
  \A i \in DOMAIN request.fmt :
    LET d == request.fmt[i] IN
    /\ d.kind \in {"d", "u", "o", "x", "c", "s"} /\ ~(d.left /\ d.zero)
    /\ d.kind = "c" => MinOf(i) <= 1
    /\ d.kind = "s" => d.max = 0 /\ ArgOf(i).str # <<>>
    /\ i > 1 => out[i][1] = " " /\ d.kind # "c"

\* What sprintf() has written, sscanf() reads (doprnt.c, doscan.c:109-198).
RoundTrip ==
  result.over /\ request.fmt # <<>> /\ Readable =>
    /\ result.n = Len(request.fmt)
    /\ \A i \in DOMAIN stored : stored[i] = [done |-> TRUE, value |-> ArgOf(i)]

\* A scan counts what it has stored, or says -1, which it does only at the end of the
\* text: at a conversion if nothing was stored so far, and at a literal whatever was
\* (doscan.c:81-85, 99-104: "%c-" stores the character of "x" and says -1).
Stores == Cardinality({i \in DOMAIN stored : stored[i].done})
Counted ==
  IF result.n # -1 THEN result.n = Stores
  ELSE result.over /\ pos = Len(text) /\ (Stores = 0 \/ result.by = "literal")

\* string[] holds any number but a binary one (doprnt.c:28): digits with their end.
Holds ==
  fmt # <<>> /\ Head(fmt).kind # "b" =>
    \A n \in Numbers : ~Overruns(Head(fmt), n)

\* What is written can be read, by people and by the scan, and only %b writes too much.
TextRight == Legible /\ RoundTrip /\ Counted /\ Holds
=============================================================================
