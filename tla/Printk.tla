------------------------------- MODULE Printk -------------------------------
(***************************************************************************)
(* kernel/printk.c: the format parser, the number and string engines, and  *)
(* console_putc on top of a driver that waits for room in the UART's       *)
(* holding register (put_char of drivers/serial).                          *)
(*                                                                         *)
(* A character is a one-character string.  An argument is the bits that    *)
(* the caller passed; va_arg reads as many of them as the type has.  The   *)
(* format is rendered from a directive, so that what the parser makes of   *)
(* it can be compared with what ISO C says of the directive.               *)
(***************************************************************************)
EXTENDS Integers, Sequences, SequencesExt

CONSTANTS
  Char,        \* the characters a caller prints
  Directives,  \* the directives a format may have
  IntMod,      \* 2^w for int,
  LongMod,     \* for long and size_t,
  LLBits,      \* the bits of long long
  PtrWidth     \* the hexadecimal digits of a pointer

\* b to the power n.
Pow(b, n) == LET pow[i \in Nat] == IF i = 0 THEN 1 ELSE b * pow[i - 1] IN pow[n]

LLMod == Pow(2, LLBits)

ASSUME PrintkAssumption ==
  /\ IntMod \in Nat /\ LongMod \in Nat /\ LLBits \in Nat
  /\ 0 < IntMod /\ 0 < LLBits
  /\ IntMod <= LongMod /\ LongMod <= LLMod
  /\ PtrWidth \in Nat

DigitChars == <<"0", "1", "2", "3", "4", "5", "6", "7", "8", "9">>
LowerChars == DigitChars \o <<"a", "b", "c", "d", "e", "f">>
UpperChars == DigitChars \o <<"A", "B", "C", "D", "E", "F">>
Digits     == Range(DigitChars)
FlagChars  == {"-", "+", " ", "#", "0"}
NUL        == "NUL"
Idle       == "idle"   \* no character: the UART has sent what it was given

\* The text of a caller: a string ends at NUL, which only %c can ask for, and a
\* carriage return is left to the console.
ASSUME CharAssumption ==
  /\ {"0", "1", "2", "3", "4", "5", "6", "7", "8", "9", "a", "b", "c", "d", "e", "f",
      "A", "B", "C", "D", "E", "F", "x", "X", "-", "+", " ", "#", "%", "\n", "t",
      "(", "n", "u", "l", ")"} \subseteq Char
  /\ NUL \notin Char
  /\ Idle \notin Char
  /\ "\r" \notin Char

DigitOf(c) == (CHOOSE i \in 1 .. 10 : DigitChars[i] = c) - 1
Rep(c, n)  == IF n > 0 THEN [i \in 1 .. n |-> c] ELSE << >>

(***************************************************************************)
(* A directive: its flags in the order written, the digits of its width,   *)
(* those of its precision and whether there is one, its size modifiers,    *)
(* its conversion, and the argument that goes with it.  A line of text,    *)
(* ended by a newline, goes before it.  Width and precision stand for      *)
(* numbers far below the greatest int: the parser does not guard its sums. *)
(*                                                                         *)
(* The conversion is NUL when the format ends inside the directive, as     *)
(* "%5" does: its terminator stands where the conversion would.  after is  *)
(* the text behind: that of the format or, when the format has ended, what *)
(* the memory behind it happens to hold up to the next NUL.  A format has  *)
(* one directive, so neither holds a '%' (behind the end of a format it    *)
(* would make the parser take arguments that nobody passed).               *)
(***************************************************************************)
ASSUME DirectiveAssumption ==
  \A d \in Directives :
    /\ d.flags \in Seq(FlagChars)
    /\ d.width \in Seq(Digits)
    /\ d.dot \in BOOLEAN
    /\ d.precision \in Seq(Digits)
    /\ d.size \in Seq({"l", "z"})
    /\ d.conv \in (Char \cup {NUL}) \ (FlagChars \cup Digits \cup {".", "l", "z"})
    /\ d.arg.bits \in Nat
    /\ d.arg.null \in BOOLEAN
    /\ d.arg.str \in Seq(Char)
    /\ d.arg.char \in Char \cup {NUL}
    /\ d.after \in Seq(Char \ {"%"})

\* The format up to the conversion, or to the NUL in its place.
Render(d) ==
  <<"t", "\n", "%">> \o d.flags \o d.width
    \o (IF d.dot THEN <<".">> \o d.precision ELSE << >>) \o d.size \o <<d.conv>>

\* What the parser may read, with a NUL behind it.
Memory(d) == Render(d) \o d.after

\* Where the format ends.
Terminator(d) == IF d.conv = NUL THEN Len(Render(d)) ELSE Len(Memory(d)) + 1

VARIABLES
  dir,      \* the directive of the format
  console,  \* the driver of system_console, or "none" before console_init
  p,        \* the parser's place in the format
  st,       \* the parser's state
  spec,     \* what it has read of the directive
  text,     \* characters to go through print_char
  todo,     \* characters handed to put_char and not stored in the UART yet
  thr,      \* the UART's holding register, or Idle
  wire      \* the characters sent

vars == <<dir, console, p, st, spec, text, todo, thr, wire>>

NoSpec == [flags |-> {}, width |-> 0, precision |-> -1, is_long |-> 0, is_size_t |-> FALSE]

Init ==
  /\ dir \in Directives
  /\ console \in {"none", "ns16550", "pl011"}
  /\ p = 1
  /\ st = "text"
  /\ spec = NoSpec
  /\ text = << >>
  /\ todo = << >>
  /\ thr = Idle
  /\ wire = << >>

-----------------------------------------------------------------------------
(* console_putc and the drivers *)

\* put_char: pl011_put_char translates newlines, ns16550_put_char does not.
put_char(c) == IF c = "\n" /\ console = "pl011" THEN <<"\r", "\n">> ELSE <<c>>

\* Seeded fault: the driver is left to add the carriage return.
PutBare(c) == put_char(c)

console_putc(c) == (IF c = "\n" THEN put_char("\r") ELSE << >>) \o put_char(c)

\* print_char for every character of s, one after the other: nothing before
\* console_init.
Emit(s) == text' = IF console # "none" THEN s ELSE << >>

PutChar ==
  /\ todo = << >>
  /\ text # << >>
  /\ todo' = console_putc(Head(text))
  /\ text' = Tail(text)
  /\ UNCHANGED <<dir, console, p, st, spec, thr, wire>>

\* The wait for THRE (or for TXFF to clear) ends, the character is stored.
Send ==
  /\ todo # << >>
  /\ thr = Idle
  /\ thr' = Head(todo)
  /\ todo' = Tail(todo)
  /\ UNCHANGED <<dir, console, p, st, spec, text, wire>>

\* The UART shifts the character out.
Drain ==
  /\ thr # Idle
  /\ wire' = Append(wire, thr)
  /\ thr' = Idle
  /\ UNCHANGED <<dir, console, p, st, spec, text, todo>>

-----------------------------------------------------------------------------
(* The engines *)

(***************************************************************************)
(* lib/mylib/math/helper.c: the 64-bit division of RV32, where the         *)
(* processor has none; the others divide with an instruction, and the same *)
(* result.  The loop takes quotient and remainder from bit to bit of a, i  *)
(* from the top down.                                                      *)
(***************************************************************************)
Iteration(a, b, i) ==
  [s \in [q : Nat, r : Nat] |->
     LET r == ((2 * s.r) % LLMod) + ((a \div Pow(2, i)) % 2)
     IN  IF r >= b THEN [q |-> s.q + Pow(2, i), r |-> r - b] ELSE [q |-> s.q, r |-> r]]

udivdi3(a, b) ==
  LET loop[n \in 0 .. LLBits] ==
        IF n = 0 THEN [q |-> 0, r |-> 0] ELSE Iteration(a, b, LLBits - n)[loop[n - 1]]
  IN  IF b = 0 THEN LLMod - 1 ELSE loop[LLBits].q

umoddi3(a, b) == IF b = 0 THEN LLMod - 1 ELSE (a - udivdi3(a, b) * b) % LLMod

\* num /= base, and what i rounds of it leave of num.
Quotient(base) == [n \in Nat |-> udivdi3(n, base)]

Divided(num, base) ==
  LET rest[i \in Nat] == IF i = 0 THEN num ELSE Quotient(base)[rest[i - 1]] IN rest

\* Step 2 of print_number: the digits, last one first, until num is 0.
NumBuf(num, base, chars) ==
  LET rest  == Divided(num, base)
      digit == [n \in Nat |-> chars[umoddi3(n, base) + 1]]
      len   == CHOOSE i \in 0 .. LLBits : rest[i] = 0 /\ \A j \in 0 .. i - 1 : rest[j] # 0
  IN  [i \in 1 .. len |-> digit[rest[i - 1]]]

Negative(num) == num >= LLMod \div 2

Sign(num, flags) ==
  IF Negative(num) THEN <<"-">>
  ELSE IF "+" \in flags THEN <<"+">>
  ELSE IF " " \in flags THEN <<" ">>
  ELSE << >>

\* Step 3, with what step 2 has left of num.
HashPrefix(num, base, flags, upper) ==
  IF "#" \in flags /\ num # 0 /\ base = 16 THEN <<"0", IF upper THEN "X" ELSE "x">> ELSE << >>

\* Seeded fault: the zeros that make up the precision are not counted.
PadAll(width, i, zeros, plen) == width - (i + plen)

Pad(width, i, zeros, plen) == width - (i + zeros + plen)

print_number(num, base, width, precision, flags, signed, upper) ==
  LET mag     == IF signed /\ Negative(num) THEN (LLMod - num) % LLMod ELSE num
      buf     == IF mag = 0 THEN <<"0">>
                 ELSE NumBuf(mag, base, IF upper THEN UpperChars ELSE LowerChars)
      rest    == 0   \* step 2 divides num until nothing is left
      prefix  == (IF signed THEN Sign(num, flags) ELSE << >>)
                   \o HashPrefix(rest, base, flags, upper)
      zeros0  == IF precision > Len(buf) THEN precision - Len(buf) ELSE 0
      pad0    == Pad(width, Len(buf), zeros0, Len(prefix))
      zeroPad == "0" \in flags /\ precision < 0 /\ "-" \notin flags /\ pad0 > 0
      zeros   == IF zeroPad THEN zeros0 + pad0 ELSE zeros0
      pad     == IF zeroPad THEN 0 ELSE pad0
      left    == "-" \in flags
  IN  (IF left THEN << >> ELSE Rep(" ", pad)) \o prefix \o Rep("0", zeros) \o Reverse(buf)
        \o (IF left THEN Rep(" ", pad) ELSE << >>)

\* A string that is NULL is printed as "(null)".
TextOf(arg) == IF arg.null THEN <<"(", "n", "u", "l", "l", ")">> ELSE arg.str

print_string_fmt(s, width, precision, flags) ==
  LET len == IF precision = -1 \/ Len(s) < precision THEN Len(s) ELSE precision
      gap == Rep(" ", width - len)
  IN  (IF "-" \in flags THEN << >> ELSE gap) \o SubSeq(s, 1, len)
        \o (IF "-" \in flags THEN gap ELSE << >>)

-----------------------------------------------------------------------------
(* printk *)

At == IF p <= Len(Memory(dir)) THEN Memory(dir)[p] ELSE NUL

\* print_char returns when its characters are in the UART.
Parsing(s) == st = s /\ text = << >> /\ todo = << >>

Step(s) == st' = s /\ p' = p + 1 /\ UNCHANGED <<dir, console, todo, thr, wire>>
Stay(s) == st' = s /\ UNCHANGED <<dir, console, p, todo, thr, wire>>

Text ==
  /\ Parsing("text")
  /\ At \notin {"%", NUL}
  /\ Emit(<<At>>)
  /\ Step("text")
  /\ UNCHANGED spec

Percent ==
  /\ Parsing("text")
  /\ At = "%"
  /\ spec' = NoSpec
  /\ Step("flags")
  /\ UNCHANGED text

\* Seeded fault: the loop over the flags does not advance.
FlagStuck ==
  /\ Parsing("flags")
  /\ At \in FlagChars
  /\ spec' = [spec EXCEPT !.flags = @ \cup {At}]
  /\ Stay("flags")
  /\ UNCHANGED text

Flag ==
  /\ Parsing("flags")
  /\ At \in FlagChars
  /\ spec' = [spec EXCEPT !.flags = @ \cup {At}]
  /\ Step("flags")
  /\ UNCHANGED text

FlagsEnd ==
  /\ Parsing("flags")
  /\ At \notin FlagChars
  /\ Stay("width")
  /\ UNCHANGED <<spec, text>>

Width ==
  /\ Parsing("width")
  /\ At \in Digits
  /\ spec' = [spec EXCEPT !.width = 10 * @ + DigitOf(At)]
  /\ Step("width")
  /\ UNCHANGED text

\* Seeded fault: the precision is not set to 0 before its digits are read.
DotKeepsUnset ==
  /\ Parsing("width")
  /\ At = "."
  /\ Step("precision")
  /\ UNCHANGED <<spec, text>>

Dot ==
  /\ Parsing("width")
  /\ At = "."
  /\ spec' = [spec EXCEPT !.precision = 0]
  /\ Step("precision")
  /\ UNCHANGED text

NoDot ==
  /\ Parsing("width")
  /\ At \notin Digits \cup {"."}
  /\ Stay("size")
  /\ UNCHANGED <<spec, text>>

Precision ==
  /\ Parsing("precision")
  /\ At \in Digits
  /\ spec' = [spec EXCEPT !.precision = 10 * @ + DigitOf(At)]
  /\ Step("precision")
  /\ UNCHANGED text

PrecisionEnd ==
  /\ Parsing("precision")
  /\ At \notin Digits
  /\ Stay("size")
  /\ UNCHANGED <<spec, text>>

Size ==
  /\ Parsing("size")
  /\ At \in {"l", "z"}
  /\ spec' = IF At = "l" THEN [spec EXCEPT !.is_long = @ + 1] ELSE [spec EXCEPT !.is_size_t = TRUE]
  /\ Step("size")
  /\ UNCHANGED text

SizeEnd ==
  /\ Parsing("size")
  /\ At \notin {"l", "z"}
  /\ Stay("spec")
  /\ UNCHANGED <<spec, text>>

\* The type va_arg reads, and the value as an unsigned long long.
ArgMod(s) ==
  IF s.is_size_t THEN LongMod
  ELSE IF s.is_long >= 2 THEN LLMod
  ELSE IF s.is_long = 1 THEN LongMod
  ELSE IntMod

Unsigned(bits, mod) == bits % mod

Signed(bits, mod) ==
  LET n == bits % mod IN IF n >= mod \div 2 THEN (n - mod) % LLMod ELSE n

\* An argument of %d: a size_t is not sign-extended, the others are.
SignedArg(s, bits) ==
  IF s.is_size_t THEN Unsigned(bits, LongMod) ELSE Signed(bits, ArgMod(s))

\* What the switch of State 5 prints.
Converted(c, s, arg) ==
  CASE c \in {"d", "i"} ->
         print_number(SignedArg(s, arg.bits), 10, s.width, s.precision, s.flags, TRUE, FALSE)
    [] c \in {"u", "x", "X"} ->
         print_number(Unsigned(arg.bits, ArgMod(s)), IF c = "u" THEN 10 ELSE 16,
                      s.width, s.precision, s.flags, FALSE, c = "X")
    [] c = "p" ->
         print_number(Unsigned(arg.bits, LongMod), 16, PtrWidth + 2, -1,
                      (s.flags \cap {"-"}) \cup {"#", "0"}, FALSE, FALSE)
    [] c = "s" -> print_string_fmt(TextOf(arg), s.width, s.precision, s.flags)
    [] c = "c" -> <<arg.char>>
    [] c = "%" -> <<"%">>
    [] OTHER   -> <<"%", c>>

Convert ==
  /\ Parsing("spec")
  /\ Emit(Converted(At, spec, dir.arg))
  /\ Step("text")
  /\ UNCHANGED spec

Finish ==
  /\ Parsing("text")
  /\ At = NUL
  /\ st' = "done"
  /\ UNCHANGED <<dir, console, p, spec, text, todo, thr, wire>>

Rest == st = "done" /\ thr = Idle /\ UNCHANGED vars

PrintkStep ==
  \/ Text \/ Percent \/ Flag \/ FlagsEnd \/ Width \/ Dot \/ NoDot
  \/ Precision \/ PrecisionEnd \/ Size \/ SizeEnd \/ Convert \/ Finish
  \/ PutChar \/ Send

Next == PrintkStep \/ Drain \/ Rest

\* The hart runs printk or the UART sends, as long as either can.
Spec == Init /\ [][Next]_vars /\ WF_vars(PrintkStep \/ Drain)

-----------------------------------------------------------------------------
(***************************************************************************)
(* What ISO C says a directive prints (C11, 7.21.6.1), stated from the     *)
(* directive and without the parser or the engines.                        *)
(***************************************************************************)
NumberOf(s) ==
  LET val[i \in 0 .. Len(s)] == IF i = 0 THEN 0 ELSE 10 * val[i - 1] + DigitOf(s[i])
  IN  val[Len(s)]

Has(d, f)   == f \in Range(d.flags)
IsSigned(d) == d.conv \in {"d", "i"}
Base(d)     == IF d.conv \in {"x", "X"} THEN 16 ELSE 10

TypeMod(d) ==
  CASE d.size = << >> -> IntMod
    [] d.size \in {<<"l">>, <<"z">>} -> LongMod
    [] OTHER -> LLMod

\* The value of the argument, an integer.
ValueOf(d) ==
  LET n == d.arg.bits % TypeMod(d)
  IN  IF IsSigned(d) /\ n >= TypeMod(d) \div 2 THEN n - TypeMod(d) ELSE n

\* The digits that v has in base b: none when it is zero.
DigitCount(v, b) ==
  CHOOSE k \in 0 .. LLBits : Pow(b, k) > v /\ \A j \in 0 .. k - 1 : Pow(b, j) <= v

\* The digits of the value without leading zeros, then as many zeros before
\* them as the precision (1 by default) asks for.
IsoDigits(d) ==
  LET v     == IF ValueOf(d) < 0 THEN -ValueOf(d) ELSE ValueOf(d)
      n     == DigitCount(v, Base(d))
      least == IF d.dot THEN NumberOf(d.precision) ELSE 1
      chars == IF d.conv = "X" THEN UpperChars ELSE LowerChars
  IN  Rep("0", least - n)
        \o [i \in 1 .. n |-> chars[((v \div Pow(Base(d), n - i)) % Base(d)) + 1]]

IsoPrefix(d) ==
  CASE IsSigned(d) /\ ValueOf(d) < 0 -> <<"-">>
    [] IsSigned(d) /\ ValueOf(d) >= 0 /\ Has(d, "+") -> <<"+">>
    [] IsSigned(d) /\ ValueOf(d) >= 0 /\ ~Has(d, "+") /\ Has(d, " ") -> <<" ">>
    [] d.conv \in {"x", "X"} /\ Has(d, "#") /\ ValueOf(d) # 0 -> <<"0", d.conv>>
    [] OTHER -> << >>

IsoNumber(d) ==
  LET body == IsoPrefix(d) \o IsoDigits(d)
      gap  == NumberOf(d.width) - Len(body)
  IN  IF Has(d, "-") THEN body \o Rep(" ", gap)
      ELSE IF Has(d, "0") /\ ~d.dot THEN IsoPrefix(d) \o Rep("0", gap) \o IsoDigits(d)
      ELSE Rep(" ", gap) \o body

IsoString(d) ==
  LET s   == TextOf(d.arg)
      cut == IF d.dot /\ NumberOf(d.precision) < Len(s) THEN SubSeq(s, 1, NumberOf(d.precision)) ELSE s
      gap == Rep(" ", NumberOf(d.width) - Len(cut))
  IN  IF Has(d, "-") THEN cut \o gap ELSE gap \o cut

IsoConversion(d) ==
  CASE d.conv \in {"d", "i", "u", "x", "X"} -> IsoNumber(d)
    [] d.conv = "s" -> IsoString(d)
    [] d.conv = "c" -> <<d.arg.char>>
    [] d.conv = "%" -> <<"%">>

\* The text of the whole format, line feeds as the caller wrote them.
IsoText(d) ==
  <<"t", "\n">> \o IsoConversion(d) \o d.after

(***************************************************************************)
(* Directives that ISO C defines (a width does not start with a zero) and  *)
(* printk formats alike.  The known exceptions are the '#' prefix, a zero  *)
(* with precision zero, the width of %c, and a negative size_t where long  *)
(* is shorter than long long.                                              *)
(***************************************************************************)
Agreed(d) ==
  /\ d.width # << >> => d.width[1] # "0"
  /\ d.size \in {<< >>, <<"l">>, <<"z">>, <<"l", "l">>}
  /\ CASE d.conv \in {"d", "i", "u", "x", "X"} ->
            /\ ~(Has(d, "#") /\ Base(d) = 16 /\ ValueOf(d) # 0)
            /\ ~(d.dot /\ NumberOf(d.precision) = 0 /\ ValueOf(d) = 0)
            /\ d.size = <<"z">> => ValueOf(d) >= 0 \/ LongMod = LLMod
       [] d.conv = "s" -> TRUE
       [] d.conv = "c" -> d.width = << >>
       [] d.conv = "%" -> TRUE
       [] OTHER -> FALSE

AllSent == st = "done" /\ thr = Idle

\* What a terminal shows of the characters s.
Shown(s) ==
  LET shown[i \in 0 .. Len(s)] ==
        IF i = 0 THEN << >>
        ELSE IF s[i] = "\r" THEN shown[i - 1]
        ELSE Append(shown[i - 1], s[i])
  IN  shown[Len(s)]

Received == Shown(wire)

\* What printk has read of a directive.
Spec_t ==
  [flags : SUBSET FlagChars, width : Nat, precision : Nat \cup {-1},
   is_long : Nat, is_size_t : BOOLEAN]

(***************************************************************************)
(* The parser does not pass the terminating NUL of the format, unless the  *)
(* format ends inside the directive: the default case of the switch takes  *)
(* that NUL for a conversion, and the loop goes on behind it up to the     *)
(* next NUL.  The fields keep their ranges: the precision is -1 or what    *)
(* its digits say.                                                         *)
(***************************************************************************)
ParserOK ==
  /\ console \in {"none", "ns16550", "pl011"}
  /\ p \in 1 .. Terminator(dir) + (IF dir.conv = NUL THEN 1 + Len(dir.after) ELSE 0)
  /\ st \in {"text", "flags", "width", "precision", "size", "spec", "done"}
  /\ spec \in Spec_t

\* A %c of 0, or a format that ends inside its directive.
PrintsNUL(d) == d.conv = NUL \/ (d.conv = "c" /\ d.arg.char = NUL)

\* The parser's state has its type, and a NUL is handed to put_char only when
\* %c is given one or the format ends inside its directive.
TypeOK ==
  /\ ParserOK
  /\ ~PrintsNUL(dir) =>
       /\ \A i \in DOMAIN todo : todo[i] # NUL
       /\ \A i \in DOMAIN wire : wire[i] # NUL
       /\ thr # NUL

\* print_number is "ISO C Compliant" and no character is lost between the
\* parser and the wire: when printk has returned and the UART is idle, what
\* was received is the ISO C text of the format, carriage returns aside, and
\* nothing at all when the console was not set up.
FormatsAsISO ==
  AllSent /\ Agreed(dir) => Received = IF console = "none" THEN << >> ELSE IsoText(dir)

\* console_putc: whatever the driver, a newline on the wire follows a carriage
\* return.
NewlinesReturn ==
  \A i \in DOMAIN wire : wire[i] = "\n" => i > 1 /\ wire[i - 1] = "\r"

(***************************************************************************)
(* What the proofs need.  Each loop of the parser stops where the          *)
(* directive's field ends (the loop over the flags may take the zeros the  *)
(* width starts with as well), so State 5 reads the conversion, and what   *)
(* lies behind it is read to its end; and a newline that has not been sent *)
(* yet follows a carriage return that is next to go, in the holding        *)
(* register, or the last one sent.                                         *)
(***************************************************************************)
FlagsTo(d)     == 3 + Len(d.flags)
WidthTo(d)     == FlagsTo(d) + Len(d.width)
PrecisionTo(d) == WidthTo(d) + (IF d.dot THEN 1 + Len(d.precision) ELSE 0)
SizeTo(d)      == PrecisionTo(d) + Len(d.size)
AfterTo(d)     == SizeTo(d) + 1 + Len(d.after)

\* Where the parser of d's format is in a state.
Places(d, s) ==
  CASE s = "text" -> {1, 2, 3} \cup (SizeTo(d) + 2 .. AfterTo(d) + 1)
    [] s = "flags" -> 4 .. WidthTo(d) + 1
    [] s = "width" -> FlagsTo(d) + 1 .. WidthTo(d) + 1
    [] s = "precision" -> WidthTo(d) + 2 .. PrecisionTo(d) + 1
    [] s = "size" -> PrecisionTo(d) + 1 .. SizeTo(d) + 1
    [] s = "spec" -> {SizeTo(d) + 1}
    [] s = "done" -> {AfterTo(d) + 1}

InFormat ==
  /\ dir \in Directives
  /\ p \in Places(dir, st)
  /\ st = "precision" => dir.dot /\ spec.precision \in Nat

LastIs(s, c) == s # << >> /\ s[Len(s)] = c

ReturnsPending ==
  /\ thr = "\n" => LastIs(wire, "\r")
  /\ \A i \in DOMAIN todo : todo[i] = "\n" =>
       IF i > 1 THEN todo[i - 1] = "\r"
       ELSE IF thr # Idle THEN thr = "\r" ELSE LastIs(wire, "\r")

\* printk returns and the UART goes idle, whatever the directive: each loop of
\* the parser and each wait for the UART ends.
PrintkReturns == <>AllSent

\* init/test_printk.c: "Automatically attaches '0x' and perfectly pads to 8
\* characters"; what is received of a hexadecimal directive, '#' or not, is
\* the ISO C text.
AltFormAttached ==
  AllSent /\ console # "none" /\ dir.conv \in {"x", "X"} => Received = IsoText(dir)
=============================================================================
