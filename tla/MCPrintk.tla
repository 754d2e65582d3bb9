------------------------------ MODULE MCPrintk ------------------------------
(***************************************************************************)
(* Printk with an int of 6 bits, a long of 10, and the directives that the *)
(* parser and the engines tell apart.                                      *)
(***************************************************************************)
EXTENDS Printk

\* The digits, the letters and signs printk prints by itself, and another letter.
MCChar ==
  Range(LowerChars) \cup Range(UpperChars) \cup FlagChars
    \cup {"x", "X", "%", "\n", "t", "(", "n", "u", "l", ")", "i", "p", "s", "k"}

Arg(bits, str, null, char) == [bits |-> bits, str |-> str, null |-> null, char |-> char]

Number(bits) == Arg(bits, << >>, FALSE, "c")

Directive(flags, width, dot, precision, size, conv, arg) ==
  [flags |-> flags, width |-> width, dot |-> dot, precision |-> precision,
   size |-> size, conv |-> conv, arg |-> arg, after |-> << >>]

MCFlags ==
  { << >>, <<"-">>, <<"+">>, <<" ">>, <<"#">>, <<"0">>, <<"0", "-">>, <<"+", " ">>,
    <<"0", "+">>, <<"0", "0">> }

MCWidths == { << >>, <<"1", "0">> }

\* No precision, an empty one, and one of more than one digit.
MCPrecisions == { <<FALSE, << >> >>, <<TRUE, << >> >>, <<TRUE, <<"3">> >>, <<TRUE, <<"1", "2">> >> }

\* Zero, a positive value, the least and the greatest of the signed types, all
\* ones, and a value that an int truncates.
MCBits == {0, 5, 32, 79, 512, 1023}

NumberDirectives ==
  { Directive(f, w, q[1], q[2], s, c, Number(b)) :
      f \in MCFlags, w \in MCWidths, q \in MCPrecisions,
      s \in { << >>, <<"l", "l">> }, c \in {"d", "X"}, b \in MCBits }

OtherNumbers ==
  { Directive(f, <<"5">>, FALSE, << >>, s, c, Number(b)) :
      f \in { << >>, <<"-">>, <<"0">> }, s \in { << >>, <<"l">>, <<"z">> },
      c \in {"i", "u", "x", "p"}, b \in MCBits }

Strings == { Arg(0, << >>, FALSE, "c"), Arg(0, <<"a", "b", "\n", "d">>, FALSE, "c"), Arg(0, << >>, TRUE, "c") }

StringDirectives ==
  { Directive(f, w, q[1], q[2], << >>, "s", a) :
      f \in { << >>, <<"-">> }, w \in MCWidths, q \in MCPrecisions, a \in Strings }

CharDirectives ==
  { Directive(<< >>, w, FALSE, << >>, << >>, c, Number(0)) :
      w \in MCWidths, c \in {"c", "%", "k"} }

\* %c of 0, and text behind a directive.
NulChars ==
  { [Directive(<< >>, << >>, FALSE, << >>, << >>, c, Arg(0, << >>, FALSE, NUL)) EXCEPT !.after = t] :
      c \in {"c", "d"}, t \in { << >>, <<"t", "\n">> } }

\* Formats that end in "%", "%-", "%5", "%." and "%l", and what lies behind them.
Unfinished ==
  { [Directive(f, w, q, << >>, s, NUL, Number(5)) EXCEPT !.after = t] :
      f \in { << >>, <<"-">> }, w \in { << >>, <<"5">> }, q \in BOOLEAN,
      s \in { << >>, <<"l">> }, t \in { << >>, <<"a", "\n">> } }

MCDirectives ==
  NumberDirectives \cup OtherNumbers \cup StringDirectives \cup CharDirectives
    \cup NulChars \cup Unfinished

\* init/test_printk.c: printk("Register dumped at: %#08x\n", 0x4F).
MCTest == { Directive(<<"#", "0">>, <<"8">>, FALSE, << >>, << >>, "x", Number(79)) }
=============================================================================
