------------------------------- MODULE MCScan -------------------------------
(***************************************************************************)
(* Values for Scan: Go calls of every kind, with operands that are strings *)
(* and such that are not, empty ones included; every verb shape; trees     *)
(* with every pair of Go files' kinds; Rust macros with arguments of every *)
(* kind before the message; and every short Rust source over the           *)
(* characters that open and close comments and strings.                    *)
(***************************************************************************)
EXTENDS Scan

MCLetter == {"a", "b", "d", "n", "r", "t"}
MCDigit == {"0", "5"}
MCAlNum == MCLetter \cup MCDigit
MCMacroLevel == [m \in {"info!(", "event!("} |-> IF m = "info!(" THEN "info" ELSE ""]
MCArgLevel == [l \in {"Level::WARN"} |-> "warn"]
MCChar == MCAlNum \cup DOMAIN MCMacroLevel \cup DOMAIN MCArgLevel \cup
          {" ", "%", "*", ".", "+", "-", "_", "{", "}", "[n]", "/", "\\", "\"", "\n", "#", ":",
           "=", ",", "(", ")", "'", "NUL", "SOH", "\t", "\r"}
MCValue == {[text |-> <<>>, str |-> TRUE], [text |-> <<"b">>, str |-> FALSE],
            [text |-> <<"a", " ", "5">>, str |-> TRUE]}

-----------------------------------------------------------------------------
(* Go *)
Dyn == <<"dyn">>
Zap == <<"zap">>
Lit(t) == <<"lit", t>>
Plus(l, r) == <<"plus", l, r>>
Ab == Lit(<<"a", "b">>)
GoFormats == { <<"a","b">>, <<"a","%","d","b">>, <<"a","b"," ","%","-","5",".","*","d">>,
             <<"a","%","%","b">>, <<"a","%","0","5","d","%","%","b","%","[n]","*","d">>,
             <<"a","b","%"," ","d","%","n">>, <<"%","d"," ","a">> }
Messages == {Dyn, Ab, Plus(Ab, Dyn), Plus(Plus(Dyn, Dyn), Ab), Plus(Ab, Plus(Dyn, Lit(<<"a">>)))}
            \cup {Lit(f) : f \in GoFormats}
MCExpr == Messages \cup {Zap, Plus(Dyn, Dyn), Lit(<<"a">>), Plus(Dyn, Lit(<<"a">>))}
Extras == {<<>>, <<Dyn>>, <<Zap>>, <<Zap, Dyn>>, <<Dyn, Dyn>>}
CallOf(recv, chain, base, suffix, ctx, args) ==
    [recv |-> recv, chain |-> chain, base |-> base, suffix |-> suffix,
     ctx |-> ctx, args |-> args]
LogCalls ==
    {CallOf(r, <<>>, b, s, FALSE, <<m>> \o x) :
        r \in {"log", "slog", "l"}, b \in {"Info", "Print"}, s \in {"", "f", "ln", "w"},
        m \in Messages, x \in Extras}
    \cup {CallOf("l", <<>>, "Warn", "", TRUE, <<Dyn, Ab>> \o x) : x \in Extras}
    \cup {CallOf("", c, "Msg", s, FALSE, <<m>>) :
             c \in {<<"", "Error">>, <<"">>, <<"Debug", "Error">>}, s \in {"", "f"},
             m \in {Ab, Lit(<<"a","%","d","b">>)}}
    \cup {CallOf("", <<>>, "Error", "", FALSE, <<>>), CallOf("l", <<>>, "Warn", "", TRUE, <<Ab>>)}
ErrCalls ==
    {CallOf("errors", <<>>, "New", "", FALSE, <<m>>) : m \in Messages}
    \cup {CallOf("fmt", <<>>, "Error", "f", FALSE, <<m, Dyn>>) : m \in Messages}
    \cup {CallOf(p[1], <<>>, p[2], s, FALSE, <<Dyn, m>>) :
             p \in {<<"errors", "Wrap">>, <<"status", "Error">>}, s \in {"", "f"}, m \in Messages}
    \cup {CallOf("errors", <<>>, "Wrap", "", FALSE, <<Dyn>>)}
Go(calls) == [kind |-> "go", calls |-> calls]
Other(k) == [kind |-> k]
Pairs == { CallOf("l", <<>>, b, s, FALSE, <<m>> \o x) :
             b \in {"Info", "Warn"}, s \in {"", "ln"}, m \in {Ab, Dyn}, x \in {<<>>, <<Dyn>>} }
GoTrees == {<<Go(<<c>>)>> : c \in LogCalls \cup ErrCalls}
           \cup {<<Go(<<c, d>>), Other("broken"), Other("other"), Go(<<e>>)>> :
                    c, d, e \in Pairs}

-----------------------------------------------------------------------------
(* Rust *)
Q == "\""
RustFormats == { <<"a","b">>, <<"a","b","{","}">>, <<"{","{","a","b","}","}">>,
                 <<"a","b","{","{","{","a","}","}","}">>, <<"{",":","5","}","a">>,
                 <<"{","}","{","b","}","a","b","{","{">> }
Before == { <<>>, <<"a",":"," ",Q,"b","a",Q,",">>, <<"a"," ","="," ",Q,"b","b",Q,",","\n">>,
            <<"(",Q,"b","a",Q,")",",">>, <<"/","*",Q,"b","*","/">>, <<"/","/",Q,"\n">>,
            <<"a","=","r","#",Q,"b",Q,"a",Q,"#",",">>, <<"'",Q,"'",",">>,
            <<"'","\\","'","'",",">>, <<"a","=","{","(",Q,"b","b",Q,")","}",",">> }
Says(level, format) == <<[level |-> level, format |-> format]>>
Spoken(b, f) ==
    [src |-> <<"info!(">> \o b \o <<Q>> \o f \o <<Q,",","a",")">>, says |-> Says("info", f)]
Raw(b, f) ==
    [src |-> <<"info!(">> \o b \o <<"r","#",Q>> \o f \o <<Q,"#",")">>, says |-> Says("info", f)]
Event(level, arg) ==
    [src |-> <<"event!("," ",arg,",",Q,"a","b",Q,")">>, says |-> Says(level, <<"a","b">>)]
Noise(src) == [src |-> src, says |-> <<>>]
\* A message ab with an escape inside, and the character the escape stands for.
Escaped(e, c) ==
    [src |-> <<"info!(",Q,"a","\\",e,"b","{","}",Q,")">>,
     says |-> Says("info", <<"a",c,"b","{","}">>)]
Escapes == {<<Q,Q>>, <<"\\","\\">>, <<"t","\t">>, <<"r","\r">>, <<"0","NUL">>}
Items == {Spoken(b, f) : b \in Before, f \in RustFormats}
         \cup {Raw(b, f) : b \in Before, f \in RustFormats}
         \cup {Escaped(e[1], e[2]) : e \in Escapes}
         \cup {Event("warn", "Level::WARN"), Event("unknown", "a"),
               Noise(<<"info!(",Q,"{","}",Q,")">>), Noise(<<"info!(","a",")">>)}
Rust(items) == [kind |-> "rust", items |-> items]
Texts(alphabet, n) == UNION {[1..m -> alphabet] : m \in 1..n}
Lexical == Texts({"info!(", Q, "/", "*", "\\", "\n"}, 6) \cup Texts({"info!(", Q, "r", "#", "_"}, 6)
Comment == Noise(<<"/","/"," ","info!(",Q,"a","b",Q,")","\n">>)
RustTrees == {<<Rust(<<i>>)>> : i \in Items}
             \cup {<<Rust(<<Noise(t)>>)>> : t \in Lexical}
             \cup {<<Rust(<<Comment, Event("warn", "Level::WARN"), Spoken(<<>>, f)>>),
                     Go(<<CallOf("l", <<>>, "Info", "", FALSE, <<Ab>>)>>)>> : f \in RustFormats}

MCTrees == GoTrees \cup RustTrees
=============================================================================
