------------------------------ MODULE GoCalls ------------------------------
(***************************************************************************)
(* One call expression of a Go file, as scan (extract.go) and              *)
(* scan-errors (errors.go) see it: is it a log call or an error being      *)
(* built, and what template does it record?  Recognition is by name; the   *)
(* run time is not known, so what a recorded call may print is a set of    *)
(* lines, one for every kind of logger the receiver may be.                *)
(*                                                                         *)
(* An expression is <<"lit", text>>, <<"dyn">>, <<"zap">>, a zap field, or *)
(* <<"plus", left, right>>; parentheses are left out.                      *)
(***************************************************************************)
EXTENDS Formats

CONSTANTS Expr,   \* expressions, with those they are made of
          Value   \* what an operand or a verb may print

\* Whatever expressions one takes, one of them is not made of others of them.
ASSUME ExprAssumption ==
    /\ \A e \in Expr : \/ e[1] = "lit" /\ e[2] \in Text
                       \/ e[1] \in {"dyn", "zap"}
                       \/ e[1] = "plus" /\ {e[2], e[3]} \subseteq Expr
    /\ \A S \in SUBSET Expr :
          S # {} => \E e \in S : e[1] = "plus" => {e[2], e[3]} \cap S = {}

\* The value's text, and is its operand a string?
ASSUME ValueAssumption == Value \subseteq [text : Seq(Char), str : BOOLEAN]

(***************************************************************************)
(* A call: the receiver's name; when the receiver is a chain of calls, the *)
(* levels of its links without arguments, from the outside in, "" for      *)
(* another link; the method's name, taken apart, and does it end in        *)
(* Context?                                                                *)
(***************************************************************************)
Call == [recv : STRING, chain : Seq(STRING), base : STRING,
         suffix : {"", "f", "ln", "w"}, ctx : BOOLEAN, args : Seq(Expr)]

LevelOf == [Trace |-> "trace", Debug |-> "debug", Info |-> "info", Warn |-> "warn",
            Warning |-> "warn", Error |-> "error", Fatal |-> "fatal",
            Panic |-> "panic", DPanic |-> "panic"] @@ ("Print" :> "info")

skipRecv == {"fmt", "http", "errors", "testing", "zap"}

\* What stringTemplate makes of an expression: <<text>>, or <<>> without a literal.
Joined(l, r) ==
    LET part(p) == IF p = <<>> THEN <<Placeholder>> ELSE p[1]
    IN  IF l = <<>> /\ r = <<>> THEN <<>> ELSE <<part(l) \o part(r)>>

Folded[e \in Expr] ==
    CASE e[1] = "lit"  -> <<e[2]>>
      [] e[1] = "plus" -> Joined(Folded[e[2]], Folded[e[3]])
      [] OTHER         -> <<>>

\* The message: after the context, if there is one.
At(call) == IF call.ctx THEN 2 ELSE 1
Message(call) == call.args[At(call)]
Extra(call) == SubSeq(call.args, At(call) + 1, Len(call.args))

AllZapFields(args) == args # <<>> /\ \A a \in ToSet(args) : a[1] = "zap"

\* How the call carries its message.
Kind(call) ==
    IF call.suffix = "f" THEN "printf"
    ELSE IF call.suffix = "ln" THEN "println"
    ELSE IF \/ call.suffix = "w" \/ call.base = "Msg" \/ call.recv = "slog"
            \/ AllZapFields(Extra(call))
    THEN "msg" ELSE "print"

\* chainLevel: the level of the first link of the chain that is one.
ChainLevel(chain) ==
    LET link == SelectInSeq(chain, LAMBDA l : l \in DOMAIN LevelOf)
    IN  IF link = 0 THEN "unknown" ELSE LevelOf[chain[link]]

LogLevel(call) == IF call.base = "Msg" THEN ChainLevel(call.chain) ELSE LevelOf[call.base]

IsLogCall(call) ==
    /\ call.recv \notin skipRecv
    /\ call.base \in DOMAIN LevelOf \cup {"Msg"}
    /\ Len(call.args) >= At(call)

Repeat(text, n) == FlattenSeq([i \in 1..n |-> text])

\* Defect: Print's operands are taken to be separated.
AppendedSpaced(kind, text, extra) ==
    IF kind \in {"print", "println"}
    THEN text \o Repeat(<<Blank, Placeholder>>, extra) ELSE text

\* What visitCall appends for the operands that are part of the message.
Appended(kind, text, extra) ==
    CASE kind = "print"   -> text \o Repeat(<<Placeholder>>, extra)
      [] kind = "println" -> text \o Repeat(<<Blank, Placeholder>>, extra)
      [] OTHER            -> text

\* visitCall: the template, or <<>> when the call is dynamic.
LogTemplate(call) ==
    LET folded == Folded[Message(call)]
        text == IF Kind(call) = "printf" THEN Normalized(folded[1])
                ELSE Appended(Kind(call), folded[1], Len(Extra(call)))
    IN  IF folded = <<>> THEN <<>> ELSE IF IsZeroLiteral(text) THEN <<>> ELSE <<text>>

-----------------------------------------------------------------------------
(***************************************************************************)
(* Errors: the functions that build them, by package, with the place of    *)
(* the message, whether it is a format and whether a cause is appended.    *)
(***************************************************************************)
errFuncs == [fmt    |-> [Errorf |-> [at |-> 1, printf |-> TRUE,  wraps |-> FALSE]],
             errors |-> [New    |-> [at |-> 1, printf |-> FALSE, wraps |-> FALSE],
                         Errorf |-> [at |-> 1, printf |-> TRUE,  wraps |-> FALSE],
                         Wrap   |-> [at |-> 2, printf |-> FALSE, wraps |-> TRUE],
                         Wrapf  |-> [at |-> 2, printf |-> TRUE,  wraps |-> TRUE]],
             status |-> [Error  |-> [at |-> 2, printf |-> FALSE, wraps |-> FALSE],
                         Errorf |-> [at |-> 2, printf |-> TRUE,  wraps |-> FALSE]]]

Method(call) == call.base \o call.suffix
ErrFunc(call) == errFuncs[call.recv][Method(call)]

IsErrCall(call) ==
    /\ call.recv \in DOMAIN errFuncs /\ call.chain = <<>> /\ ~call.ctx
    /\ Method(call) \in DOMAIN errFuncs[call.recv]
    /\ Len(call.args) >= ErrFunc(call).at

\* visitErrCall
ErrTemplate(call) ==
    LET ef == ErrFunc(call)
        folded == Folded[call.args[ef.at]]
        message == IF ef.printf THEN Normalized(folded[1]) ELSE folded[1]
        text == IF ef.wraps THEN message \o <<":", Blank, Placeholder>> ELSE message
    IN  IF folded = <<>> THEN <<>> ELSE IF IsZeroLiteral(text) THEN <<>> ELSE <<text>>

-----------------------------------------------------------------------------
(***************************************************************************)
(* What a call prints when it runs, given a value for each dynamic part.   *)
(***************************************************************************)
Evaluated(expr, v) ==
    LET text[e \in Expr] == CASE e[1] = "lit"  -> e[2]
                              [] e[1] = "plus" -> text[e[2]] \o text[e[3]]
                              [] OTHER         -> v.text
    IN  text[expr]

(***************************************************************************)
(* fmt.Sprint puts a blank between two operands when neither is a string,  *)
(* fmt.Sprintln always; the message is a string.                           *)
(***************************************************************************)
Sprint(message, operands) ==
    message \o FlattenSeq([i \in DOMAIN operands |->
        IF i > 1 /\ ~operands[i].str /\ ~operands[i-1].str
        THEN <<Blank>> \o operands[i].text ELSE operands[i].text])

Sprintln(message, operands) ==
    message \o FlattenSeq([i \in DOMAIN operands |-> <<Blank>> \o operands[i].text])

Operands(n) == [1..n -> Value]

\* The logger of this kind of receiver keeps the operands out of the message.
KeepsFields(call) ==
    call.suffix = "w" \/ call.base = "Msg" \/ call.recv = "slog" \/ AllZapFields(Extra(call))

\* An unknown receiver's Info may print its operands or keep them as fields.
LinesOf(call, message) ==
    LET operands == Operands(Len(Extra(call))) IN
    IF call.suffix = "f" THEN {Sprintf(message, <<v.text, w.text>>) : v, w \in Value}
    ELSE IF call.suffix = "ln" THEN {Sprintln(message, o) : o \in operands}
    ELSE (IF KeepsFields(call) THEN {} ELSE {Sprint(message, o) : o \in operands})
         \cup (IF call.recv = "log" /\ ~KeepsFields(call) THEN {} ELSE {message})

LogLines(call) == UNION {LinesOf(call, Evaluated(Message(call), v)) : v \in Value}

ErrText(call, v, w) ==
    LET ef == ErrFunc(call)
        message == Evaluated(call.args[ef.at], v)
    IN  (IF ef.printf THEN Sprintf(message, <<v.text, w.text>>) ELSE message)
        \o (IF ef.wraps THEN <<":", Blank>> \o w.text ELSE <<>>)

ErrTexts(call) == {ErrText(call, v, w) : v, w \in Value}
=============================================================================
