--------------------------------- MODULE Asm ---------------------------------
(***************************************************************************)
(* The assembler (asm.rs): assemble, which turns the tokens of a source     *)
(* into an object one construct at a time, and Builder, which makes an      *)
(* object of calls.  The lexer's work is done: a source is its tokens, with *)
(* a newline after every line and an end behind the last.                   *)
(***************************************************************************)
EXTENDS Codec

CONSTANTS
  Sources,   \* the token sequences assemble may be given
  Insns,     \* what a front end may pass to Builder::insn
  MaxCalls   \* bound: calls made on one Builder before finish

(* insn takes an opcode of the table, a byte and a word of 32 bits. *)
ASSUME InsnsAssumption == Insns \subseteq [op : Ops, a : 0 .. 255, b : Operands]

(* What the lexer hands over: tokens, the last of them the end, no more than *)
(* leave the bytes of their code, four a word, countable in 32 bits.         *)
Tokens ==
  [kind : {"Directive", "Ident", "Label", "Str"}, s : STRING]
  \cup [kind : {"Int"}, n : Int] \cup [kind : {"Newline", "End"}]
ASSUME SourcesAssumption ==
  \A src \in Sources :
    /\ src \in Seq(Tokens) /\ src # <<>> /\ src[Len(src)].kind = "End"
    /\ 4 * Len(src) < Units * Units

Types == {"i32", "i64", "str", "void", ","}

VARIABLES
  job,      \* "assemble" | "build"
  toks,
  i,        \* the next token, or the calls made so far
  status,   \* "open" | "done" | the code of the error returned
  obj,      \* the object: its code, funcs, constants, tools, tables, entry
  fn,       \* the open function: fn_name (<<>> or <<name>>), maxstack (<<>> or
            \* <<n>>), args, returns, labels, pending, func_code_off
  header,   \* <<>>, or the name of the `.fn` being read and its in_args
  index,    \* const_index and tool_index
  source,   \* history: the instructions asked for, ahead of the first function
            \* and in each one begun, with what the operand's name stood for
  meaning   \* history: what names stand for: constants, labels

vars == <<job, toks, i, status, obj, fn, header, index, source, meaning>>

NoNames == [s \in {} |-> 0]
NewFn(name, off) ==
  [name |-> name, maxstack |-> <<>>, args |-> 0, returns |-> 1,
   labels |-> NoNames, pending |-> <<>>, off |-> off]
NewObject ==
  [code |-> <<>>, funcs |-> <<>>, constants |-> <<>>, tools |-> <<>>,
   tables |-> <<>>, entry |-> <<>>]

Init ==
  /\ \/ job = "assemble" /\ toks \in Sources /\ i = 1
     \/ job = "build" /\ toks = <<>> /\ i = 0
  /\ status = "open"
  /\ obj = NewObject
  /\ fn = NewFn(<<>>, 0)
  /\ header = <<>>
  /\ index = [constants |-> NoNames, tools |-> NoNames]
  /\ source = <<<<>>>>
  /\ meaning = [constants |-> NoNames, labels |-> NoNames]

Put(map, s, v) == [t \in DOMAIN map \cup {s} |-> IF t = s THEN v ELSE map[t]]
AtMost(n, top) == IF n > top THEN top ELSE n
Magnitude(n) == IF n < 0 THEN -n ELSE n

(* The function that is open joins the table, with the code since it began. *)
(* Mutant: its length is that of all the code. *)
ClosedLong(o, f, maxstack) ==
  IF f.name = <<>> THEN o
  ELSE [o EXCEPT
         !.funcs = Append(@, [name |-> f.name[1], off |-> f.off, len |-> Len(o.code),
                              maxstack |-> maxstack, args |-> f.args,
                              returns |-> f.returns]),
         !.entry = IF f.name = <<"main">> THEN f.name ELSE @]
Closed(o, f, maxstack) ==
  IF f.name = <<>> THEN o
  ELSE [o EXCEPT
         !.funcs = Append(@, [name |-> f.name[1], off |-> f.off,
                              len |-> Len(o.code) - f.off, maxstack |-> maxstack,
                              args |-> f.args, returns |-> f.returns]),
         !.entry = IF f.name = <<"main">> THEN f.name ELSE @]

-----------------------------------------------------------------------------
(* The operand of an instruction: the tokens its class takes, and the word  *)
(* they give.  A name is looked up in the tables as they are by then.       *)
Tok == toks[i]
After(n) == toks[i + n]
LineEnds == {"Newline", "End"}

Takes(class) ==
  CASE class = "None" -> LineEnds
    [] class = "Imm" -> {"Int", "Ident"}
    [] class = "Const" -> {"Ident", "Str"}
    [] class \in {"Tool", "Func", "Target"} -> {"Ident"}
    [] OTHER -> {"Int"}

Unknown(class, t) ==
  t.kind = "Ident" /\
    \/ class \in {"Imm", "Const"} /\ t.s \notin DOMAIN index.constants
    \/ class = "Tool" /\ t.s \notin DOMAIN index.tools

OperandFault(class, t) ==
  IF t.kind \notin Takes(class)
  THEN IF class = "None" THEN "UnexpectedOperand" ELSE "MissingOperand"
  ELSE IF Unknown(class, t) THEN "UnknownSymbol" ELSE "ok"

(* Of a negative immediate the lower half is kept. *)
Literal(class, n) ==
  IF class = "Imm" /\ n < 0 THEN n % Units
  ELSE AtMost(Magnitude(n), Units * Units - 1)

Defers(class, t) == class = "Func" \/ (class = "Target" /\ t.s \notin DOMAIN fn.labels)

OperandWord(class, t) ==
  CASE class = "None" -> 0
    [] t.kind = "Int" -> Literal(class, t.n)
    [] t.kind = "Str" -> Len(obj.constants)
    [] t.kind = "Ident" /\ class = "Tool" -> index.tools[t.s]
    [] t.kind = "Ident" /\ class \in {"Imm", "Const"} -> index.constants[t.s]
    [] t.kind = "Ident" /\ class \in {"Func", "Target"} ->
         IF Defers(class, t) THEN 0 ELSE fn.labels[t.s]

(* What the source means by it, for the properties: the constant the name   *)
(* was last given, or the instruction its label stands before.              *)
Latest == source[Len(source)]
Asks(x) == source' = [source EXCEPT ![Len(source)] = Append(@, x)]
Meant(class, t) ==
  CASE t.kind = "Ident" /\ class \in {"Imm", "Const"} -> meaning.constants[t.s]
    [] t.kind = "Ident" /\ class = "Target" /\ t.s \in DOMAIN meaning.labels ->
         <<meaning.labels[t.s]>>
    [] OTHER -> <<>>

-----------------------------------------------------------------------------
(* The first check the construct at the next token fails. *)
DirectiveFault ==
  LET d == Tok.s
      next == After(1).kind
  IN CASE d = "isa" -> "ok"
       [] d = "image" -> IF next = "Str" THEN "ok" ELSE "BadOperand"
       [] d = "fn" -> IF next \in {"Ident", "Label"} THEN "ok" ELSE "BadOperand"
       [] d = "maxstack" -> IF next = "Int" THEN "ok" ELSE "MissingMaxstack"
       [] d = "tool" -> IF next = "Ident" THEN "ok" ELSE "BadOperand"
       [] d = "const" ->
            IF next = "Ident" /\ After(2).kind \in {"Str", "Int"} THEN "ok"
            ELSE "BadOperand"
       [] OTHER -> "UnknownDirective"

LabelFault ==
  IF fn.name = <<>> THEN "BadOperand"
  ELSE IF Tok.s \in DOMAIN fn.labels THEN "DuplicateLabel" ELSE "ok"

InsnFault ==
  IF fn.name = <<>> THEN "BadOperand"
  ELSE IF Tok.s \notin Ops THEN "UnknownMnemonic"
  ELSE OperandFault(TABLE[Tok.s].operand, After(1))

(* The loop over a function's signature ends at the first token it cannot   *)
(* use; only then is an open function noticed.                              *)
InSignature ==
  Tok.kind = "Ident" /\ (Tok.s \in {"(", ")", "->"} \/ (header[1].inArgs /\ Tok.s \notin Types))
HeaderFault ==
  IF ~InSignature /\ fn.name # <<>> THEN "DuplicateSymbol" ELSE "ok"

FaultHere ==
  IF header # <<>> THEN HeaderFault
  ELSE CASE Tok.kind = "Directive" -> DirectiveFault
         [] Tok.kind = "Label" -> LabelFault
         [] Tok.kind = "Ident" -> InsnFault
         [] Tok.kind \in LineEnds -> "ok"
         [] OTHER -> "BadOperand"

Reading == job = "assemble" /\ status = "open" /\ i <= Len(toks)
Accepting(kind) == Reading /\ header = <<>> /\ Tok.kind = kind /\ FaultHere = "ok"
Directive(d) == Accepting("Directive") /\ Tok.s = d
Skip(n) == i' = i + n /\ UNCHANGED <<job, toks, status>>

Reject ==
  /\ Reading /\ FaultHere # "ok"
  /\ status' = FaultHere
  /\ UNCHANGED <<job, toks, i, obj, fn, header, index, source, meaning>>

-----------------------------------------------------------------------------
(* `.isa` takes no operand: what follows it is read as a construct. *)
(* Mutant: the directive itself is not passed. *)
IsaLineStays ==
  /\ Directive("isa") /\ Skip(0)
  /\ UNCHANGED <<obj, fn, header, index, source, meaning>>
IsaLine ==
  /\ Directive("isa") /\ Skip(1)
  /\ UNCHANGED <<obj, fn, header, index, source, meaning>>

Image ==
  /\ Directive("image") /\ Skip(2)
  /\ UNCHANGED <<obj, fn, header, index, source, meaning>>

FnHeader ==
  /\ Directive("fn") /\ Skip(2)
  /\ header' = <<[name |-> After(1).s, inArgs |-> FALSE]>>
  /\ fn' = [fn EXCEPT !.args = 0, !.returns = 1]
  /\ UNCHANGED <<obj, index, source, meaning>>

Signature ==
  /\ Reading /\ header # <<>> /\ InSignature
  /\ LET typed == Tok.s = "->" /\ After(1).kind = "Ident"
     IN /\ Skip(IF typed THEN 2 ELSE 1)
        /\ header' = IF Tok.s \in {"(", ")"}
                     THEN <<[header[1] EXCEPT !.inArgs = (Tok.s = "(")]>> ELSE header
        /\ fn' = CASE Tok.s \in {"(", ")"} -> fn
                   [] Tok.s = "->" ->
                        IF ~typed THEN fn
                        ELSE [fn EXCEPT !.returns = IF After(1).s = "void" THEN 0 ELSE 1]
                   [] OTHER -> [fn EXCEPT !.args = AtMost(@ + 1, 255)]
  /\ UNCHANGED <<obj, index, source, meaning>>

FnBegin ==
  /\ Reading /\ header # <<>> /\ ~InSignature /\ FaultHere = "ok"
  /\ Skip(0)
  /\ fn' = [NewFn(<<header[1].name>>, Len(obj.code)) EXCEPT
             !.args = fn.args, !.returns = fn.returns]
  /\ header' = <<>>
  /\ source' = Append(source, <<>>)
  /\ meaning' = [meaning EXCEPT !.labels = NoNames]
  /\ UNCHANGED <<obj, index>>

(* Mutant: the number is not cut to the field. *)
MaxstackWhole ==
  /\ Directive("maxstack") /\ Skip(2)
  /\ fn' = [fn EXCEPT !.maxstack = <<Magnitude(After(1).n)>>]
  /\ UNCHANGED <<obj, header, index, source, meaning>>
Maxstack ==
  /\ Directive("maxstack") /\ Skip(2)
  /\ fn' = [fn EXCEPT !.maxstack = <<AtMost(Magnitude(After(1).n), Units - 1)>>]
  /\ UNCHANGED <<obj, header, index, source, meaning>>

Tool ==
  /\ Directive("tool") /\ Skip(2)
  /\ obj' = [obj EXCEPT !.tools = Append(@, After(1).s)]
  /\ index' = [index EXCEPT !.tools = Put(@, After(1).s, Len(obj.tools))]
  /\ UNCHANGED <<fn, header, source, meaning>>

(* Mutant: a name keeps the constant it was given first. *)
ConstFirst ==
  /\ Directive("const") /\ Skip(3)
  /\ obj' = [obj EXCEPT !.constants = Append(@, After(2))]
  /\ index' = [index EXCEPT !.constants =
                 IF After(1).s \in DOMAIN @ THEN @ ELSE Put(@, After(1).s, Len(obj.constants))]
  /\ meaning' = [meaning EXCEPT !.constants = Put(@, After(1).s, After(2))]
  /\ UNCHANGED <<fn, header, source>>
Const ==
  /\ Directive("const") /\ Skip(3)
  /\ obj' = [obj EXCEPT !.constants = Append(@, After(2))]
  /\ index' = [index EXCEPT !.constants = Put(@, After(1).s, Len(obj.constants))]
  /\ meaning' = [meaning EXCEPT !.constants = Put(@, After(1).s, After(2))]
  /\ UNCHANGED <<fn, header, source>>

(* A label is the number of words its function has so far. *)
(* Mutant: the number of instructions. *)
LabelIndexInsns == Len(DecodeRange(obj.code, fn.off, Len(obj.code) - fn.off))
LabelIndex == Len(obj.code) - fn.off

Label ==
  /\ Accepting("Label") /\ Skip(1)
  /\ fn' = [fn EXCEPT !.labels = Put(@, Tok.s, LabelIndex)]
  /\ meaning' = [meaning EXCEPT !.labels = Put(@, Tok.s, Len(Latest) + 1)]
  /\ UNCHANGED <<obj, header, index, source>>

Instruction ==
  /\ Accepting("Ident")
  /\ LET class == TABLE[Tok.s].operand
         t == After(1)
         operand == IF class = "None" THEN 0 ELSE 1
     IN /\ Skip(1 + operand + IF After(1 + operand).kind = "Newline" THEN 1 ELSE 0)
        /\ obj' = [obj EXCEPT
             !.constants = IF class = "Const" /\ t.kind = "Str" THEN Append(@, t) ELSE @,
             !.tables = IF Tok.s = "switch" THEN Append(@, <<0>>) ELSE @,
             !.code = @ \o Encode(Tok.s, 0, OperandWord(class, t))]
        /\ fn' = IF t.kind = "Ident" /\ Defers(class, t)
                 THEN [fn EXCEPT !.pending = Append(@, t.s)] ELSE fn
        /\ Asks([op |-> Tok.s, a |-> 0, operand |-> t, meant |-> Meant(class, t)])
  /\ UNCHANGED <<header, index, meaning>>

LineEnd ==
  /\ Reading /\ header = <<>> /\ Tok.kind \in LineEnds /\ Skip(1)
  /\ UNCHANGED <<obj, fn, header, index, source, meaning>>

(* Behind the last token the function is closed.  The names that were put   *)
(* off are looked for among its labels, and the words they left zero stay.  *)
FinishFault ==
  IF fn.name # <<>> /\ fn.maxstack = <<>> THEN "MissingMaxstack"
  ELSE IF ToSet(fn.pending) \ DOMAIN fn.labels # {} THEN "UndefinedLabel"
  ELSE IF fn.name # <<"main">> THEN "NoEntryPoint"
  ELSE "ok"

Finish ==
  /\ job = "assemble" /\ status = "open" /\ i > Len(toks)
  /\ IF FinishFault = "ok"
     THEN status' = "done" /\ obj' = Closed(obj, fn, fn.maxstack[1])
     ELSE status' = FinishFault /\ UNCHANGED obj
  /\ UNCHANGED <<job, toks, i, fn, header, index, source, meaning>>

Assembling ==
  \/ Reject \/ IsaLine \/ Image \/ FnHeader \/ Signature \/ FnBegin \/ Maxstack
  \/ Tool \/ Const \/ Label \/ Instruction \/ LineEnd \/ Finish

-----------------------------------------------------------------------------
(* Builder.  It keeps the labels it is told of and uses none of them, and   *)
(* takes instructions before its first function.                            *)
Calling == job = "build" /\ status = "open" /\ i < MaxCalls /\ Skip(1)

(* The frame's size is known from the start. *)
CloseFn == Closed(obj, fn, IF fn.maxstack = <<>> THEN 0 ELSE fn.maxstack[1])

BeginFn ==
  /\ Calling
  /\ obj' = CloseFn
  /\ \E name \in {"main", "leaf"} :
       fn' = [NewFn(<<name>>, Len(obj.code)) EXCEPT !.maxstack = <<1>>]
  /\ source' = Append(source, <<>>)
  /\ UNCHANGED <<header, index, meaning>>

BuilderLabel ==
  /\ Calling
  /\ fn' = IF fn.name = <<>> THEN fn ELSE [fn EXCEPT !.labels = Put(@, "l", LabelIndex)]
  /\ UNCHANGED <<obj, header, index, source, meaning>>

BuilderInsn ==
  /\ Calling
  /\ \E d \in Insns :
       /\ obj' = [obj EXCEPT !.code = @ \o Encode(d.op, d.a, d.b)]
       /\ Asks([op |-> d.op, a |-> d.a, meant |-> <<>>,
                operand |-> [kind |-> "Raw", n |-> d.b]])
  /\ UNCHANGED <<fn, header, index, meaning>>

ConstStr ==
  /\ Calling
  /\ obj' = [obj EXCEPT !.constants = Append(@, [kind |-> "Str", s |-> "c"])]
  /\ UNCHANGED <<fn, header, index, source, meaning>>

BuilderFinish ==
  /\ job = "build" /\ status = "open"
  /\ obj' = CloseFn
  /\ status' = IF CloseFn.entry = <<>> THEN "NoEntryPoint" ELSE "done"
  /\ UNCHANGED <<job, toks, i, fn, header, index, source, meaning>>

Building == BeginFn \/ BuilderLabel \/ BuilderInsn \/ ConstStr \/ BuilderFinish

Returned == status # "open" /\ UNCHANGED vars

Next == Assembling \/ Building \/ Returned

(* assemble's loop turns until it returns; nobody has to finish a Builder. *)
Spec == Init /\ [][Next]_vars /\ WF_vars(Assembling)

-----------------------------------------------------------------------------
(* Every field of an object and of a function fits its width (asm.rs, whose *)
(* frame size is 16 bits and operands 32).                                  *)
TypeOK ==
  /\ obj.code \in Seq(CodeWords)
  /\ \A k \in DOMAIN obj.funcs :
       /\ obj.funcs[k].maxstack \in 0 .. Units - 1
       /\ obj.funcs[k].args \in 0 .. 255 /\ obj.funcs[k].returns \in 0 .. 1
       /\ obj.funcs[k].off \in Nat /\ obj.funcs[k].len \in Nat
  /\ \A s \in DOMAIN fn.labels : fn.labels[s] \in 0 .. Len(obj.code)
  /\ i \in Nat /\ Len(obj.entry) <= 1

(* The instructions of the k-th function, as the graph builder reads them   *)
(* back and as the source or the front end wrote them.                      *)
Window(k) == DecodeRange(obj.code, obj.funcs[k].off, obj.funcs[k].len)
Written(k) == source[k + 1]
EachInsn(P(_, _)) ==
  status = "done" =>
    \A k \in DOMAIN obj.funcs : \A n \in DOMAIN Written(k) : P(Written(k)[n], Window(k)[n])

Class(x) == TABLE[x.op].operand
Unsigned(x) == x.operand.kind = "Raw" \/ (x.operand.kind = "Int" /\ Class(x) # "Imm")

(* What is read back from a function's window is what was written, in       *)
(* order, over instructions of either width: as many instructions, the same *)
(* opcodes, the same numbers or, of a number that is too large, the largest *)
(* one (isa.rs encode, decode; cfg.rs decode_range).                        *)
RoundTrip ==
  /\ status = "done" =>
       \A k \in DOMAIN obj.funcs : Len(Window(k)) = Len(Written(k))
  /\ EachInsn(LAMBDA x, d :
       /\ x.op = d.op /\ x.a = d.a
       /\ Unsigned(x) => d.b = AtMost(Magnitude(x.operand.n), Units * Units - 1))

(* A number loaded as an immediate is the number written, as long as it     *)
(* fits 16 bits signed or needs the wide form (asm.rs:173-178, isa.rs imm): *)
(* between the two it comes back negative.                                  *)
Keepable(n) ==
  n \in -(Units \div 2) .. (Units \div 2 - 1) \/ n \in Units .. (Units * Units) \div 2 - 1
ImmediateKept ==
  EachInsn(LAMBDA x, d :
    Class(x) = "Imm" /\ x.operand.kind = "Int" /\ Keepable(x.operand.n) =>
      Imm2(d) = x.operand.n)

(* Every branch of an assembled program names a label of its function, and  *)
(* one to a label already read reaches the instruction behind the label by  *)
(* the machine's addressing, which counts words, whatever the widths of the *)
(* instructions between (asm.rs:143-153, 237-242; interp.rs:91).            *)
BranchesMeant ==
  /\ EachInsn(LAMBDA x, d : Class(x) = "Target" /\ x.operand.kind = "Ident" =>
                x.operand.s \in DOMAIN meaning.labels)
  /\ status = "done" =>
       \A k \in DOMAIN obj.funcs : \A n \in DOMAIN Written(k) :
         LET x == Written(k)[n]
         IN Class(x) = "Target" /\ x.meant # <<>> =>
              Window(k)[n].b = StartOf(Window(k), x.meant[1])

(* A constant or a tool named in the source, redeclared, shadowed or        *)
(* written in place, is in its table at the index encoded.                  *)
NamesMeant ==
  EachInsn(LAMBDA x, d :
    /\ Class(x) = "Const" /\ x.operand.kind = "Ident" => obj.constants[d.b + 1] = x.meant
    /\ Class(x) = "Const" /\ x.operand.kind = "Str" => obj.constants[d.b + 1] = x.operand
    /\ Class(x) = "Tool" /\ x.operand.kind = "Ident" => obj.tools[d.b + 1] = x.operand.s)

(* The functions of a finished object lie one behind the other and the last *)
(* ends with the code, whoever made it.                                     *)
WindowsTile ==
  status = "done" =>
    LET fs == obj.funcs
    IN /\ \A k \in 1 .. Len(fs) - 1 : fs[k + 1].off = fs[k].off + fs[k].len
       /\ fs[Len(fs)].off + fs[Len(fs)].len = Len(obj.code)

(* assemble returns, with an object or an error, whatever it is given: each *)
(* turn of its loop passes a token or is the last (asm.rs:40).              *)
Assembles == job = "assemble" /\ status = "open" ~> status # "open"
=============================================================================
