-------------------------------- MODULE MCVM --------------------------------
(* Contracts, calls and sizes for model checking VM.                        *)
EXTENDS VM

(* The byte of an op-code, and some instructions with their arguments.      *)
B(name) == <<(CHOOSE i \in DOMAIN OpCodes : OpCodes[i][1] = name) - 1>>
PushOf(b) == B("PUSH") \o <<Len(b) - 1>> \o b
Roll(n) == B("ROLL") \o <<n>>

(* Scaled sizes: two bytes for a hash, four for a key and a unit of gas.    *)
Key1 == <<9, 9, 9, 9>>
MCAccount == [Address |-> Key1, Issuer |-> <<7, 7>>]
Data1 == <<1, 0, 5>>

Payment(data, fee) ==
    [Data |-> data, Fee |-> fee, Amount |-> 3, From |-> <<7, 7>>, Sig1 |-> <<Key1, <<0, 1>>>>]
MCCalls == {Payment(Data1, 100), Payment(Data1 \o <<0, 1>>, 30)}

k1 == <<0, 1>>
k2 == <<4>>
MCElements == {k1, k2}

(* Variable 0 is a number, 1 a map with two pairs, 2 an array of two.       *)
MCVariables ==
    << <<0, 2>>, <<1, 2, 0>> \o <<2, 0, 0, 1, 1, 0, 4>> \o <<1, 0, 4, 2, 0, 0, 1>>,
       <<2, 2, 0>> \o <<2, 0, 0, 1>> \o <<1, 0, 4>> >>

(* Numbers: two operands, then any two or three instructions.               *)
Simple(names) == {B(n) : n \in names}
NumberMenu ==
    Simple(ArithmeticCodes \cup CompareCodes \cup {"NEG", "POP", "SIZE", "RET", "DUP", "SHA3"})
    \cup {PushOf(<<7, 1>>), B("SHIFTL") \o <<2>>, B("SHIFTR") \o <<1>>, B("NOP") \o <<0>>,
          Roll(0), Roll(1), Roll(2)}
NumberContracts ==
    {PushOf(<<1, 3>>) \o PushOf(<<0, 5>>) \o x \o y \o B("HALT") : x, y \in NumberMenu}
    \cup {B("CALLDATA") \o B("SLOAD") \o <<0>> \o x \o B("SSTORE") \o <<0>> \o y \o B("HALT") :
              x, y \in NumberMenu}

(* Jumps and calls.  The label is where the two operands end.               *)
Label(n) == <<n \div 256, n % 256>>
ControlMenu ==
    {B("JMP") \o Label(8), B("JMPIF") \o Label(8), B("CALL") \o Label(8) \o <<1>>,
     B("CALL") \o Label(0) \o <<0>>, B("CALLIF") \o Label(8) \o <<0>>, B("CALLIF") \o Label(99) \o <<0>>,
     B("LOAD") \o <<0>>, B("STORE") \o <<0>>, B("STORE") \o <<1>>, B("RET"), B("EQ"), B("DUP"),
     B("CALLEXT") \o <<7, 7, 1, 1, 1, 1, 0>>, B("ERRHALT"), B("HALT"), <<200>>}
ControlContracts ==
    {PushOf(<<1, 1>>) \o PushOf(<<1, 2>>) \o x \o y \o z \o B("HALT") :
        x, y \in ControlMenu, z \in Simple({"RET", "DUP", "EQ"}) \cup {B("JMP") \o Label(8)}}

(* A function of up to two arguments, called after the two operands.        *)
BodyMenu ==
    {B(n) \o <<i>> : n \in {"LOAD", "STORE"}, i \in 0 .. 1}
    \cup {B("SSTORE") \o <<0>>, B("ADD"), B("RET"), B("CALLIF") \o Label(13) \o <<0>>}
FunctionContracts ==
    {PushOf(<<1, 1>>) \o PushOf(<<1, 2>>) \o B("CALL") \o Label(13) \o <<n>> \o B("HALT")
        \o x \o y \o B("RET") : n \in 0 .. 2, x, y \in BodyMenu}

(* The context, a hash and a signature; and a loop that fills the stack.    *)
ContextContracts ==
    {B("ADDRESS") \o B("ISSUER") \o B("CALLER") \o x \o B("BALANCE") \o B("CALLVAL") \o y
        \o PushOf(<<0, 1>>) \o z \o B("SSTORE") \o <<0>> \o B("SLOAD") \o <<9>> \o B("HALT") :
        x, y \in Simple({"EQ", "NEQ", "DUP"}), z \in {<<>>, B("ADDRESS") \o B("CHECKSIG")}}
    \cup {B(n) \o x \o B("JMP") \o Label(0) \o B("HALT") :
              n \in {"ADDRESS", "NEWARR", "NEWMAP", "CALLDATA", "CALLER", "CALLVAL"},
              x \in Simple({"DUP", "NEWARR", "ADDRESS"}) \cup {<<>>}}
    \cup {B("CALLDATA") \o B("SSTORE") \o <<3>> \o B("HALT")}

(* Containers: pairs of elements below a map or an array, then two of the   *)
(* instructions with operands in place; the result becomes a variable.      *)
OnMap ==
    {PushOf(v) \o PushOf(k) \o Roll(1) \o B(n) : k, v \in MCElements, n \in {"MAPPUSH", "MAPSETVAL"}}
    \cup {PushOf(k) \o Roll(0) \o B(n) : k \in MCElements, n \in {"MAPREMOVE", "MAPHASKEY", "MAPGETVAL"}}
    \cup {B("DUP") \o PushOf(k) \o Roll(0) \o B("MAPREMOVE") : k \in MCElements}
OnArray ==
    {PushOf(v) \o Roll(0) \o B("ARRAPPEND") : v \in MCElements}
    \cup {PushOf(v) \o PushOf(<<i, 0>>) \o Roll(1) \o B("ARRINSERT") : v \in MCElements, i \in 0 .. 2}
    \cup {PushOf(<<i, 0>>) \o Roll(0) \o B(n) : i \in 0 .. 2, n \in {"ARRREMOVE", "ARRAT"}}
    \cup {B("DUP") \o PushOf(<<0, 0>>) \o Roll(0) \o B("ARRREMOVE")}
Containers(first, menu, var) ==
    {PushOf(k2) \o PushOf(k1) \o x0 \o x \o y \o B("SSTORE") \o <<var>> \o B("HALT") :
        x0 \in first, x, y \in menu}

MCContracts ==
    NumberContracts \cup ControlContracts \cup FunctionContracts \cup ContextContracts
    \cup Containers({B("NEWMAP"), B("SLOAD") \o <<1>>}, OnMap, 1)
    \cup Containers({B("NEWARR"), B("SLOAD") \o <<2>>}, OnArray, 2)
=============================================================================
