--------------------------------- MODULE VM ---------------------------------
(* The contract machine (vm/*.go, protocol/vm_context.go) and its one use:  *)
(* addFundsTx runs the contract of the receiver while a block is prepared.  *)
(*                                                                          *)
(* Bytes are numbers.  A Go slice is a window into an array of the heap, so *)
(* that append writes in place exactly where it does in Go: heap[1] is the  *)
(* contract of the account, heap[2] the data of the transaction, and every  *)
(* further array was allocated by an instruction.  A big.Int is a sign and  *)
(* its bytes without leading zeros.  Error texts are left out: an execution *)
(* that fails is refused with status "false".  "panic" is an index or slice *)
(* out of range, "hang" a loop over a malformed map.                        *)
EXTENDS Integers, Sequences, SequencesExt, FiniteSetsExt

CONSTANTS
    Contracts,     \* the contracts (byte sequences) that may be deployed
    Variables0,    \* ContractVariables when the contract is deployed
    Calls,         \* payments to the contract: Data, Fee, Amount, From, Sig1
    Account,       \* the contract's account: Address and Issuer
    MaxCalls,      \* bound on the number of calls
    MemoryMax,     \* Stack.memoryMax, 1000000 in the code
    MaxCode,       \* longest contract, 100000 in the code
    StorePrice,    \* gasPrice of SSTORE and CALLEXT, 1000 in the code
    GasWord,       \* bytes per unit of gasFactor, 64 in the code
    HashLen,       \* bytes of a hash or account, 32 in the code
    KeyLen,        \* bytes of a public key, 64 in the code
    Elements       \* byte sequences the container properties speak about

ByteSeq == Seq(0 .. 255)

ASSUME VMAssumption ==
    /\ {MaxCalls, MemoryMax, MaxCode, HashLen, KeyLen} \subseteq Nat
    /\ {StorePrice, GasWord} \subseteq Nat \ {0}
    /\ Contracts \subseteq ByteSeq /\ Variables0 \in Seq(ByteSeq)
    /\ Calls # {}
    /\ \A t \in Calls : {t.Data, t.From} \subseteq ByteSeq /\ {t.Fee, t.Amount} \subseteq Nat
    /\ {Account.Address, Account.Issuer} \subseteq ByteSeq

VARIABLES
    vm,                 \* the machine, see NewVM
    call,               \* the transaction being executed
    contract,           \* Account.Contract
    contractVariables,  \* Account.ContractVariables: one backing array for
                        \* storage.State and every StateCopy
    balance,            \* balance of the account in StateCopy
    prepared,           \* calls added to the block under preparation
    ncalls             \* number of calls so far

vars == <<vm, call, contract, contractVariables, balance, prepared, ncalls>>

-----------------------------------------------------------------------------
(* Op-codes: name, gasPrice, gasFactor; the byte b is entry b + 1.          *)
OpCodes == <<
    <<"PUSH", 1, 1>>, <<"DUP", 1, 2>>, <<"ROLL", 1, 2>>, <<"POP", 1, 1>>,
    <<"ADD", 1, 2>>, <<"SUB", 1, 2>>, <<"MULT", 1, 2>>, <<"DIV", 1, 2>>,
    <<"MOD", 1, 2>>, <<"NEG", 1, 2>>, <<"EQ", 1, 2>>, <<"NEQ", 1, 2>>,
    <<"LT", 1, 2>>, <<"GT", 1, 2>>, <<"LTE", 1, 2>>, <<"GTE", 1, 2>>,
    <<"SHIFTL", 1, 2>>, <<"SHIFTR", 1, 2>>, <<"NOP", 1, 1>>, <<"JMP", 1, 1>>,
    <<"JMPIF", 1, 1>>, <<"CALL", 1, 1>>, <<"CALLIF", 1, 1>>,
    <<"CALLEXT", StorePrice, 2>>, <<"RET", 1, 1>>, <<"SIZE", 1, 1>>,
    <<"STORE", 1, 2>>, <<"SSTORE", StorePrice, 2>>, <<"LOAD", 1, 2>>,
    <<"SLOAD", 10, 2>>, <<"ADDRESS", 1, 1>>, <<"ISSUER", 1, 1>>,
    <<"BALANCE", 1, 1>>, <<"CALLER", 1, 1>>, <<"CALLVAL", 1, 1>>,
    <<"CALLDATA", 1, 1>>, <<"NEWMAP", 1, 2>>, <<"MAPHASKEY", 1, 2>>,
    <<"MAPPUSH", 1, 2>>, <<"MAPGETVAL", 1, 2>>, <<"MAPSETVAL", 1, 2>>,
    <<"MAPREMOVE", 1, 2>>, <<"NEWARR", 1, 2>>, <<"ARRAPPEND", 1, 2>>,
    <<"ARRINSERT", 1, 2>>, <<"ARRREMOVE", 1, 2>>, <<"ARRAT", 1, 2>>,
    <<"SHA3", 1, 2>>, <<"CHECKSIG", 1, 2>>, <<"ERRHALT", 0, 1>>, <<"HALT", 0, 1>> >>

(* A fresh machine for one call.                                            *)
NewVM(code, data, fee) ==
    [pc |-> 0, fee |-> fee, stack |-> <<>>, memoryUsage |-> 0, callStack |-> <<>>,
     changes |-> <<>>, heap |-> <<code, data>>,
     status |-> IF Len(code) > MaxCode THEN "false" ELSE "run"]

(* Between two calls there is no machine.                                   *)
NoVM == [NewVM(<<>>, <<>>, 0) EXCEPT !.status = "idle"]

(* n turns of a loop.                                                       *)
Turns(turn(_), start, n) ==
    FoldLeft(LAMBDA w, i : turn(w), start, [i \in 1 .. n |-> i])

Running(m) == m.status = "run"
Fail(m) == IF Running(m) THEN [m EXCEPT !.status = "false"] ELSE m
Stop(m, why) == [m EXCEPT !.status = why]
Check(m, good) == IF good THEN m ELSE Fail(m)

-----------------------------------------------------------------------------
(* Slices.                                                                  *)
Slice(a, o, n) == [arr |-> a, off |-> o, len |-> n]
Nothing == Slice(1, 0, 0)
Bytes(m, s) == SubSeq(m.heap[s.arr], s.off + 1, s.off + s.len)
Cap(m, s) == Len(m.heap[s.arr]) - s.off
Sub(s, from, to) == Slice(s.arr, s.off + from, to - from)

(* An allocation of the Go runtime: the bytes and room up to cap.           *)
New(m, bytes, cap) ==
    [m |-> [m EXCEPT !.heap = Append(@, bytes \o [i \in 1 .. cap - Len(bytes) |-> 0])],
     v |-> Slice(Len(m.heap) + 1, 0, Len(bytes))]

(* Capacity after growing: the need or twice the old one, in words.         *)
Grown(cap, need) == 8 * (((IF need > 2 * cap THEN need ELSE 2 * cap) + 7) \div 8)

(* append(s, t...): in place when the array has room, else into a new one.  *)
AppendBytes(m, s, t) ==
    LET need == s.len + Len(t)
        at == s.off + s.len
    IN  IF need <= Cap(m, s)
        THEN [m |-> [m EXCEPT !.heap[s.arr] =
                        SubSeq(@, 1, at) \o t \o SubSeq(@, at + Len(t) + 1, Len(@))],
              v |-> Slice(s.arr, s.off, need)]
        ELSE New(m, Bytes(m, s) \o t, Grown(Cap(m, s), need))
AppendTo(r, t) == AppendBytes(r.m, r.v, t)

-----------------------------------------------------------------------------
(* Conversions (vm/utils.go).                                               *)
UInt16(n) == n % 65536
LittleEndian(n, w) == [i \in 1 .. w |-> (n \div (256 ^ (i - 1))) % 256]
BigEndian(n, w) == Reverse(LittleEndian(n, w))
UInt16ToByteArray(n) == LittleEndian(n, 2)
UInt64ToByteArray(n) == [i \in 1 .. 4 |-> 0] \o BigEndian(n, 4)
ByteArrayToInt(b) == FoldLeft(LAMBDA n, x : 256 * n + x, 0, b)

(* [ok, v]: the empty array is 0, any other length than 2 is an error.      *)
ByteArrayToUI16(b) ==
    [ok |-> Len(b) \in {0, 2}, v |-> IF Len(b) = 2 THEN b[1] + 256 * b[2] ELSE 0]

BoolToByteArray(b) == <<IF b THEN 1 ELSE 0>>

SetBytes(b) ==
    LET set == {i \in DOMAIN b : b[i] # 0}
    IN  IF set = {} THEN <<>> ELSE SubSeq(b, Min(set), Len(b))

BigInt(neg, mag) == [neg |-> neg /\ mag # <<>>, mag |-> mag]
UnsignedBigIntConversion(b) == BigInt(FALSE, SetBytes(b))
SignedBigIntConversion(b) == BigInt(b[1] = 1, SetBytes(Tail(b)))
SignedByteArrayConversion(z) == <<IF z.neg THEN 1 ELSE 0>> \o z.mag

Value(z) == IF z.neg THEN -ByteArrayToInt(z.mag) ELSE ByteArrayToInt(z.mag)
OfValue(n) == BigInt(n < 0, SetBytes(BigEndian(IF n < 0 THEN -n ELSE n, 4)))

-----------------------------------------------------------------------------
(* Fetching, the evaluation stack and its gas.  Results are [m, v], pops    *)
(* also say ok; an error sticks in m while later operands are still popped. *)
Code(m) == m.heap[1]

fetch(m) ==
    IF Len(Code(m)) > m.pc
    THEN [m |-> [m EXCEPT !.pc = @ + 1], v |-> Code(m)[m.pc + 1]]
    ELSE [m |-> Fail(m), v |-> 0]

fetchMany(m, n) ==
    IF Len(Code(m)) - m.pc > n
    THEN [m |-> [m EXCEPT !.pc = @ + n], v |-> Slice(1, m.pc, n)]
    ELSE [m |-> Fail(m), v |-> Nothing]

hasEnoughMemory(m, n) == MemoryMax >= n + m.memoryUsage

Pushed(m, s) ==
    [m EXCEPT !.stack = Append(@, s), !.memoryUsage = @ + s.len]

Push(m, s) ==
    IF Running(m) /\ hasEnoughMemory(m, s.len) THEN Pushed(m, s) ELSE Fail(m)

(* The instructions that drop the error of Push.                            *)
TryPush(m, s) ==
    IF Running(m) /\ hasEnoughMemory(m, s.len) THEN Pushed(m, s) ELSE m

PushResult(r) == Push(r.m, r.v)
TryPushResult(r) == TryPush(r.m, r.v)
PushNew(m, bytes, cap) == PushResult(New(m, bytes, cap))
TryPushNew(m, bytes, cap) == TryPushResult(New(m, bytes, cap))

(* Mutant: an element leaves the stack without leaving the memory counter.  *)
KeepMemory(m, i) == [m |-> [m EXCEPT !.stack = RemoveAt(@, i)], v |-> m.stack[i]]
PopIndexAt(m, i) ==
    [m |-> [m EXCEPT !.stack = RemoveAt(@, i), !.memoryUsage = @ - m.stack[i].len],
     v |-> m.stack[i]]

(* Mutant: the gas of an element is taken without looking at what is left.  *)
PopUnchecked(m, gasFactor) ==
    IF m.stack = <<>> THEN [m |-> Fail(m), v |-> Nothing, ok |-> FALSE]
    ELSE LET p == PopIndexAt(m, Len(m.stack))
         IN  [m |-> [p.m EXCEPT !.fee = @ - gasFactor * ((p.v.len + GasWord - 1) \div GasWord)],
              v |-> p.v, ok |-> TRUE]
PopBytes(m, gasFactor) ==
    IF m.stack = <<>> THEN [m |-> Fail(m), v |-> Nothing, ok |-> FALSE]
    ELSE LET p == PopIndexAt(m, Len(m.stack))
             gasCost == gasFactor * ((p.v.len + GasWord - 1) \div GasWord)
         IN  IF m.fee < gasCost THEN [m |-> Fail(p.m), v |-> Nothing, ok |-> FALSE]
             ELSE [m |-> [p.m EXCEPT !.fee = @ - gasCost], v |-> p.v, ok |-> TRUE]

PopUnsignedBigInt(m, gasFactor) ==
    LET p == PopBytes(m, gasFactor)
    IN  [m |-> p.m, v |-> UnsignedBigIntConversion(Bytes(p.m, p.v))]

(* The first byte is the sign; an empty element is indexed out of range.    *)
Signed(p) ==
    LET b == Bytes(p.m, p.v)
        zero == BigInt(FALSE, <<>>)
    IN  CASE ~p.ok -> [m |-> p.m, v |-> zero]
          [] p.ok /\ b = <<>> -> [m |-> Stop(p.m, "panic"), v |-> zero]
          [] p.ok /\ b # <<>> /\ b[1] \notin {0, 1} -> [m |-> Fail(p.m), v |-> zero]
          [] OTHER -> [m |-> p.m, v |-> SignedBigIntConversion(b)]
PopSignedBigInt(m, gasFactor) == Signed(PopBytes(m, gasFactor))

(* n elements, two or three, from the top.                                  *)
PopAlso(p, gasFactor) ==
    LET q == PopBytes(p.m, gasFactor) IN [m |-> q.m, vs |-> Append(p.vs, q.v)]
Operands(m, n, gasFactor) ==
    LET two == PopAlso(PopAlso([m |-> m, vs |-> <<>>], gasFactor), gasFactor)
    IN  IF n = 2 THEN two ELSE PopAlso(two, gasFactor)

NewNumber(m, z) ==
    LET b == SignedByteArrayConversion(z) IN AppendTo(New(m, <<b[1]>>, 1), Tail(b))
PushNumber(m, z) == PushResult(NewNumber(m, z))

-----------------------------------------------------------------------------
(* Containers: a type byte, a 2-byte size, then the elements, each with its *)
(* 2-byte length.  s is the slice that holds the container.                 *)
InCap(m, s, end) == end <= Cap(m, s)
UI16At(m, s, i) == LET a == m.heap[s.arr]
                   IN  a[s.off + i + 1] + 256 * a[s.off + i + 2]
IsContainer(m, s, type) == s.len > 0 /\ Bytes(m, s)[1] = type

setSize(m, s, n) ==
    [m EXCEPT !.heap[s.arr][s.off + 2] = UInt16ToByteArray(n)[1],
              !.heap[s.arr][s.off + 3] = UInt16ToByteArray(n)[2]]
IncrementSize(r) ==
    IF r.v.len < 3 THEN r
    ELSE [m |-> setSize(r.m, r.v, UInt16(UI16At(r.m, r.v, 1) + 1)), v |-> r.v]

(* Mutant: removing works on the array the slice points to.                 *)
InPlace(m, s, from, to) == AppendBytes(m, Sub(s, 0, from), Bytes(m, Sub(s, to, s.len)))
(* The copy of a container without its bytes from .. to - 1.                *)
Without(m, s, from, to) ==
    AppendTo(AppendTo(New(m, <<>>, 0), Bytes(m, Sub(s, 0, from))), Bytes(m, Sub(s, to, s.len)))

(* Maps (vm/map.go).  Keys and values alternate.                            *)
getElement(m, s, i) ==
    IF ~InCap(m, s, i + 2) THEN [res |-> "panic", v |-> Nothing, end |-> 0]
    ELSE LET end == i + 2 + UI16At(m, s, i)
         IN  IF s.len < i + 2 \/ s.len < end
             THEN [res |-> "err", v |-> Nothing, end |-> 0]
             ELSE [res |-> "ok", v |-> Sub(s, i + 2, end), end |-> end]

(* One turn of the loop that MapContainsKey, GetVal and Remove share; only  *)
(* the first goes on after a key it cannot read, from the start of the map. *)
MapTurn(m, s, key, op, w) ==
    LET k == getElement(m, s, w.at)
        v == getElement(m, s, k.end)
        valueEnd == k.end + 2 + UI16At(m, s, k.end)
    IN  IF k.res = "panic" THEN [w EXCEPT !.res = "panic"]
        ELSE IF k.res = "err" /\ op # "has" THEN [w EXCEPT !.res = "err"]
        ELSE IF v.res = "panic" THEN [w EXCEPT !.res = "panic"]
        ELSE IF v.res = "err" /\ op = "get" THEN [w EXCEPT !.res = "err"]
        ELSE IF Bytes(m, k.v) = key THEN [w EXCEPT !.res = "found", !.value = v.v, !.end = valueEnd]
        ELSE IF w.at = valueEnd THEN [w EXCEPT !.res = "err"]
        ELSE [w EXCEPT !.at = valueEnd]

MapFind(m, s, key, op) ==
    LET turn(w) ==
            IF w.res = "walk" /\ w.at < s.len THEN MapTurn(m, s, key, op, w) ELSE w
        w == Turns(turn, [res |-> "walk", at |-> 3, value |-> Nothing, end |-> 0], s.len)
    IN  CASE w.res = "walk" /\ w.at >= s.len -> [w EXCEPT !.res = "missing"]
          [] w.res = "walk" /\ w.at < s.len -> [w EXCEPT !.res = "hang"]
          [] w.res = "found" /\ op = "remove" /\ w.end > s.len -> [w EXCEPT !.res = "panic"]
          [] OTHER -> w

(* What became of a search: go on, an error, or the end of the process.     *)
Found(m, w) ==
    IF w.res \in {"panic", "hang"} THEN Stop(m, w.res) ELSE Check(m, w.res = "found")

(* Append writes the two lengths and the two elements, then the size.       *)
MapAppend(m, s, key, value) ==
    LET Add(r, e) ==
            LET sized == AppendTo(r, UInt16ToByteArray(e.len))
            IN  AppendTo(sized, Bytes(sized.m, e))
    IN  IncrementSize(Add(Add([m |-> m, v |-> s], key), value))

SizeKept(m, s, w) == Without(m, s, w.at, w.end)                     \* mutant
MapRemove(m, s, w) ==
    LET r == Without(m, s, w.at, w.end)
        n == UI16At(r.m, r.v, 1)
    IN  [m |-> IF n > 0 THEN setSize(r.m, r.v, n - 1) ELSE r.m, v |-> r.v]

(* Arrays (vm/array.go).  [res, at, size]: the element of an index.         *)
goToIndex(m, s, index) ==
    LET turn(w) ==
            IF w.res # "err" \/ w.at >= UInt16(s.len) \/ w.n > index THEN w
            ELSE IF UInt16(w.at + 2) < w.at \/ ~InCap(m, s, w.at + 2) THEN [w EXCEPT !.res = "panic"]
            ELSE IF w.n = index THEN [w EXCEPT !.res = "found", !.size = UI16At(m, s, w.at)]
            ELSE [w EXCEPT !.n = @ + 1, !.at = UInt16(@ + 2 + UI16At(m, s, @))]
        start == [res |-> "err", at |-> 3, n |-> 0, size |-> 0]
    IN  IF s.len < 3 \/ UI16At(m, s, 1) < index THEN start ELSE Turns(turn, start, index + 1)

(* Mutant: the element is added and not counted.                            *)
Uncounted(m, s, element) == AppendBytes(m, s, UInt16ToByteArray(Len(element)) \o element)
ArrayAppend(m, s, element) ==
    IncrementSize(AppendBytes(m, s, UInt16ToByteArray(Len(element)) \o element))

ElementEnd(w) == UInt16(w.at + 2 + w.size)

(* Remove leaves an error behind when the size field is already 0 or gone.  *)
DecrementSize(r) ==
    LET n == UI16At(r.m, r.v, 1)
    IN  [m |-> IF r.v.len >= 3 /\ n > 0 THEN setSize(r.m, r.v, n - 1) ELSE Fail(r.m),
         v |-> r.v]
RemoveElement(m, s, w) ==
    CASE w.res # "found" -> [m |-> Found(m, w), v |-> s]
      [] w.res = "found" /\ ElementEnd(w) > s.len -> [m |-> Stop(m, "panic"), v |-> s]
      [] OTHER -> DecrementSize(Without(m, s, w.at, ElementEnd(w)))
ArrayRemove(m, s, index) == RemoveElement(m, s, goToIndex(m, s, index))

(* Insert removes the element first and then looks for its place again.     *)
InsertElement(r, w, element) ==
    LET head == AppendTo(New(r.m, <<>>, 0), Bytes(r.m, Sub(r.v, 0, w.at)))
    IN  CASE ~Running(r.m) -> r
          [] Running(r.m) /\ w.res # "found" -> [m |-> Found(r.m, w), v |-> r.v]
          [] OTHER -> AppendTo(ArrayAppend(head.m, head.v, element),
                               Bytes(r.m, Sub(r.v, w.at, r.v.len)))
ArrayInsert(m, s, index, element) ==
    LET r == ArrayRemove(m, s, index)
    IN  InsertElement(r, goToIndex(r.m, r.v, index), element)

-----------------------------------------------------------------------------
(* The instructions.  Each operator takes the machine after the op-code was *)
(* fetched and paid for, the name of the op-code and its gasFactor.         *)

StackCodes == {"PUSH", "DUP", "ROLL", "POP"}
StackOp(m, op, gas) ==
    LET p == PopBytes(m, gas)
        arg == fetch(m)
        many == fetchMany(arg.m, arg.v + 1)
        n == Len(m.stack)
    IN  CASE op = "PUSH" -> Push(many.m, many.v)
          [] op = "DUP" -> Push(Push(p.m, p.v), p.v)
          [] op = "ROLL" ->
               IF ~Running(arg.m) \/ n = arg.v + 1 THEN arg.m
               ELSE IF arg.v >= n THEN Fail(arg.m)
               ELSE LET r == PopIndexAt(arg.m, n - arg.v - 1) IN Push(r.m, r.v)
          [] op = "POP" -> p.m

(* big.Int.Div and Mod are Euclidean: the remainder is never negative.      *)
ArithmeticCodes == {"ADD", "SUB", "MULT", "DIV", "MOD"}
Arithmetic(op, x, y) ==
    CASE op = "ADD" -> x + y
      [] op = "SUB" -> x - y
      [] op = "MULT" -> x * y
      [] op = "DIV" -> IF y > 0 THEN x \div y ELSE -(x \div (-y))
      [] op = "MOD" -> x % (IF y > 0 THEN y ELSE -y)

ArithmeticOp(m, op, gas) ==
    LET right == PopSignedBigInt(m, gas)
        left == PopSignedBigInt(right.m, gas)
        x == Value(left.v)
        y == Value(right.v)
    IN  IF ~Running(left.m) \/ (op \in {"DIV", "MOD"} /\ y = 0) THEN Fail(left.m)
        ELSE PushNumber(left.m, OfValue(Arithmetic(op, x, y)))

CompareCodes == {"EQ", "NEQ", "LT", "GT", "LTE", "GTE"}
Compare(op, x, y) ==
    CASE op = "LT" -> Value(x) < Value(y)
      [] op = "GT" -> Value(x) > Value(y)
      [] op = "LTE" -> Value(x) <= Value(y)
      [] op = "GTE" -> Value(x) >= Value(y)
      [] op = "EQ" -> x = y
      [] op = "NEQ" -> x # y

CompareOp(m, op, gas) ==
    LET Popped(q) == IF op \in {"EQ", "NEQ"} THEN PopUnsignedBigInt(q, gas)
                     ELSE PopSignedBigInt(q, gas)
        right == Popped(m)
        left == Popped(right.m)
    IN  IF ~Running(left.m) THEN left.m
        ELSE TryPushNew(left.m, BoolToByteArray(Compare(op, left.v, right.v)), 1)

(* NEG drops the error of Push.  Rsh rounds towards minus infinity.         *)
UnaryCodes == {"NEG", "SHIFTL", "SHIFTR", "NOP"}
UnaryOp(m, op, gas) ==
    LET arg == fetch(m)
        shifted == PopSignedBigInt(arg.m, gas)
        x == Value(shifted.v)
        tos == PopSignedBigInt(m, gas)
        neg == BigInt(~tos.v.neg, tos.v.mag)
    IN  CASE op = "NOP" -> arg.m
          [] op = "SHIFTL" -> PushNumber(shifted.m, OfValue(Turns(LAMBDA y : 2 * y, x, arg.v)))
          [] op = "SHIFTR" -> PushNumber(shifted.m, OfValue(Turns(LAMBDA y : y \div 2, x, arg.v)))
          [] op = "NEG" -> TryPushResult(NewNumber(tos.m, neg))

(* A local variable of a frame is set.                                      *)
With(variables, address, z) ==
    [a \in DOMAIN variables \cup {address} |-> IF a = address THEN z ELSE variables[a]]

(* A condition is true when its first byte is 1; an empty one is indexed    *)
(* out of range.  A call moves its arguments from the stack to a new frame. *)
Enter(m, target, nargs, gas) ==
    LET pop(acc, address) ==
            LET p == PopUnsignedBigInt(acc.m, gas)
            IN  IF Running(acc.m)
                THEN [m |-> p.m, variables |-> With(acc.variables, address, p.v)] ELSE acc
        args == FoldLeft(pop, [m |-> m, variables |-> <<>>], [i \in 1 .. nargs |-> nargs - i])
    IN  IF target = 0 \/ target > Len(Code(m)) \/ ~Running(args.m) THEN Fail(args.m)
        ELSE [args.m EXCEPT !.pc = target,
                 !.callStack = Append(@, [returnAddress |-> m.pc, variables |-> args.variables])]

JumpCodes == {"JMP", "JMPIF", "CALL", "CALLIF", "CALLEXT", "RET"}
JumpOp(m, op, gas) ==
    LET label == fetchMany(m, 2)
        target == ByteArrayToInt(Bytes(m, label.v))
        nargs == fetch(label.m)
        p == PopBytes(IF op = "JMPIF" THEN label.m ELSE nargs.m, gas)
        taken == Running(p.m) /\ p.v.len > 0 /\ Bytes(p.m, p.v)[1] = 1
        functionHash == fetchMany(fetchMany(m, HashLen).m, 4)
    IN  CASE op = "JMP" -> IF Running(label.m) THEN [label.m EXCEPT !.pc = target] ELSE label.m
          [] op = "CALL" -> IF Running(nargs.m) THEN Enter(nargs.m, target, nargs.v, gas) ELSE nargs.m
          [] op = "CALLEXT" -> fetch(functionHash.m).m
          [] op = "RET" -> IF m.callStack = <<>> THEN Fail(m)
                           ELSE [m EXCEPT !.pc = Last(m.callStack).returnAddress,
                                          !.callStack = Front(@)]
          [] op \in {"JMPIF", "CALLIF"} ->
               CASE Running(p.m) /\ p.v.len = 0 -> Stop(p.m, "panic")
                 [] taken /\ op = "JMPIF" -> [p.m EXCEPT !.pc = target]
                 [] taken /\ op = "CALLIF" -> Enter(p.m, target, nargs.v, gas)
                 [] OTHER -> p.m

(* Local variables live in the top frame; an unset one is 0.  A contract    *)
(* variable is read from the account and written to the list of changes.    *)
IsVariable(index) == Len(contractVariables) > index
SetContractVariable(m, i, bytes) ==
    [m EXCEPT !.changes = Append(@, [index |-> i, value |-> bytes])]

VariableCodes == {"SIZE", "SSTORE", "STORE", "SLOAD", "LOAD"}
VariableOp(m, op, gas) ==
    LET arg == fetch(m)
        p == PopBytes(IF op = "SIZE" THEN m ELSE arg.m, gas)
        right == PopSignedBigInt(arg.m, gas)
        frame == Len(m.callStack)
        known == IsVariable(arg.v)
    IN  CASE op = "SIZE" -> PushNew(p.m, UInt64ToByteArray(p.v.len), 8)
          [] op = "SSTORE" -> IF ~Running(p.m) \/ ~known THEN Fail(p.m)
                              ELSE SetContractVariable(p.m, arg.v, Bytes(p.m, p.v))
          [] op = "STORE" -> IF ~Running(right.m) \/ frame = 0 THEN Fail(right.m)
                             ELSE [right.m EXCEPT !.callStack[frame].variables =
                                        With(@, arg.v, right.v)]
          [] op = "SLOAD" -> IF ~Running(arg.m) \/ ~known THEN Fail(arg.m)
                             ELSE LET v == contractVariables[arg.v + 1]
                                  IN  PushNew(arg.m, v, Len(v))
          [] op = "LOAD" -> IF ~Running(arg.m) \/ frame = 0 THEN Fail(arg.m)
                            ELSE LET local == m.callStack[frame].variables
                                 IN  PushNumber(arg.m, IF arg.v \in DOMAIN local THEN local[arg.v]
                                                       ELSE OfValue(0))

(* The receiver's balance in StateCopy: calls of this block are paid.       *)
GetBalance == balance + FoldLeft(LAMBDA n, t : n + t.Amount, 0, prepared)

(* Parameters of a call: each is preceded by its length minus 1.            *)
PushData(m) ==
    LET td == m.heap[2]
        param(w) ==
            CASE ~Running(w.m) \/ w.i >= Len(td) -> w
              [] Running(w.m) /\ w.i < Len(td) /\ Len(td) - w.i - 1 <= td[w.i + 1] ->
                    [w EXCEPT !.m = Fail(w.m)]
              [] OTHER -> [m |-> Push(w.m, Slice(2, w.i + 1, td[w.i + 1] + 1)),
                           i |-> w.i + td[w.i + 1] + 2]
    IN  Turns(param, [m |-> m, i |-> 0], Len(td)).m

ContextCodes == {"ADDRESS", "ISSUER", "BALANCE", "CALLER", "CALLVAL", "CALLDATA"}
ContextOp(m, op) ==
    CASE op = "ADDRESS" -> PushNew(m, Account.Address, KeyLen)
      [] op = "ISSUER" -> PushNew(m, Account.Issuer, HashLen)
      [] op = "BALANCE" -> PushNew(m, Reverse(UInt64ToByteArray(GetBalance)), 8)
      [] op = "CALLER" -> PushNew(m, call.From, HashLen)
      [] op = "CALLVAL" -> PushNew(m, Reverse(UInt64ToByteArray(call.Amount)), 8)
      [] op = "CALLDATA" -> PushData(m)

(* The map is on top of the stack, then the key, then the value.  SetVal    *)
(* appends also when there was no such key, and then reports that error.    *)
MapCodes == {"NEWMAP", "MAPHASKEY", "MAPPUSH", "MAPGETVAL", "MAPSETVAL", "MAPREMOVE"}
Search(op) == CASE op = "MAPHASKEY" -> "has" [] op = "MAPGETVAL" -> "get" [] OTHER -> "remove"
WithoutKey(m, s, w) ==
    IF w.res = "found" THEN MapRemove(Found(m, w), s, w) ELSE [m |-> Found(m, w), v |-> s]
SetVal(r, vs) ==
    IF vs[2].len <= 65535 /\ vs[3].len <= 65535 /\ r.m.status \in {"run", "false"}
    THEN MapAppend(r.m, r.v, vs[2], vs[3]) ELSE r
KeyInstruction(m, op, vs, w) ==
    CASE op = "MAPHASKEY" ->
           IF w.res \in {"found", "missing"}
           THEN TryPushNew(m, BoolToByteArray(w.res = "found"), 1) ELSE Found(m, w)
      [] op = "MAPGETVAL" -> Push(Found(m, w), w.value)
      [] op = "MAPREMOVE" -> PushResult(WithoutKey(m, vs[1], w))
      [] op = "MAPSETVAL" -> PushResult(SetVal(WithoutKey(m, vs[1], w), vs))
MapInstruction(m, op, vs) ==
    CASE ~Running(m) -> m
      [] Running(m) /\ op = "MAPPUSH" ->
           IF vs[2].len <= 65535 /\ vs[3].len <= 65535
           THEN PushResult(MapAppend(m, vs[1], vs[2], vs[3])) ELSE Fail(m)
      [] Running(m) /\ op # "MAPPUSH" ->
           KeyInstruction(m, op, vs, MapFind(m, vs[1], Bytes(m, vs[2]), Search(op)))
MapOp(m, op, gas) ==
    LET p == Operands(m, IF op \in {"MAPPUSH", "MAPSETVAL"} THEN 3 ELSE 2, gas)
    IN  IF op = "NEWMAP" THEN PushNew(m, <<1, 0, 0>>, 3)
        ELSE MapInstruction(Check(p.m, IsContainer(p.m, p.vs[1], 1)), op, p.vs)

(* The array is on top of the stack, then the index or, for ARRAPPEND, the  *)
(* element, then the element of ARRINSERT.                                  *)
ArrayCodes == {"NEWARR", "ARRAPPEND", "ARRINSERT", "ARRREMOVE", "ARRAT"}
ArrayAt(m, s, w) ==
    CASE w.res # "found" -> Found(m, w)
      [] w.res = "found" /\ (ElementEnd(w) < w.at + 2 \/ ~InCap(m, s, ElementEnd(w))) ->
           Stop(m, "panic")
      [] OTHER -> Push(m, Sub(s, w.at + 2, ElementEnd(w)))
ArrayInstruction(m, op, vs, index) ==
    CASE ~Running(m) -> m
      [] Running(m) /\ op = "ARRAPPEND" ->
           IF vs[2].len <= 65535
           THEN PushResult(ArrayAppend(m, vs[1], Bytes(m, vs[2]))) ELSE Fail(m)
      [] Running(m) /\ op = "ARRINSERT" ->
           IF vs[1].len < 3 \/ index >= UI16At(m, vs[1], 1) THEN Fail(m)
           ELSE PushResult(ArrayInsert(m, vs[1], index, Bytes(m, vs[3])))
      [] Running(m) /\ op = "ARRREMOVE" -> PushResult(ArrayRemove(m, vs[1], index))
      [] Running(m) /\ op = "ARRAT" -> ArrayAt(m, vs[1], goToIndex(m, vs[1], index))
ArrayOp(m, op, gas) ==
    LET p == Operands(m, IF op = "ARRINSERT" THEN 3 ELSE 2, gas)
        index == ByteArrayToUI16(Bytes(p.m, p.vs[2]))
    IN  IF op = "NEWARR" THEN TryPushResult(AppendTo(New(m, <<2>>, 1), <<0, 0>>))
        ELSE ArrayInstruction(Check(p.m, IsContainer(p.m, p.vs[1], 2) /\ (op = "ARRAPPEND" \/ index.ok)),
                     op, p.vs, index.v)

(* sha3 and ecdsa: a hash is the input cut or filled to its length, and a   *)
(* signature verifies for the key and the hash it was made with.            *)
Sha3(b) == [i \in 1 .. HashLen |-> IF i < HashLen /\ i <= Len(b) THEN b[i] ELSE Len(b) % 256]
Verify(key, hash, sig) == sig = <<key, hash>>

CryptoCodes == {"SHA3", "CHECKSIG"}
CryptoOp(m, op, gas) ==
    LET p1 == PopBytes(m, gas)
        p2 == PopBytes(p1.m, gas)
        sized == Check(p2.m, p1.v.len = KeyLen /\ p2.v.len = HashLen)
    IN  IF op = "SHA3" THEN PushNew(p1.m, Sha3(Bytes(p1.m, p1.v)), HashLen)
        ELSE TryPushNew(sized, BoolToByteArray(Verify(Bytes(sized, p1.v), Bytes(sized, p2.v), call.Sig1)), 1)

-----------------------------------------------------------------------------
(* Exec: fetch, look up, charge, decode.                                    *)
Init ==
    /\ contract \in Contracts
    /\ contractVariables = Variables0
    /\ vm = NoVM
    /\ call = CHOOSE t \in Calls : TRUE
    /\ balance = 0 /\ prepared = <<>> /\ ncalls = 0

Next0 == Code(vm)[vm.pc + 1] + 1
Executable ==
    /\ Len(Code(vm)) > vm.pc
    /\ Next0 <= Len(OpCodes)
    /\ vm.fee >= OpCodes[Next0][2]

Decodes(codes) == Running(vm) /\ Executable /\ OpCodes[Next0][1] \in codes
FreeOfCharge == [vm EXCEPT !.pc = @ + 1]                            \* mutant
Paid == [vm EXCEPT !.pc = @ + 1, !.fee = @ - OpCodes[Next0][2]]
Op == OpCodes[Next0][1]
Gas == OpCodes[Next0][3]

host == <<call, contract, contractVariables, balance, prepared, ncalls>>

ExecStack == Decodes(StackCodes) /\ vm' = StackOp(Paid, Op, Gas) /\ UNCHANGED host
ExecArithmetic == Decodes(ArithmeticCodes) /\ vm' = ArithmeticOp(Paid, Op, Gas) /\ UNCHANGED host
ExecCompare == Decodes(CompareCodes) /\ vm' = CompareOp(Paid, Op, Gas) /\ UNCHANGED host
ExecUnary == Decodes(UnaryCodes) /\ vm' = UnaryOp(Paid, Op, Gas) /\ UNCHANGED host
ExecJump == Decodes(JumpCodes) /\ vm' = JumpOp(Paid, Op, Gas) /\ UNCHANGED host
ExecVariable == Decodes(VariableCodes) /\ vm' = VariableOp(Paid, Op, Gas) /\ UNCHANGED host
ExecContext == Decodes(ContextCodes) /\ vm' = ContextOp(Paid, Op) /\ UNCHANGED host
ExecMap == Decodes(MapCodes) /\ vm' = MapOp(Paid, Op, Gas) /\ UNCHANGED host
ExecArray == Decodes(ArrayCodes) /\ vm' = ArrayOp(Paid, Op, Gas) /\ UNCHANGED host
ExecCrypto == Decodes(CryptoCodes) /\ vm' = CryptoOp(Paid, Op, Gas) /\ UNCHANGED host
ExecHalt == Decodes({"HALT"}) /\ vm' = Stop(Paid, "true") /\ UNCHANGED host
ExecErrHalt == Decodes({"ERRHALT"}) /\ vm' = Fail(Paid) /\ UNCHANGED host
(* The end of the code, an unknown op-code, or too little gas.              *)
ExecStops == Running(vm) /\ ~Executable /\ vm' = Fail(vm) /\ UNCHANGED host

Exec == \/ ExecStack \/ ExecArithmetic \/ ExecCompare \/ ExecUnary \/ ExecJump
        \/ ExecVariable \/ ExecContext \/ ExecMap \/ ExecArray \/ ExecCrypto
        \/ ExecHalt \/ ExecErrHalt \/ ExecStops

-----------------------------------------------------------------------------
(* The machine's host: addFundsTx, and the fate of the block.               *)
Idle == vm.status = "idle"

Call(t) ==
    /\ Idle /\ ncalls < MaxCalls
    /\ call' = t /\ ncalls' = ncalls + 1
    /\ vm' = NewVM(contract, t.Data, t.Fee)
    /\ UNCHANGED <<contract, contractVariables, balance, prepared>>

(* context.PersistChanges writes through to the array of storage.State.     *)
(* Mutant: of two changes of a variable the first one wins.                 *)
FirstWins(cv, changes) ==
    FoldRight(LAMBDA c, v : [v EXCEPT ![c.index + 1] = c.value], changes, cv)
PersistChanges(cv, changes) ==
    FoldLeft(LAMBDA v, c : [v EXCEPT ![c.index + 1] = c.value], cv, changes)

Accept ==
    /\ vm.status = "true"
    /\ contractVariables' = PersistChanges(contractVariables, vm.changes)
    /\ contract' = Code(vm)
    /\ prepared' = Append(prepared, call)
    /\ vm' = NoVM
    /\ UNCHANGED <<call, balance, ncalls>>

(* The transaction goes to the invalid ones; the changes are dropped.       *)
Refuse ==
    /\ vm.status = "false"
    /\ contract' = Code(vm)
    /\ vm' = NoVM
    /\ UNCHANGED <<call, contractVariables, balance, prepared, ncalls>>

(* The block is mined and validated: fundsStateChange pays the account and  *)
(* does not touch its variables.                                            *)
ValidateBlock ==
    /\ Idle /\ prepared # <<>>
    /\ balance' = GetBalance /\ prepared' = <<>>
    /\ UNCHANGED <<vm, call, contract, contractVariables, ncalls>>

(* Mining is interrupted by another block: StateCopy is dropped.            *)
AbandonBlock ==
    /\ Idle /\ prepared # <<>>
    /\ prepared' = <<>>
    /\ UNCHANGED <<vm, call, contract, contractVariables, balance, ncalls>>

Next == \/ \E t \in Calls : Call(t)
        \/ Exec \/ Accept \/ Refuse \/ ValidateBlock \/ AbandonBlock

Spec == Init /\ [][Next]_vars

-----------------------------------------------------------------------------
(* Type correctness.                                                        *)
TypeOK ==
    /\ vm.pc \in Nat /\ vm.fee \in Nat /\ vm.memoryUsage \in Nat
    /\ \A i \in DOMAIN vm.heap : vm.heap[i] \in ByteSeq
    /\ \A i \in DOMAIN vm.stack :
          LET s == vm.stack[i]
          IN  s.arr \in DOMAIN vm.heap /\ s.off >= 0 /\ s.len \in 0 .. Cap(vm, s)
    /\ \A i \in DOMAIN vm.callStack : vm.callStack[i].returnAddress \in Nat
    /\ vm.status \in {"idle", "run", "true", "false", "panic", "hang"}
    /\ contract \in ByteSeq
    /\ \A i \in DOMAIN contractVariables : contractVariables[i] \in ByteSeq
    /\ call \in Calls /\ ncalls \in 0 .. MaxCalls /\ balance \in Nat

(* The memory counter of the stack is the sum of the elements' lengths and  *)
(* never above the maximum, whatever instructions pushed, popped, rolled or *)
(* failed half way (stack.go: Push, Pop, PopIndexAt).                       *)
MemoryAccounted ==
    /\ vm.memoryUsage = FoldLeft(LAMBDA n, s : n + s.len, 0, vm.stack)
    /\ vm.memoryUsage <= MemoryMax

(* An execution comes to its end by its own gas, also with backward jumps   *)
(* and recursive calls: every instruction either ends it, without an index  *)
(* out of range and without a loop of its own, or leaves less gas than      *)
(* before (Exec: "Infinite Loop until return called").                      *)
RunsOutOfGas ==
    [][Running(vm) => \/ vm'.status \in {"true", "false"}
                      \/ Running(vm') /\ vm'.fee < vm.fee]_vars

(* A call is atomic: an accepted one leaves in every variable the value it  *)
(* stored last, a refused one nothing, although changes are collected in a  *)
(* list and written one by one, and no other step touches a variable.       *)
LastStored(i) ==
    LET at == {k \in DOMAIN vm.changes : vm.changes[k].index = i - 1}
    IN  IF at = {} \/ vm.status # "true" THEN contractVariables[i]
        ELSE vm.changes[Max(at)].value
CallIsAtomic ==
    [][/\ Len(contractVariables') = Len(contractVariables)
       /\ \A i \in DOMAIN contractVariables : contractVariables'[i] = LastStored(i)]_vars

(* An instruction changes no element of the stack it does not pop: two      *)
(* elements may share an array (DUP), but removing from a map or an array   *)
(* works on a copy (map.go: Remove; array.go: Remove, Insert).              *)
StackKept ==
    [][\A i \in DOMAIN vm.stack :
          (i \in DOMAIN vm'.stack /\ vm'.stack[i] = vm.stack[i])
             => Bytes(vm', vm.stack[i]) = Bytes(vm, vm.stack[i])]_vars

(* What the containers mean: a map is a sequence of pairs, an array one of  *)
(* elements.  Encoded gives the bytes, one way only.                        *)
Prefixed(e) == <<Len(e) % 256, Len(e) \div 256>> \o e
EncodedArray(es) ==
    <<2, Len(es) % 256, Len(es) \div 256>> \o FlattenSeq([i \in DOMAIN es |-> Prefixed(es[i])])
EncodedMap(es) ==
    <<1, Len(es) % 256, Len(es) \div 256>>
    \o FlattenSeq([i \in DOMAIN es |-> Prefixed(es[i][1]) \o Prefixed(es[i][2])])

MaxEntries == 3
SeqsOf(S) == UNION {[1 .. n -> S] : n \in 0 .. MaxEntries}
AtKey(es, k) == {i \in DOMAIN es : es[i][1] = k}

(* Operand i of an instruction, counted from the top of the stack.          *)
Operand(i) == Bytes(vm, vm.stack[Len(vm.stack) + 1 - i])
Result == Bytes(vm', Last(vm'.stack))
Roomy == vm.fee >= 20 /\ vm.memoryUsage + 16 <= MemoryMax
Gives(bytes) == vm'.status = "run" /\ Result = bytes

(* The map instructions do to the bytes what they mean: MAPPUSH adds a pair *)
(* at the end, MAPREMOVE and MAPSETVAL take the first pair with the key     *)
(* away and fail when there is none, and sizes always agree (map.go).       *)
MapsMatch ==
    [][Decodes(MapCodes \ {"NEWMAP"}) /\ Len(vm.stack) >= 3 /\ Roomy =>
       \A es \in SeqsOf(Elements \X Elements) : Operand(1) = EncodedMap(es) =>
         LET k == Operand(2)
             v == Operand(3)
             at == AtKey(es, k)
             rest == IF at = {} THEN es ELSE RemoveAt(es, Min(at))
         IN  CASE Op = "MAPPUSH" -> Gives(EncodedMap(Append(es, <<k, v>>)))
               [] Op = "MAPHASKEY" -> Gives(<<IF at = {} THEN 0 ELSE 1>>)
               [] Op # "MAPHASKEY" /\ Op # "MAPPUSH" /\ at = {} -> vm'.status = "false"
               [] Op = "MAPGETVAL" /\ at # {} -> Gives(es[Min(at)][2])
               [] Op = "MAPREMOVE" /\ at # {} -> Gives(EncodedMap(rest))
               [] Op = "MAPSETVAL" /\ at # {} -> Gives(EncodedMap(Append(rest, <<k, v>>)))]_vars

(* Likewise for arrays: ARRINSERT replaces an element, except the last one, *)
(* where it fails (array.go).                                               *)
ArraysMatch ==
    [][Decodes(ArrayCodes \ {"NEWARR"}) /\ Len(vm.stack) >= 3 /\ Roomy =>
       \A es \in SeqsOf(Elements) : Operand(1) = EncodedArray(es) =>
         LET i == Operand(2)[1] + 1
             e == Operand(3)
         IN  CASE Op = "ARRAPPEND" -> Gives(EncodedArray(Append(es, Operand(2))))
               [] Op = "ARRAT" -> IF i \in DOMAIN es THEN Gives(es[i]) ELSE vm'.status = "false"
               [] Op = "ARRREMOVE" -> IF i \in DOMAIN es THEN Gives(EncodedArray(RemoveAt(es, i)))
                                      ELSE vm'.status = "false"
               [] Op = "ARRINSERT" -> IF i < Len(es) THEN Gives(EncodedArray([es EXCEPT ![i] = e]))
                                      ELSE vm'.status = "false"]_vars

=============================================================================
