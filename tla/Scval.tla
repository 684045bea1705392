------------------------------- MODULE Scval -------------------------------
(***************************************************************************)
(* The values Go clients and Soroban contracts exchange: the types of the  *)
(* bindings, how package scval and the generated code turn them into       *)
(* ScVals and back, and how the contract SDK does (external: soroban-sdk). *)
(*                                                                         *)
(* The conversions of the code call themselves for the parts of a value.   *)
(* Here a value is a function from the places of its parts to what stands  *)
(* there, and so are an ScVal and a type, so that a conversion is said     *)
(* once, for a place.  A place is the sequence of steps that lead to it:   *)
(* names of fields, numbers of items.  An int64 has Word values.           *)
(***************************************************************************)
EXTENDS Integers, Sequences, SequencesExt, FiniteSetsExt

CONSTANT Word    \* 2^64, or a small number that stands for it

ASSUME WordAssumption == Word \in Nat \ {0}

-----------------------------------------------------------------------------
(* Types.  The items of a vector are all at the step "*".                  *)

Nth == <<"1", "2", "3", "4", "5", "6", "7", "8", "9", "10", "11", "12">>

Root(node) == [p \in {<<>>} |-> node]

Node(kind) == [k |-> kind, opt |-> FALSE]

Under(steps, t) == {steps \o p : p \in DOMAIN t}

Void == Root(Node("void"))
U64 == Root(Node("u64"))
U32 == Root(Node("u32"))
I128 == Root(Node("i128"))
U128 == Root(Node("u128"))
Bool == Root(Node("bool"))
Address == Root(Node("address"))
Bytes == Root(Node("bytes"))
BytesN(n) == Root([k |-> "bytesN", opt |-> FALSE, n |-> n])
Symbol == Root(Node("symbol"))
Text == Root(Node("string"))
\* No client has a map to send.
MapOf(s, t) == Root([k |-> "map", opt |-> FALSE, from |-> s, of |-> t])
Option(t) == [t EXCEPT ![<<>>].opt = TRUE]
Vec(t) ==
    [p \in {<<>>} \cup Under(<<"*">>, t) |-> IF p = <<>> THEN Node("vec") ELSE t[Tail(p)]]
Tuple(ts) ==
    [p \in {<<>>} \cup UNION {Under(<<Nth[i]>>, ts[i]) : i \in DOMAIN ts} |->
        IF p = <<>> THEN [k |-> "tuple", opt |-> FALSE, n |-> Len(ts)]
        ELSE ts[CHOOSE i \in DOMAIN ts : Nth[i] = p[1]][Tail(p)]]
Struct(fields) ==
    [p \in {<<>>} \cup UNION {Under(<<f>>, fields[f]) : f \in DOMAIN fields} |->
        IF p = <<>> THEN [k |-> "struct", opt |-> FALSE, names |-> DOMAIN fields]
        ELSE fields[p[1]][Tail(p)]]
\* An enum whose variants all have a number, and one that is told apart by name: its
\* items are at the step of the name, then at that of their number.
Codes(of) == Root([k |-> "codes", opt |-> FALSE, of |-> of])
Union(of) ==
    [p \in {<<>>} \cup UNION {UNION {Under(<<c, Nth[i]>>, of[c][i]) : i \in DOMAIN of[c]}
                              : c \in DOMAIN of} |->
        IF p = <<>>
        THEN [k |-> "union", opt |-> FALSE, arity |-> [c \in DOMAIN of |-> Len(of[c])]]
        ELSE of[p[1]][CHOOSE i \in DOMAIN of[p[1]] : Nth[i] = p[2]][Tail(Tail(p))]]

Leaves == {"u64", "u32", "u128", "bool", "address", "bytes", "bytesN", "symbol", "string"}

\* The arm of ScVal a leaf travels as.
Arm(node) == IF node.k = "bytesN" THEN "bytes" ELSE node.k

\* What a type has at a place of a value.
Fits(p, q) ==
    /\ Len(p) = Len(q)
    /\ \A i \in DOMAIN q : q[i] = p[i] \/ (q[i] = "*" /\ \E n \in DOMAIN Nth : p[i] = Nth[n])
Typed(t, p) == \E q \in DOMAIN t : Fits(p, q)
NodeAt(t, p) == t[CHOOSE q \in DOMAIN t : Fits(p, q)]

-----------------------------------------------------------------------------
(* Values.  A leaf is told from others by "at".                            *)

Nil == [k |-> "none"]
Here == [k |-> "struct"]

Int64 == -(Word \div 2) .. Word - Word \div 2 - 1
Int128 == -((Word * Word) \div 2) .. Word * Word - (Word * Word) \div 2 - 1

\* What may stand where a type has the node.
ValueAt(node, x, Ints) ==
    \/ x = Nil /\ (node.opt \/ node.k = "void")
    \/ /\ node.k \in Leaves
       /\ x \in [at : Seq(STRING), len : Nat] /\ (node.k = "bytesN" => x.len = node.n)
    \/ node.k = "i128" /\ x \in [at : Seq(STRING), n : Ints]
    \/ node.k = "vec" /\ \E n \in 0 .. Len(Nth) : x = [len |-> n]
    \/ node.k = "tuple" /\ x = [len |-> node.n]
    \/ node.k = "struct" /\ x = Here
    \/ node.k = "codes" /\ \E c \in DOMAIN node.of : x = [code |-> node.of[c]]
    \/ node.k = "union" /\ \E c \in DOMAIN node.arity : x = [variant |-> c]

\* A value of type t, with i128s of the given range (a Go i128 is an int64).
ValueOf(t, v, Ints) ==
    /\ v = [p \in DOMAIN v |-> v[p]] /\ <<>> \in DOMAIN v
    /\ \A p \in DOMAIN v : Typed(t, p) /\ ValueAt(NodeAt(t, p), v[p], Ints)

\* One fixed order of names stands for the lexicographic one.
Sorted(names) == FoldSet(LAMBDA name, s : Append(s, name), <<>>, names)

-----------------------------------------------------------------------------
(* Go to ScVal.  A map has its keys in order, a vector its length and the  *)
(* symbol it begins with, if it is a union.                                *)

I128ToScVal(x) ==
    [arm |-> "i128", at |-> x.at, hi |-> IF x.n < 0 THEN -1 ELSE 0, lo |-> x.n % Word]

\* Mutated: the entries in the order the fields were put into the Go map.
UnsortedScVal(names) == [arm |-> "map", keys |-> Reverse(Sorted(names))]

BuildStructScVal(names) == [arm |-> "map", keys |-> Sorted(names)]

VoidScVal == [arm |-> "void"]
VecToScVal(n) == [arm |-> "vec", head |-> "", len |-> n]
UnionToScVal(node, c) == [arm |-> "vec", head |-> c, len |-> node.arity[c] + 1]

ToScValAt(node, x) ==
    IF x = Nil THEN VoidScVal ELSE
    CASE node.k \in Leaves -> [arm |-> Arm(node), v |-> x]
      [] node.k = "i128" -> I128ToScVal(x)
      [] node.k \in {"vec", "tuple"} -> VecToScVal(x.len)
      [] node.k = "struct" -> BuildStructScVal(node.names)
      [] node.k = "codes" -> [arm |-> "u32", v |-> x]
      [] node.k = "union" -> UnionToScVal(node, x.variant)

ToScVal(t, v) == [p \in DOMAIN v |-> ToScValAt(NodeAt(t, p), v[p])]

-----------------------------------------------------------------------------
(* ScVal to Go: whether it decodes without an error, and to what.          *)

I128FromScVal(w) ==
    [at |-> w.at, n |-> IF w.lo < Word - Word \div 2 THEN w.lo ELSE w.lo - Word]

\* A union: its name, and as many items as the variant has.
Variant(node, w) ==
    w.arm = "vec" /\ w.head \in DOMAIN node.arity /\ w.len = node.arity[w.head] + 1

DecodesAt(node, w) ==
    \/ node.k = "void"
    \/ node.opt /\ w.arm = "void"
    \/ /\ node.k \in Leaves
       /\ w.arm = Arm(node) /\ (node.k = "bytesN" => w.v.len = node.n)
    \/ node.k = "i128" /\ w.arm = "i128"
    \/ node.k = "vec" /\ w.arm = "vec"
    \/ node.k = "tuple" /\ w.arm = "vec" /\ w.len = node.n
    \/ node.k = "struct" /\ w.arm = "map"
    \/ node.k = "codes" /\ w.arm = "u32"
    \/ node.k = "union" /\ Variant(node, w)

\* Entries of a map whose key names no field have no place, and are passed over.
Known(t, w) == {p \in DOMAIN w : Typed(t, p)}

Decodes(t, w) == \A p \in Known(t, w) : DecodesAt(NodeAt(t, p), w[p])

FromScValAt(node, w) ==
    IF node.k = "void" \/ w.arm = "void" THEN Nil ELSE
    CASE node.k \in Leaves \cup {"codes"} -> w.v
      [] node.k = "i128" -> I128FromScVal(w)
      [] node.k \in {"vec", "tuple"} -> [len |-> w.len]
      [] node.k = "struct" -> Here
      [] node.k = "union" -> [variant |-> w.head]

\* A field no entry of the map sets keeps Go's zero value: its place is missing.
FromScVal(t, w) == [p \in Known(t, w) |-> FromScValAt(NodeAt(t, p), w[p])]

\* What an event's parser converts as one: a field, or an item of a field that is a vector.
Part(t, p) ==
    CASE Len(p) < 2 -> p
      [] Len(p) > 1 /\ NodeAt(t, <<p[1]>>).k = "vec" -> <<p[1], p[2]>>
      [] OTHER -> <<p[1]>>

\* Mutated: the parser ends with the first entry.
FirstFieldOnly(t, w) ==
    [p \in {p \in Known(t, w) : p = <<>> \/ p[1] = w[<<>>].keys[1]} |->
        FromScValAt(NodeAt(t, p), w[p])]

\* A part of an event that does not decode is left out instead of failing the event.
EventFromScVal(t, w) ==
    LET failed == {Part(t, p) : p \in {p \in Known(t, w) : ~DecodesAt(NodeAt(t, p), w[p])}}
    IN [p \in {p \in Known(t, w) : Part(t, p) \notin failed} |-> FromScValAt(NodeAt(t, p), w[p])]

-----------------------------------------------------------------------------
(* The contract SDK, which knows no missing, unknown or unsorted entry of a *)
(* struct and no number an enum does not have.                             *)

SdkToScValAt(node, x) ==
    IF x = Nil THEN VoidScVal ELSE
    CASE node.k \in Leaves -> [arm |-> Arm(node), v |-> x]
      [] node.k = "i128" -> [arm |-> "i128", at |-> x.at, hi |-> x.n \div Word, lo |-> x.n % Word]
      [] node.k \in {"vec", "tuple"} -> [arm |-> "vec", head |-> "", len |-> x.len]
      [] node.k = "struct" -> [arm |-> "map", keys |-> Sorted(node.names)]
      [] node.k = "codes" -> [arm |-> "u32", v |-> x]
      [] node.k = "union" ->
             [arm |-> "vec", head |-> x.variant, len |-> node.arity[x.variant] + 1]

SdkToScVal(t, v) == [p \in DOMAIN v |-> SdkToScValAt(NodeAt(t, p), v[p])]

SdkDecodesAt(node, w) ==
    \/ w.arm = "void" /\ (node.opt \/ node.k = "void")
    \/ /\ node.k \in Leaves
       /\ w.arm = Arm(node) /\ (node.k = "bytesN" => w.v.len = node.n)
    \/ node.k = "i128" /\ w.arm = "i128"
    \/ node.k = "vec" /\ w.arm = "vec"
    \/ node.k = "tuple" /\ w.arm = "vec" /\ w.len = node.n
    \/ node.k = "struct" /\ w.arm = "map" /\ w.keys = Sorted(node.names)
    \/ node.k = "codes" /\ w.arm = "u32" /\ \E c \in DOMAIN node.of : w.v = [code |-> node.of[c]]
    \/ node.k = "union" /\ Variant(node, w)

SdkDecodes(t, w) == \A p \in DOMAIN w : Typed(t, p) /\ SdkDecodesAt(NodeAt(t, p), w[p])

SdkFromScValAt(node, w) ==
    IF w.arm = "void" THEN Nil ELSE
    CASE node.k \in Leaves \cup {"codes"} -> w.v
      [] node.k = "i128" -> [at |-> w.at, n |-> w.hi * Word + w.lo]
      [] node.k \in {"vec", "tuple"} -> [len |-> w.len]
      [] node.k = "struct" -> Here
      [] node.k = "union" -> [variant |-> w.head]

SdkFromScVal(t, w) == [p \in DOMAIN w |-> SdkFromScValAt(NodeAt(t, p), w[p])]

-----------------------------------------------------------------------------
(* Entries of the tables of bindings and interfaces.                       *)

Simulate(name, args, returns) ==
    [fn |-> name, args |-> args, returns |-> returns, simulated |-> TRUE]
Invoke(name, args, returns) ==
    [fn |-> name, args |-> args, returns |-> returns, simulated |-> FALSE]
Event(topic, fields) == [topic |-> topic, fields |-> Struct(fields)]
Fn(args, returns) == [args |-> args, returns |-> returns]

\* What transfer_ownership and accept_ownership publish, in every contract that is Ownable.
OwnableEvents ==
    [OwnershipTransferStartedEvent |->
         Event("auth_OwnerTransferStart", [previous_owner |-> Address, new_owner |-> Address]),
     OwnershipTransferredEvent |->
         Event("auth_OwnerTransferred", [previous_owner |-> Address, new_owner |-> Address])]
=============================================================================
