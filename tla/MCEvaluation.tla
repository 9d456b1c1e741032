---------------------------- MODULE MCEvaluation ----------------------------
\* Every expression of one operation over six leaves, and every expression
\* of two nested operations over four of them with one plain operand beside.
EXTENDS Evaluation

Node(op, args) == [op |-> op, args |-> args]
Leaf(op) == Node(op, <<>>)
Leaves == {Leaf(o) : o \in {"read", "text", "call", "make", "try", "trymake"}}
Few    == {Leaf(o) : o \in {"read", "call", "make", "try"}}

Plain(S)   == {e \in S : ~IsManaged(e)}
Managed(S) == {e \in S : IsManaged(e)}
Pairs(S, T) == {<<x, y>> : x \in S, y \in T}
Unary(S) ==
    {Node(o, <<x>>) : o \in {"field", "part", "unbox", "len"}, x \in Managed(S)}
      \cup {Node("str", <<x>>) : x \in Plain(S)}
      \cup {Node("isnull", <<x>>) : x \in S}
Binary(S, T) ==
    {Node(o, a) : o \in {"call", "make", "try", "trymake", "fstr", "tuple", "new"}, a \in Pairs(S, T)}
      \cup {Node(o, a) : o \in {"add", "and"}, a \in Pairs(Plain(S), Plain(T))}
      \cup {Node(o, a) : o \in {"eq", "list"},
                        a \in Pairs(Plain(S), Plain(T)) \cup Pairs(Managed(S), Managed(T))}
      \cup {Node("same", a) : a \in Pairs(Managed(S), Managed(T))}
      \cup {Node("icall", a) : a \in Pairs(Managed(S), T)}
      \cup {Node("catch", a) : a \in Pairs(S, Managed(T))}
Store(S, T) == {Node("set", a) : a \in Pairs(Plain(S), T)}

Inner == Unary(Few) \cup Binary(Few, Few)
MCPrograms == Leaves \cup Unary(Leaves) \cup Binary(Leaves, Leaves) \cup Store(Leaves, Leaves)
                \cup Unary(Inner) \cup Binary(Inner, Few) \cup Binary(Few, Inner)
                \cup Store(Inner, Few) \cup Store(Few, Inner)
MCUses == {"let", "discard"}
=============================================================================
