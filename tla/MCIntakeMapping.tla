-------------------------- MODULE MCIntakeMapping --------------------------
(* Files with two columns, repeated and odd names, and mappings of one or  *)
(* two projections with a spec of every kind, valid or not.                *)
EXTENDS IntakeMapping

A == <<"a">>
B == <<"b">>
A2 == <<"a", 2>>
Buyer == <<"buyer">>

MCHeaders == {<<A, B>>, <<A, A>>, <<A, A, A2>>, <<A, <<>>>>}

At(path, checked) == [kind |-> "path", path |-> path, checked |-> checked]
Constant == [kind |-> "constant"]
Key(k) == [kind |-> "derived", key |-> k]
Template == [kind |-> "template", paths |-> <<A, B>>, checked |-> TRUE]
Pack(items) == [kind |-> "pack", items |-> items]
PlainB == Pack({At(A, TRUE), At(B, FALSE)})   \* B as a plain string
Labelled == Pack({At(A, TRUE), Constant})
Coalesce(x, y) == [kind |-> "coalesce", options |-> <<x, y>>]

Specs == {At(A, TRUE), At(A2, TRUE), At(B, FALSE), Constant, Key(Buyer), Template,
          PlainB, Labelled,
          Coalesce(At(A, TRUE), At(B, TRUE)), Coalesce(PlainB, Key(Buyer)),
          Coalesce(Coalesce(Constant, Constant), Constant)}

Customer(all, key, target, spec) ==
    [name |-> "customer", entity |-> "CUSTOMER", all |-> all, any |-> {},
     fields |-> <<[target |-> "source_customer_id", spec |-> key],
                  [target |-> target, spec |-> spec]>>]

Customers ==
    {Customer(all, key, target, spec) :
       all \in {{}, {Buyer}, {B}}, key \in Specs, target \in {"email", "attributes"}, spec \in Specs}

Event(name, any, who, spec) ==
    [name |-> name, entity |-> "EVENT", all |-> {}, any |-> any,
     fields |-> <<[target |-> "source_event_id", spec |-> At(A, FALSE)],
                  [target |-> who, spec |-> spec]>>]

Pairs ==
    {<<Customer({Buyer}, Key(Buyer), "email", At(B, TRUE)), Event(name, any, who, spec)>> :
       name \in {"customer", "event"}, any \in {{}, {A, B}}, who \in {"anonymous_id", "email"},
       spec \in {Key(Buyer), At(B, TRUE)}}

Candidates == {<<>>, <<[path |-> A, checked |-> TRUE]>>,
               <<[path |-> A2, checked |-> TRUE], [path |-> B, checked |-> TRUE]>>}

MCMappings ==
    {[keys |-> k, projections |-> p] :
       k \in {[x \in {Buyer} |-> c] : c \in Candidates} \cup {<<>>},
       p \in {<<>>} \cup {<<c>> : c \in Customers} \cup Pairs}
=============================================================================
