------------------------------- MODULE MCCall -------------------------------
(* An instance of Call for TLC: the database object with a method that     *)
(* declares an argument and one that declares none, its type three levels  *)
(* deep, a method of the topmost type, a stub as the standard nodes have,  *)
(* and an object of an unrelated type.                                     *)
EXTENDS Call, TLC

CONSTANTS top, mid, low, side, db, other, connect, disconnect, typed, stub, one

MCNodes == {top, mid, low, side, db, other, connect, disconnect, typed, stub, one}
MCRegistrable == {connect, disconnect, db}

To(type, target) == [type |-> type, inverse |-> FALSE, target |-> target]
From(type, target) == [type |-> type, inverse |-> TRUE, target |-> target]
Node(class, refs) == [class |-> class, name |-> "", refs |-> refs, executable |-> FALSE,
                      userExecutable |-> FALSE, function |-> FALSE, length |-> 0]
Method(refs) == [Node("Method", refs) EXCEPT !.executable = TRUE, !.userExecutable = TRUE,
                                             !.function = TRUE]
MCSpace ==
       top :> Node("ObjectType", <<To("HasSubtype", mid), To("HasComponent", typed)>>)
    @@ mid :> Node("ObjectType", <<From("HasSubtype", top), To("HasSubtype", low)>>)
    @@ low :> Node("ObjectType", <<From("HasSubtype", mid)>>)
    @@ side :> Node("ObjectType", <<>>)
    @@ db :> Node("Object", <<To("HasTypeDefinition", low), To("HasComponent", connect),
                              To("HasComponent", disconnect)>>)
    @@ other :> Node("Object", <<To("HasTypeDefinition", side), To("HasComponent", stub)>>)
    @@ connect :> Method(<<To("HasProperty", one), From("HasComponent", db)>>)
    @@ disconnect :> Method(<<From("HasComponent", db)>>)
    @@ typed :> Method(<<To("HasProperty", one), From("HasComponent", top)>>)
    @@ stub :> Node("Method", <<To("HasProperty", one), From("HasComponent", other)>>)
    @@ one :> [Node("Variable", <<>>) EXCEPT !.name = "InputArguments", !.length = 1]
=============================================================================
