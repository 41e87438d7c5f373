--------------------------- MODULE ResetGenerator ----------------------------
(***************************************************************************)
(* cmd/reset, which writes Reset methods for the structs of a package into *)
(* reset.gen.go, and the pool of cmd/reset/pool, which calls such methods. *)
(*                                                                         *)
(* The package has one annotated struct with one field, whose type is      *)
(* edited between the runs of the generator, and a struct Item that is     *)
(* annotated or not.  A type is the sequence of its constructors, the      *)
(* outermost first, and the type they end in.  Generated code is the form  *)
(* of statement the generator chooses for the field.                       *)
(***************************************************************************)
EXTENDS Naturals, Sequences

CONSTANTS
    Shapes,     \* bound: the sequences of constructors a field's type may have
    Users,      \* goroutines that use the pool
    Objects,    \* bound: the objects of the pool
    NoObject

Constructors == {"ptr", "slice", "array", "map"}

(* What a type ends in.  `Conn' has a Reset written by hand, `geo.Item' shares its last name with the
   local Item, `func' stands for function, interface and channel types and `literal' for a struct type,
   each written out without a name. *)
Named(name, kind, foreign) == [name |-> name, kind |-> kind, foreign |-> foreign]
Bases ==
    {Named("int", "basic", FALSE), Named("error", "error", FALSE), Named("ID", "defined", FALSE),
     Named("Point", "struct", FALSE), Named("Item", "struct", FALSE), Named("Conn", "struct", FALSE),
     Named("Item", "struct", TRUE), Named("Time", "struct", TRUE), Named("", "func", FALSE),
     Named("", "literal", FALSE)}
Types == [of : Shapes, base : Bases]

ASSUME ShapesAssumption == Shapes \subseteq Seq(Constructors) /\ <<>> \in Shapes
ASSUME NoObjectAssumption == NoObject \notin Objects

VARIABLES
    directory,      \* "hidden", "empty" or "package": what walkPackages finds
    field,          \* the type of the struct's field
    annotated,      \* Item has the comment generate:reset
    generated,      \* reset.gen.go: absent, or the code of the field and how it was generated
    pooled,         \* the objects in sync.Pool
    zero,           \* objects in their zero state
    place,          \* user -> where he is between two calls, or in Get or Put
    object          \* user -> the object he refers to, also after he has put it back

source == <<directory, field, annotated>>
objects == <<pooled, zero, place, object>>
genvars == <<source, generated, objects>>

Absent == [code |-> "none"]
Codes == {"truncate", "clear", "call Reset", "assign struct", "nil", "assert Resetter", "mangled",
          "zero literal", "composite literal"}

PoolInit ==
    /\ pooled = {} /\ zero = {}
    /\ place = [u \in Users |-> "idle"] /\ object = [u \in Users |-> NoObject]

GenInit ==
    /\ directory \in {"hidden", "empty", "package"}
    /\ field \in Types /\ annotated \in BOOLEAN
    /\ generated = Absent
    /\ PoolInit

-----------------------------------------------------------------------------
(* What the generator sees of a type. *)

Outer(t) == IF t.of = <<>> THEN "none" ELSE Head(t.of)

(* resolveBaseType drops constructors and package: geo.Item and [3]*Item are Item to it. *)
BaseType(t) == t.base.name

StructTypes == {"Point", "Item", "Conn"}

(* Mutant: generated files are read whatever the flag says. *)
HasResetAlways(skip) == {"Conn"} \cup IF generated # Absent /\ generated.items THEN {"Item"} ELSE {}

(* collectTypeInfoFromFile: methods called Reset, those of the old reset.gen.go among them if it is
   read and can be parsed. *)
HasReset(skip) ==
    {"Conn"} \cup IF ~skip /\ generated # Absent /\ generated.code # "mangled" /\ generated.items
                  THEN {"Item"} ELSE {}

(* Mutant: the braces are forgotten. *)
GetZeroValueBare(t) ==
    CASE t.base.kind = "basic" -> "zero literal"
      [] t.base.kind \in {"error", "func", "literal"} -> "nil"
      [] OTHER -> "type name"

(* getZeroValue, which strips every constructor before it looks; only arrays come with one.  To it
   every type without a name is a pointer: getTypeString gives `*ast.StructType' and the like. *)
GetZeroValue(t) ==
    CASE t.base.kind = "basic" -> "zero literal"
      [] t.base.kind = "error" \/ (t.base.kind \in {"func", "literal"} /\ t.of = <<>>) -> "nil"
      [] OTHER -> "composite literal"

(* The outermost constructor decides first, then what is known of the base type's name.  The text
   for a struct by value has its pieces in the wrong order. *)
GenerateResetCode(t, skip) ==
    CASE Outer(t) = "slice" -> "truncate"
      [] Outer(t) = "map" -> "clear"
      [] Outer(t) = "ptr" /\ BaseType(t) \in HasReset(skip) -> "call Reset"
      [] Outer(t) = "ptr" /\ BaseType(t) \in StructTypes \ HasReset(skip) -> "assign struct"
      [] Outer(t) = "ptr" /\ BaseType(t) \notin StructTypes \cup HasReset(skip) -> "nil"
      [] Outer(t) \in {"none", "array"} /\ BaseType(t) \in HasReset(skip) -> "assert Resetter"
      [] Outer(t) \in {"none", "array"} /\ BaseType(t) \in StructTypes \ HasReset(skip) -> "mangled"
      [] OTHER -> GetZeroValue(t)

(* walkPackages, processPackage and generateResetFile. *)
GenerateResetFile(force, skip) ==
    /\ directory = "package"
    /\ generated = Absent \/ force
    /\ generated' = [code |-> GenerateResetCode(field, skip), items |-> annotated, skipped |-> skip,
                     current |-> TRUE]
    /\ UNCHANGED <<source, objects>>

(* The developers' part: the struct is edited, the comment of Item added or removed. *)
Outdated == IF generated = Absent THEN Absent ELSE [generated EXCEPT !.current = FALSE]

EditField(t) ==
    /\ t # field
    /\ field' = t /\ generated' = Outdated
    /\ UNCHANGED <<directory, annotated, objects>>

EditItem ==
    /\ annotated' = ~annotated /\ generated' = Outdated
    /\ UNCHANGED <<directory, field, objects>>

-----------------------------------------------------------------------------
(* The pool.  A user refers to one object at a time and puts it back once; careless ones write to it
   even then.  What sync.Pool has, it may drop. *)

Busy(u) == place[u] # "idle"
Moves(u, p) == place' = [place EXCEPT ![u] = p]

(* Get: an object of the pool, or a new one, to which nobody refers and of which the constructor
   makes what it likes; its Reset; and the return. *)
Take(u, o) ==
    /\ ~Busy(u)
    /\ \/ o \in pooled /\ UNCHANGED zero
       \/ /\ o \notin pooled /\ \A v \in Users \ {u} : object[v] # o
          /\ zero' \in {zero \cup {o}, zero \ {o}}
    /\ pooled' = pooled \ {o}
    /\ Moves(u, "taken") /\ object' = [object EXCEPT ![u] = o]
    /\ UNCHANGED <<source, generated>>

Reset(u) ==
    /\ place[u] \in {"taken", "putting"}
    /\ zero' = zero \cup {object[u]}
    /\ Moves(u, IF place[u] = "taken" THEN "got" ELSE "storing")
    /\ UNCHANGED <<source, generated, pooled, object>>

Get(u) ==
    /\ place[u] = "got" /\ Moves(u, "using")
    /\ UNCHANGED <<source, generated, pooled, zero, object>>

(* Mutant: Put stores the object before it resets it. *)
PutStoring(u) ==
    /\ place[u] = "using" /\ Moves(u, "putting")
    /\ pooled' = pooled \cup {object[u]}
    /\ UNCHANGED <<source, generated, zero, object>>

(* Put: its Reset, and the storing. *)
Put(u) ==
    /\ place[u] = "using" /\ Moves(u, "putting")
    /\ UNCHANGED <<source, generated, pooled, zero, object>>

Store(u) ==
    /\ place[u] = "storing" /\ Moves(u, "idle")
    /\ pooled' = pooled \cup {object[u]}
    /\ UNCHANGED <<source, generated, zero, object>>

Drop(o) ==
    /\ o \in pooled /\ pooled' = pooled \ {o}
    /\ UNCHANGED <<source, generated, zero, place, object>>

(* Its user changes an object, or one who has put it back. *)
Change(u) ==
    /\ place[u] \in {"idle", "using"} /\ object[u] # NoObject
    /\ zero' = zero \ {object[u]}
    /\ UNCHANGED <<source, generated, pooled, place, object>>

GenNext ==
    \/ \E force, skip \in BOOLEAN : GenerateResetFile(force, skip)
    \/ \E t \in Types : EditField(t)
    \/ EditItem

PoolNext ==
    \/ \E u \in Users :
          Reset(u) \/ Get(u) \/ Put(u) \/ Store(u) \/ Change(u) \/ \E o \in Objects : Take(u, o)
    \/ \E o \in Objects : Drop(o)

GenSpec == GenInit /\ [][GenNext \/ PoolNext]_genvars

-----------------------------------------------------------------------------
(* Properties *)

(* The generator has a statement for every type, of one of the forms it knows, and the pool's users
   are where Get and Put can be. *)
Stations == {"idle", "taken", "got", "using", "putting", "storing"}
GenTypeOK ==
    /\ field \in Types /\ annotated \in BOOLEAN
    /\ generated # Absent => generated.code \in Codes
    /\ pooled \subseteq Objects /\ zero \subseteq Objects
    /\ place \in [Users -> Stations] /\ object \in [Users -> Objects \cup {NoObject}]

(* What Go makes of a statement for a field: it compiles, in a file without imports, and leaves the
   field empty. *)
ResetInFile(base) ==
    ~base.foreign /\ (base.name = "Conn" \/ (base.name = "Item" /\ generated.items))
Empties(code, t) ==
    CASE code = "truncate" -> Outer(t) = "slice"
      [] code = "clear" -> Outer(t) = "map"
      [] code = "call Reset" -> t.of = <<"ptr">> /\ ResetInFile(t.base)
      [] code = "assign struct" -> t.of = <<"ptr">> /\ t.base.kind = "struct" /\ ~t.base.foreign
      [] code = "nil" -> Outer(t) = "ptr" \/ (t.of = <<>> /\ t.base.kind \in {"error", "func"})
      [] code = "zero literal" -> t.of = <<>> /\ t.base.kind = "basic"
      [] code = "composite literal" ->
            Outer(t) = "array" /\ ~t.base.foreign /\ t.base.kind = "defined"
      [] OTHER -> FALSE

(* What the package comment lists and the generator can do: basic types, slices, maps, and pointers
   to the package's structs; and what it does not list, errors and types written out without a name,
   but for structs written out, to which `nil' cannot be assigned. *)
Ordinary(t) ==
    \/ Outer(t) \in {"slice", "map"}
    \/ t.of = <<>> /\ t.base.kind \in {"basic", "error", "func"}
    \/ t.of = <<"ptr">> /\ ~t.base.foreign

(* Whatever was edited and generated before, a run with the default flags that writes the file gives
   an ordinary field a statement that compiles and empties it: it is led astray by no method that is
   only in the file it replaces.  With -skip-generated=false it is, and nested structs, which are on
   the package comment's list, are not ordinary: their statement does not parse. *)
FreshCodeEmpties ==
    generated # Absent =>
        (generated.current /\ generated.skipped /\ Ordinary(field) => Empties(generated.code, field))

(* What a user does to the object he got stays done: he goes on with the same object, and the Reset of
   no other user's Get or Put, in whatever order their steps come, takes his changes back. *)
UsersAreUndisturbed ==
    [][\A u \in Users : place[u] = "using" /\ place'[u] = "using" =>
          object'[u] = object[u] /\ (object[u] \in zero' => object[u] \in zero)]_objects
=============================================================================
